---------------------------- MODULE PgAdminProofs ----------------------------
(***************************************************************************)
(* Proofs about PgAdmin for any set of requests, time stamps, migrations   *)
(* and fixtures.                                                           *)
(***************************************************************************)
EXTENDS PgAdmin, TLAPS

(* Which names are databases, and which of them can be the same.           *)
LEMMA Names ==
    /\ Maintenance \in DB /\ DefaultTemplate \in DB
    /\ \A t \in Stamp : dbName(t) \in DB
    /\ \A m \in MigrationLists : templateName(m) \in DB
BY DEF DB, Template, MigrationTemplates, Fresh

LEMMA NamesApart ==
    /\ Maintenance # DefaultTemplate
    /\ Maintenance \notin Fresh /\ DefaultTemplate \notin Fresh
    /\ \A m \in MigrationLists :
         /\ templateName(m) \notin Fresh
         /\ templateName(m) # Maintenance
         /\ templateName(m) # DefaultTemplate
    /\ \A m1, m2 \in MigrationLists : templateName(m1) = templateName(m2) => m1 = m2
<1>1. Maintenance # DefaultTemplate
  BY DEF Maintenance, DefaultTemplate
<1>2. Maintenance \notin Fresh /\ DefaultTemplate \notin Fresh
  BY DEF Fresh, dbName, Maintenance, DefaultTemplate
<1>3. ASSUME NEW m \in MigrationLists
      PROVE  /\ templateName(m) \notin Fresh
             /\ templateName(m) # Maintenance
             /\ templateName(m) # DefaultTemplate
  BY DEF Fresh, dbName, Maintenance, DefaultTemplate, templateName
<1>4. ASSUME NEW m1 \in MigrationLists, NEW m2 \in MigrationLists,
             templateName(m1) = templateName(m2)
      PROVE  m1 = m2
  BY <1>4, DigestAssumption DEF templateName
<1> QED
  BY <1>1, <1>2, <1>3, <1>4

(* One file more, applied to a database, keeps the contents well typed. *)
LEMMA ApplyType ==
    ASSUME content \in [DB -> Content], NEW d \in DB, NEW f \in File, applyInTx(d, f)
    PROVE  content' \in [DB -> Content]
<1>1. content[d] \in Content
  OBVIOUS
<1>2. Append(content[d].applied, f) \in Seq(File)
  BY <1>1 DEF Content
<1> QED
  BY <1>1, <1>2 DEF applyInTx, Content

(* Every state of PgAdmin is well typed. *)
THEOREM TypeCorrect == Spec => []TypeOK
<1>1. Init => TypeOK
  BY ListAssumption, Names
  DEF Init, TypeOK, Content, Blank, PC, CreateDBRequest
<1>2. TypeOK /\ [Next]_vars => TypeOK'
  <2> SUFFICES ASSUME TypeOK, [Next]_vars PROVE TypeOK'
    OBVIOUS
  <2> USE ListAssumption, Names DEF TypeOK, Goto
  <2>a. \A r \in Request : /\ req[r] \in CreateDBRequest
                           /\ req[r].migrations \in MigrationLists
                           /\ req[r].migrations \in Seq(File)
                           /\ req[r].fixtures \in Seq(File)
    BY DEF CreateDBRequest
  <2>1. ASSUME NEW r \in Request, Begin(r) PROVE TypeOK'
    BY <2>1 DEF Begin, PC, Creating
  <2>2. ASSUME NEW r \in Request, CreateFromDefault(r) PROVE TypeOK'
    BY <2>2 DEF CreateFromDefault, createDatabaseWithTemplate, PC, Creating
  <2>3. ASSUME NEW r \in Request, CreateEmpty(r) PROVE TypeOK'
    BY <2>3 DEF CreateEmpty, createDatabase, Content, Blank, PC, Creating
  <2>4. ASSUME NEW r \in Request, CreateFromTemplate(r) PROVE TypeOK'
    <3>1. templateName(req[r].migrations) \in DB
      BY <2>4, <2>a DEF CreateFromTemplate
    <3> QED
      BY <2>4, <3>1 DEF CreateFromTemplate, createDatabaseWithTemplate, PC, Creating
  <2>5. ASSUME NEW r \in Request, TemplateMissing(r) PROVE TypeOK'
    BY <2>5 DEF TemplateMissing, PC, Creating
  <2>6. ASSUME NEW r \in Request, CreateToMigrate(r) PROVE TypeOK'
    BY <2>6 DEF CreateToMigrate, createDatabase, Content, Blank, PC, Creating
  <2>7. ASSUME NEW r \in Request, ApplyMigration(r) PROVE TypeOK'
    <3>1. req[r].migrations[next[r]] \in File
      BY <2>7, <2>a DEF ApplyMigration
    <3>2. content' \in [DB -> Content]
      BY <2>7, <3>1, ApplyType DEF ApplyMigration
    <3> QED
      BY <2>7, <3>2 DEF ApplyMigration
  <2>8. ASSUME NEW r \in Request, Snapshot(r) PROVE TypeOK'
    <3>1. templateName(req[r].migrations) \in DB
      BY <2>a
    <3> QED
      BY <2>8, <3>1 DEF Snapshot, createDatabaseWithTemplate, PC, Creating
  <2>9. ASSUME NEW r \in Request, SnapshotFails(r) PROVE TypeOK'
    BY <2>9 DEF SnapshotFails, PC, Creating
  <2>10. ASSUME NEW r \in Request, ApplyFixture(r) PROVE TypeOK'
    <3>1. req[r].fixtures[next[r]] \in File
      BY <2>10, <2>a DEF ApplyFixture
    <3>2. content' \in [DB -> Content]
      BY <2>10, <3>1, ApplyType DEF ApplyFixture
    <3> QED
      BY <2>10, <3>2 DEF ApplyFixture
  <2>11. ASSUME NEW r \in Request, Answer(r) PROVE TypeOK'
    BY <2>11 DEF Answer, PC
  <2>12. ASSUME NEW r \in Request, CreateRefused(r) PROVE TypeOK'
    BY <2>12 DEF CreateRefused, PC
  <2>13. ASSUME NEW r \in Request, TerminateBackends(r) PROVE TypeOK'
    BY <2>13 DEF TerminateBackends, PC, Removing
  <2>14. ASSUME NEW r \in Request, DropDatabase(r) PROVE TypeOK'
    BY <2>14 DEF DropDatabase, PC
  <2>15. ASSUME NEW r \in Request, DropRefused(r) PROVE TypeOK'
    BY <2>15 DEF DropRefused, PC
  <2>16. ASSUME NEW r \in Request, Deliver(r) PROVE TypeOK'
    BY <2>16 DEF Deliver, PC
  <2>17. ASSUME NEW r \in Request, Connect(r) PROVE TypeOK'
    BY <2>17 DEF Connect
  <2>18. ASSUME NEW r \in Request, Write(r) PROVE TypeOK'
    <3>1. content' \in [DB -> Content]
      BY <2>18, ZenonT(60) DEF Write, Content
    <3> QED
      BY <2>18, <3>1 DEF Write
  <2>19. ASSUME NEW r \in Request, RemoveBegin(r) PROVE TypeOK'
    BY <2>19 DEF RemoveBegin, PC, Removing
  <2>20. ASSUME NEW r \in Request, CreateFails(r) PROVE TypeOK'
    BY <2>20 DEF CreateFails, PC
  <2>21. ASSUME NEW r \in Request, RemoveFails(r) PROVE TypeOK'
    BY <2>21 DEF RemoveFails, PC
  <2>22. CASE BootMigrate
    <3>1. content' \in [DB -> Content]
      <4>1. BootMigrations[bootNext] \in File
        BY <2>22 DEF BootMigrate
      <4> QED
        BY <2>22, <4>1, ApplyType DEF BootMigrate
    <3> QED
      BY <2>22, <3>1 DEF BootMigrate
  <2>23. CASE BootMigrated
    BY <2>23 DEF BootMigrated
  <2>24. CASE BootSnapshot
    BY <2>24 DEF BootSnapshot, createDatabaseWithTemplate
  <2>25. CASE BootSnapshotFails
    BY <2>25 DEF BootSnapshotFails
  <2>26. CASE BootFixture
    <3>1. content' \in [DB -> Content]
      <4>1. BootFixtures[bootNext] \in File
        BY <2>26 DEF BootFixture
      <4> QED
        BY <2>26, <4>1, ApplyType DEF BootFixture
    <3> QED
      BY <2>26, <3>1 DEF BootFixture
  <2>27. CASE BootDone
    BY <2>27 DEF BootDone
  <2>28. CASE BootFails
    BY <2>28 DEF BootFails
  <2>29. CASE UNCHANGED vars
    BY <2>29 DEF vars
  <2> QED
    BY <2>1, <2>2, <2>3, <2>4, <2>5, <2>6, <2>7, <2>8, <2>9, <2>10, <2>11, <2>12,
       <2>13, <2>14, <2>15, <2>16, <2>17, <2>18, <2>19, <2>20, <2>21, <2>22, <2>23,
       <2>24, <2>25, <2>26, <2>27, <2>28, <2>29
    DEF Next, Create, removePostgresDB, Test, Fault, Start
<1> QED
  BY <1>1, <1>2, PTL DEF Spec
-----------------------------------------------------------------------------
(* Ownership: a database named after a time stamp has one owner, and only  *)
(* the test it was returned to has sessions on it.                         *)
OwnInv ==
    /\ \A r \in Request : pc[r] # "idle" => name[r] \in Fresh
    /\ \A r \in Request : Owns(r) => name[r] \in exists
    /\ NoSharing
    /\ \A r \in attached : pc[r] \in {"held"} \cup Removing
    /\ \A r \in Request : pc[r] \in {"build", "migrate"} => ~req[r].withDefault

LEMMA OwnInvInitially == Init => OwnInv
BY DEF Init, OwnInv, NoSharing, Owns, Removing

LEMMA OwnInvPreserved ==
    ASSUME TypeOK, OwnInv, [Next]_vars
    PROVE  OwnInv'
<1> USE DEF TypeOK, OwnInv, NoSharing, Owns, Removing, Goto
<1>1. ASSUME NEW r \in Request, Begin(r) PROVE OwnInv'
  BY <1>1 DEF Begin, Fresh
<1>2. ASSUME NEW r \in Request, CreateFromDefault(r) PROVE OwnInv'
  BY <1>2 DEF CreateFromDefault, createDatabaseWithTemplate
<1>3. ASSUME NEW r \in Request, CreateEmpty(r) PROVE OwnInv'
  BY <1>3 DEF CreateEmpty, createDatabase
<1>4. ASSUME NEW r \in Request, CreateFromTemplate(r) PROVE OwnInv'
  BY <1>4 DEF CreateFromTemplate, createDatabaseWithTemplate
<1>5. ASSUME NEW r \in Request, TemplateMissing(r) PROVE OwnInv'
  BY <1>5 DEF TemplateMissing
<1>6. ASSUME NEW r \in Request, CreateToMigrate(r) PROVE OwnInv'
  BY <1>6 DEF CreateToMigrate, createDatabase
<1>7. ASSUME NEW r \in Request, ApplyMigration(r) PROVE OwnInv'
  BY <1>7 DEF ApplyMigration
<1>8. ASSUME NEW r \in Request, Snapshot(r) PROVE OwnInv'
  BY <1>8 DEF Snapshot, createDatabaseWithTemplate
<1>9. ASSUME NEW r \in Request, SnapshotFails(r) PROVE OwnInv'
  BY <1>9 DEF SnapshotFails
<1>10. ASSUME NEW r \in Request, ApplyFixture(r) PROVE OwnInv'
  BY <1>10 DEF ApplyFixture
<1>11. ASSUME NEW r \in Request, Answer(r) PROVE OwnInv'
  BY <1>11 DEF Answer
<1>12. ASSUME NEW r \in Request, CreateRefused(r) PROVE OwnInv'
  BY <1>12 DEF CreateRefused
<1>13. ASSUME NEW r \in Request, TerminateBackends(r) PROVE OwnInv'
  BY <1>13 DEF TerminateBackends
<1>14. ASSUME NEW r \in Request, DropDatabase(r) PROVE OwnInv'
  <2>1. r \notin attached
    <3>1. name[r] # Maintenance
      BY <1>14, NamesApart DEF DropDatabase
    <3> QED
      BY <1>14, <3>1 DEF DropDatabase, Sessions
  <2> QED
    BY <1>14, <2>1 DEF DropDatabase
<1>15. ASSUME NEW r \in Request, DropRefused(r) PROVE OwnInv'
  BY <1>15 DEF DropRefused
<1>16. ASSUME NEW r \in Request, Deliver(r) PROVE OwnInv'
  BY <1>16 DEF Deliver
<1>17. ASSUME NEW r \in Request, Connect(r) PROVE OwnInv'
  BY <1>17 DEF Connect
<1>18. ASSUME NEW r \in Request, Write(r) PROVE OwnInv'
  BY <1>18 DEF Write
<1>19. ASSUME NEW r \in Request, RemoveBegin(r) PROVE OwnInv'
  BY <1>19 DEF RemoveBegin
<1>20. ASSUME NEW r \in Request, CreateFails(r) PROVE OwnInv'
  BY <1>20 DEF CreateFails, Creating
<1>21. ASSUME NEW r \in Request, RemoveFails(r) PROVE OwnInv'
  BY <1>21 DEF RemoveFails
<1>22. CASE BootMigrate
  BY <1>22 DEF BootMigrate
<1>23. CASE BootMigrated
  BY <1>23 DEF BootMigrated
<1>24. CASE BootSnapshot
  BY <1>24 DEF BootSnapshot, createDatabaseWithTemplate
<1>25. CASE BootSnapshotFails
  BY <1>25 DEF BootSnapshotFails
<1>26. CASE BootFixture
  BY <1>26 DEF BootFixture
<1>27. CASE BootDone
  BY <1>27 DEF BootDone
<1>28. CASE BootFails
  BY <1>28 DEF BootFails
<1>29. CASE UNCHANGED vars
  BY <1>29 DEF vars
<1> QED
  BY <1>1, <1>2, <1>3, <1>4, <1>5, <1>6, <1>7, <1>8, <1>9, <1>10, <1>11, <1>12,
     <1>13, <1>14, <1>15, <1>16, <1>17, <1>18, <1>19, <1>20, <1>21, <1>22, <1>23,
     <1>24, <1>25, <1>26, <1>27, <1>28, <1>29
  DEF Next, Create, removePostgresDB, Test, Fault, Start

(* No two requests ever work on, hold or remove one database: for any set  *)
(* of requests and any time stamps, equal ones included.                   *)
THEOREM DatabasesNotShared == Spec => []NoSharing
<1>1. TypeOK /\ OwnInv /\ [Next]_vars => OwnInv'
  BY OwnInvPreserved
<1>2. OwnInv => NoSharing
  BY DEF OwnInv
<1> QED
  BY <1>1, <1>2, OwnInvInitially, TypeCorrect, PTL DEF Spec

-----------------------------------------------------------------------------
(* Sequences: nothing, one file more, and all files applied.               *)
LEMMA PrefixEmpty ==
    ASSUME NEW S, NEW s \in Seq(S)
    PROVE  SubSeq(s, 1, 0) = <<>> /\ s \o <<>> = s
OBVIOUS

LEMMA PrefixStep ==
    ASSUME NEW S, NEW s \in Seq(S), NEW k \in Nat \ {0}, k <= Len(s)
    PROVE  Append(SubSeq(s, 1, k - 1), s[k]) = SubSeq(s, 1, k)
OBVIOUS

LEMMA PrefixWhole ==
    ASSUME NEW S, NEW s \in Seq(S), NEW k \in Nat \ {0}, k = Len(s) + 1
    PROVE  SubSeq(s, 1, k - 1) = s
OBVIOUS

LEMMA ConcatStep ==
    ASSUME NEW S, NEW a \in Seq(S), NEW s \in Seq(S), NEW k \in Nat \ {0}, k <= Len(s)
    PROVE  Append(a \o SubSeq(s, 1, k - 1), s[k]) = a \o SubSeq(s, 1, k)
BY SMTT(30)

LEMMA PrefixOfConcat ==
    ASSUME NEW S, NEW a \in Seq(S), NEW b \in Seq(S)
    PROVE  /\ \A k \in 0..Len(a) : k \in 0..Len(a \o b) /\ SubSeq(a, 1, k) = SubSeq(a \o b, 1, k)
           /\ \A k \in 0..Len(b) : /\ Len(a) + k \in 0..Len(a \o b)
                                   /\ a \o SubSeq(b, 1, k) = SubSeq(a \o b, 1, Len(a) + k)
BY SMTT(30)

(* What the databases hold.  A database under construction holds the files *)
(* applied so far and nothing else, one that was returned all of them.     *)
DataOf(r) ==
    /\ pc[r] = "migrate" =>
         /\ next[r] <= Len(req[r].migrations) + 1
         /\ content[name[r]].applied = SubSeq(req[r].migrations, 1, next[r] - 1)
         /\ content[name[r]].writers = {}
    /\ pc[r] = "fixtures" =>
         /\ next[r] <= Len(req[r].fixtures) + 1
         /\ content[name[r]].applied = Schema(r) \o SubSeq(req[r].fixtures, 1, next[r] - 1)
         /\ content[name[r]].writers = {}
    /\ Holds(r) =>
         /\ content[name[r]].applied = Want(r)
         /\ content[name[r]].writers \subseteq {r}
    /\ pc[r] = "answer" => content[name[r]].writers = {}

TemplateData ==
    /\ \A m \in MigrationLists : templateName(m) \in exists =>
         content[templateName(m)].applied = m /\ content[templateName(m)].writers = {}
    /\ DefaultTemplate \in exists =>
         /\ content[DefaultTemplate].applied = BootMigrations
         /\ content[DefaultTemplate].writers = {}

MaintenanceData ==
    /\ content[Maintenance].writers = {}
    /\ boot = "migrate" =>
         /\ bootNext <= Len(BootMigrations) + 1
         /\ content[Maintenance].applied = SubSeq(BootMigrations, 1, bootNext - 1)
    /\ boot = "snapshot" => content[Maintenance].applied = BootMigrations
    /\ boot = "fixtures" =>
         /\ bootNext <= Len(BootFixtures) + 1
         /\ content[Maintenance].applied = BootMigrations \o SubSeq(BootFixtures, 1, bootNext - 1)
    /\ \E k \in 0..Len(BootMigrations \o BootFixtures) :
         content[Maintenance].applied = SubSeq(BootMigrations \o BootFixtures, 1, k)

DataInv == TemplateData /\ MaintenanceData /\ \A r \in Request : DataOf(r)

(* A step that leaves alone a request and the database it owns. *)
LEMMA OthersData ==
    ASSUME NEW q \in Request, DataOf(q),
           pc'[q] = pc[q], req'[q] = req[q], name'[q] = name[q], next'[q] = next[q],
           Owns(q) => content'[name[q]] = content[name[q]]
    PROVE  DataOf(q)'
<1>1. Holds(q) \/ pc[q] \in {"migrate", "fixtures", "answer"} => content'[name[q]] = content[name[q]]
  BY DEF Holds, Owns
<1>2. Schema(q)' = Schema(q) /\ Want(q)' = Want(q) /\ Holds(q)' = Holds(q)
  BY DEF Schema, Want, Holds
<1> QED
  BY <1>1, <1>2 DEF DataOf

(* A step of one request that touches no database but its own. *)
LEMMA RequestStep ==
    ASSUME NEW r \in Request, TypeOK, OwnInv, DataInv,
           boot' = boot, bootNext' = bootNext,
           \A q \in Request \ {r} :
               /\ pc'[q] = pc[q] /\ req'[q] = req[q] /\ name'[q] = name[q] /\ next'[q] = next[q]
               /\ Owns(q) => content'[name[q]] = content[name[q]],
           \A d \in DB \ Fresh : content'[d] = content[d] /\ (d \in exists' => d \in exists),
           DataOf(r)'
    PROVE  DataInv'
<1>1. ASSUME NEW q \in Request, q # r PROVE DataOf(q)'
  BY <1>1, OthersData DEF DataInv
<1>2. TemplateData'
  <2>1. \A m \in MigrationLists : templateName(m) \in DB \ Fresh
    BY Names, NamesApart
  <2>2. DefaultTemplate \in DB \ Fresh
    BY Names, NamesApart
  <2> QED
    BY <2>1, <2>2 DEF DataInv, TemplateData
<1>3. MaintenanceData'
  BY Names, NamesApart, ZenonT(60) DEF DataInv, MaintenanceData
<1> QED
  BY <1>1, <1>2, <1>3 DEF DataInv

LEMMA DataInvInitially == Init => DataInv
<1> SUFFICES ASSUME Init PROVE DataInv
  OBVIOUS
<1>1. TemplateData
  BY NamesApart DEF Init, TemplateData
<1>2. MaintenanceData
  <2>1. content[Maintenance].applied = <<>> /\ content[Maintenance].writers = {}
    BY Names DEF Init, Blank
  <2>2. /\ bootNext = 1 /\ bootNext - 1 = 0
        /\ Len(BootMigrations) \in Nat /\ Len(BootMigrations \o BootFixtures) \in Nat
        /\ BootMigrations \o BootFixtures \in Seq(File)
    BY ListAssumption DEF Init
  <2>3. /\ SubSeq(BootMigrations, 1, 0) = <<>>
        /\ SubSeq(BootMigrations \o BootFixtures, 1, 0) = <<>>
    BY ListAssumption, <2>2, PrefixEmpty
  <2>4. \E k \in 0..Len(BootMigrations \o BootFixtures) :
          content[Maintenance].applied = SubSeq(BootMigrations \o BootFixtures, 1, k)
    <3> WITNESS 0 \in 0..Len(BootMigrations \o BootFixtures)
    <3> QED
      BY <2>1, <2>3
  <2>5. boot = "migrate"
    BY DEF Init
  <2> QED
    BY <2>1, <2>2, <2>3, <2>4, <2>5 DEF MaintenanceData
<1>3. \A r \in Request : DataOf(r)
  BY DEF Init, DataOf, Holds, Removing
<1> QED
  BY <1>1, <1>2, <1>3 DEF DataInv

LEMMA DataInvPreserved ==
    ASSUME TypeOK, OwnInv, DataInv, [Next]_vars
    PROVE  DataInv'
<1>t. /\ content \in [DB -> Content] /\ name \in [Request -> DB]
      /\ pc \in [Request -> PC] /\ next \in [Request -> Nat \ {0}]
      /\ req \in [Request -> CreateDBRequest] /\ bootNext \in Nat \ {0}
  BY DEF TypeOK
<1>f. \A r \in Request : /\ req[r].migrations \in MigrationLists
                         /\ req[r].migrations \in Seq(File)
                         /\ req[r].fixtures \in Seq(File)
                         /\ Schema(r) \in Seq(File)
  BY <1>t, ListAssumption DEF CreateDBRequest, Schema
<1>o. /\ \A r \in Request : pc[r] # "idle" => name[r] \in Fresh
      /\ \A r \in Request : Owns(r) => name[r] \in exists
      /\ \A r, q \in Request : r # q /\ Owns(r) /\ Owns(q) => name[r] # name[q]
      /\ \A r \in Request : Owns(r) => pc[r] # "idle"
      /\ \A r \in attached : r \in Request /\ Owns(r) /\ Holds(r) /\ pc[r] # "answer"
      /\ \A r \in Request : pc[r] \in {"build", "migrate"} => ~req[r].withDefault
  BY DEF OwnInv, NoSharing, Owns, Holds, Removing, TypeOK
<1>i. DataInv /\ TypeOK /\ OwnInv /\ TemplateData /\ MaintenanceData /\ \A r \in Request : DataOf(r)
  BY DEF DataInv
(* The database of a request that owns none yet is nobody else's. *)
<1>n. ASSUME NEW r \in Request, name[r] \notin exists
      PROVE  \A q \in Request : Owns(q) => name[q] # name[r]
  BY <1>n, <1>o
<1>1. ASSUME NEW r \in Request, Begin(r) PROVE DataInv'
  <2>1. DataOf(r)'
    BY <1>1, <1>t, <1>i DEF Begin, Goto, DataOf, Holds, Creating, Removing, Schema, Want
  <2> QED
    BY <1>1, <1>t, <1>o, <1>i, <2>1, RequestStep DEF Begin, Goto
<1>2. ASSUME NEW r \in Request, CreateFromDefault(r) PROVE DataInv'
  <2>1. /\ name[r] \notin exists /\ DefaultTemplate \in exists
        /\ content' = [content EXCEPT ![name[r]] = content[DefaultTemplate]]
        /\ exists' = exists \cup {name[r]}
        /\ name[r] \in Fresh
    BY <1>2, <1>o DEF CreateFromDefault, createDatabaseWithTemplate
  <2>2. /\ content'[name[r]].applied = Schema(r)
        /\ content'[name[r]].writers = {}
    BY <1>2, <1>t, <1>f, <1>i, <2>1 DEF CreateFromDefault, TemplateData, Schema
  <2>3. /\ pc'[r] = "fixtures" /\ next'[r] = 1 /\ next'[r] - 1 = 0
        /\ req' = req /\ name' = name
    BY <1>2, <1>t DEF CreateFromDefault, Goto
  <2>4. /\ SubSeq(req[r].fixtures, 1, 0) = <<>> /\ Schema(r) \o <<>> = Schema(r)
        /\ next'[r] <= Len(req[r].fixtures) + 1
    BY <1>f, <2>3, PrefixEmpty
  <2>5. Schema(r)' = Schema(r)
    BY <2>3 DEF Schema
  <2>6. DataOf(r)'
    BY <2>2, <2>3, <2>4, <2>5 DEF DataOf, Holds, Removing
  <2>7. \A q \in Request \ {r} : Owns(q) => content'[name[q]] = content[name[q]]
    BY <1>t, <1>n, <2>1
  <2>8. \A d \in DB \ Fresh : content'[d] = content[d] /\ (d \in exists' => d \in exists)
    BY <1>t, <2>1
  <2> QED
    BY <1>2, <1>t, <1>i, <2>6, <2>7, <2>8, RequestStep DEF CreateFromDefault, Goto
<1>3. ASSUME NEW r \in Request, CreateEmpty(r) PROVE DataInv'
  <2>1. /\ name[r] \notin exists /\ name[r] \in Fresh
        /\ content' = [content EXCEPT ![name[r]] = Blank]
        /\ exists' = exists \cup {name[r]}
    BY <1>3, <1>o DEF CreateEmpty, createDatabase
  <2>2. /\ content'[name[r]].applied = <<>>
        /\ content'[name[r]].writers = {}
        /\ Schema(r) = <<>>
    BY <1>3, <1>t, <2>1 DEF CreateEmpty, Blank, Schema
  <2>3. /\ pc'[r] = "fixtures" /\ next'[r] = 1 /\ next'[r] - 1 = 0
        /\ req' = req /\ name' = name
    BY <1>3, <1>t DEF CreateEmpty, Goto
  <2>4. /\ SubSeq(req[r].fixtures, 1, 0) = <<>> /\ Schema(r) \o <<>> = Schema(r)
        /\ next'[r] <= Len(req[r].fixtures) + 1
    BY <1>f, <2>3, PrefixEmpty
  <2>5. Schema(r)' = Schema(r)
    BY <2>3 DEF Schema
  <2>6. DataOf(r)'
    BY <2>2, <2>3, <2>4, <2>5 DEF DataOf, Holds, Removing
  <2>7. \A q \in Request \ {r} : Owns(q) => content'[name[q]] = content[name[q]]
    BY <1>t, <1>n, <2>1
  <2>8. \A d \in DB \ Fresh : content'[d] = content[d] /\ (d \in exists' => d \in exists)
    BY <1>t, <2>1
  <2> QED
    BY <1>3, <1>t, <1>i, <2>6, <2>7, <2>8, RequestStep DEF CreateEmpty, Goto
<1>4. ASSUME NEW r \in Request, CreateFromTemplate(r) PROVE DataInv'
  <2>1. /\ name[r] \notin exists /\ templateName(req[r].migrations) \in exists
        /\ content' = [content EXCEPT ![name[r]] = content[templateName(req[r].migrations)]]
        /\ exists' = exists \cup {name[r]}
        /\ name[r] \in Fresh
    BY <1>4, <1>o DEF CreateFromTemplate, createDatabaseWithTemplate
  <2>2. /\ content'[name[r]].applied = Schema(r)
        /\ content'[name[r]].writers = {}
    BY <1>4, <1>t, <1>f, <1>i, <2>1 DEF CreateFromTemplate, TemplateData, Schema
  <2>3. /\ pc'[r] = "fixtures" /\ next'[r] = 1 /\ next'[r] - 1 = 0
        /\ req' = req /\ name' = name
    BY <1>4, <1>t DEF CreateFromTemplate, Goto
  <2>4. /\ SubSeq(req[r].fixtures, 1, 0) = <<>> /\ Schema(r) \o <<>> = Schema(r)
        /\ next'[r] <= Len(req[r].fixtures) + 1
    BY <1>f, <2>3, PrefixEmpty
  <2>5. Schema(r)' = Schema(r)
    BY <2>3 DEF Schema
  <2>6. DataOf(r)'
    BY <2>2, <2>3, <2>4, <2>5 DEF DataOf, Holds, Removing
  <2>7. \A q \in Request \ {r} : Owns(q) => content'[name[q]] = content[name[q]]
    BY <1>t, <1>n, <2>1
  <2>8. \A d \in DB \ Fresh : content'[d] = content[d] /\ (d \in exists' => d \in exists)
    BY <1>t, <2>1
  <2> QED
    BY <1>4, <1>t, <1>i, <2>6, <2>7, <2>8, RequestStep DEF CreateFromTemplate, Goto
<1>5. ASSUME NEW r \in Request, TemplateMissing(r) PROVE DataInv'
  <2>1. DataOf(r)'
    BY <1>5, <1>t, <1>i DEF TemplateMissing, Goto, DataOf, Holds, Creating, Removing, Schema, Want
  <2> QED
    BY <1>5, <1>t, <1>o, <1>i, <2>1, RequestStep DEF TemplateMissing, Goto
<1>6. ASSUME NEW r \in Request, CreateToMigrate(r) PROVE DataInv'
  <2>1. /\ name[r] \notin exists /\ name[r] \in Fresh
        /\ content' = [content EXCEPT ![name[r]] = Blank]
        /\ exists' = exists \cup {name[r]}
    BY <1>6, <1>o DEF CreateToMigrate, createDatabase
  <2>2. content'[name[r]].applied = <<>> /\ content'[name[r]].writers = {}
    BY <1>t, <2>1 DEF Blank
  <2>3. /\ pc'[r] = "migrate" /\ next'[r] = 1 /\ next'[r] - 1 = 0
        /\ req' = req /\ name' = name
    BY <1>6, <1>t DEF CreateToMigrate, Goto
  <2>4. /\ SubSeq(req[r].migrations, 1, 0) = <<>>
        /\ next'[r] <= Len(req[r].migrations) + 1
    BY <1>f, <2>3, PrefixEmpty
  <2>5. DataOf(r)'
    BY <2>2, <2>3, <2>4 DEF DataOf, Holds, Removing
  <2>6. \A q \in Request \ {r} : Owns(q) => content'[name[q]] = content[name[q]]
    BY <1>t, <1>n, <2>1
  <2>7. \A d \in DB \ Fresh : content'[d] = content[d] /\ (d \in exists' => d \in exists)
    BY <1>t, <2>1
  <2> QED
    BY <1>6, <1>t, <1>i, <2>5, <2>6, <2>7, RequestStep DEF CreateToMigrate, Goto
<1>7. ASSUME NEW r \in Request, ApplyMigration(r) PROVE DataInv'
  <2>1. /\ pc[r] = "migrate" /\ Owns(r) /\ next[r] <= Len(req[r].migrations)
        /\ content' = [content EXCEPT ![name[r]].applied = Append(@, req[r].migrations[next[r]])]
        /\ name[r] \in Fresh /\ name[r] \in DB
    BY <1>7, <1>t, <1>o DEF ApplyMigration, applyInTx, Owns
  <2>2. /\ content[name[r]].applied = SubSeq(req[r].migrations, 1, next[r] - 1)
        /\ content[name[r]].writers = {}
        /\ content[name[r]] \in Content
    BY <1>t, <1>i, <2>1 DEF DataOf
  <2>3. Append(SubSeq(req[r].migrations, 1, next[r] - 1), req[r].migrations[next[r]])
          = SubSeq(req[r].migrations, 1, next[r])
    BY <1>f, <1>t, <2>1, PrefixStep
  <2>4. /\ content'[name[r]].applied = SubSeq(req[r].migrations, 1, next[r])
        /\ content'[name[r]].writers = {}
        /\ \A d \in DB : d # name[r] => content'[d] = content[d]
    BY <1>t, <2>1, <2>2, <2>3 DEF Content
  <2>5. /\ next'[r] = next[r] + 1 /\ next'[r] - 1 = next[r]
        /\ pc' = pc /\ req' = req /\ name' = name /\ exists' = exists
    BY <1>7, <1>t DEF ApplyMigration
  <2>6. next'[r] <= Len(req[r].migrations) + 1
    BY <1>f, <1>t, <2>1, <2>5
  <2>7. Schema(r)' = Schema(r)
    BY <2>5 DEF Schema
  <2>8. DataOf(r)'
    BY <2>1, <2>4, <2>5, <2>6, <2>7 DEF DataOf, Holds, Removing
  <2>9. \A q \in Request \ {r} : Owns(q) => content'[name[q]] = content[name[q]]
    BY <1>t, <1>o, <2>1, <2>4
  <2>10. \A d \in DB \ Fresh : content'[d] = content[d] /\ (d \in exists' => d \in exists)
    BY <2>1, <2>4, <2>5
  <2> QED
    BY <1>7, <1>t, <1>i, <2>8, <2>9, <2>10, RequestStep DEF ApplyMigration
(* All migrations are in the database when a snapshot of it is taken. *)
<1>s. ASSUME NEW r \in Request, pc[r] = "migrate", next[r] > Len(req[r].migrations)
      PROVE  /\ content[name[r]].applied = req[r].migrations
             /\ content[name[r]].writers = {}
             /\ Schema(r) = req[r].migrations
  <2>1. next[r] = Len(req[r].migrations) + 1
    BY <1>s, <1>t, <1>f, <1>i DEF DataOf
  <2>2. SubSeq(req[r].migrations, 1, next[r] - 1) = req[r].migrations
    BY <1>t, <1>f, <2>1, PrefixWhole
  <2> QED
    BY <1>s, <1>i, <1>o, <2>2 DEF DataOf, Schema
<1>8. ASSUME NEW r \in Request, Snapshot(r) PROVE DataInv'
  <2>1. /\ pc[r] = "migrate" /\ Owns(r) /\ name[r] \in Fresh
        /\ content[name[r]].applied = Schema(r)
        /\ content[name[r]].writers = {}
    BY <1>8, <1>s, <1>o DEF Snapshot, Owns
  <2>2. /\ pc'[r] = "fixtures" /\ next'[r] = 1 /\ next'[r] - 1 = 0
        /\ req' = req /\ name' = name
    BY <1>8, <1>t DEF Snapshot, Goto
  <2>3. /\ SubSeq(req[r].fixtures, 1, 0) = <<>> /\ Schema(r) \o <<>> = Schema(r)
        /\ next'[r] <= Len(req[r].fixtures) + 1
    BY <1>f, <2>2, PrefixEmpty
  <2>4. Schema(r)' = Schema(r)
    BY <2>2 DEF Schema
  <2> DEFINE template == templateName(req[r].migrations)
  <2>5. /\ content' = [content EXCEPT ![template] = content[name[r]]]
        /\ exists' = exists \cup {template}
        /\ template \in DB /\ template \notin Fresh
        /\ template # Maintenance /\ template # DefaultTemplate
    BY <1>8, <1>f, Names, NamesApart DEF Snapshot, createDatabaseWithTemplate
  <2>6. /\ content'[template] = content[name[r]]
        /\ \A d \in DB : d # template => content'[d] = content[d]
    BY <1>t, <2>5
  <2>7. content'[name[r]] = content[name[r]]
    BY <1>t, <2>1, <2>5, <2>6
  <2>8. DataOf(r)'
    BY <2>1, <2>2, <2>3, <2>4, <2>7 DEF DataOf, Holds, Removing
  <2>9. ASSUME NEW q \in Request, q # r PROVE DataOf(q)'
    <3>1. /\ pc'[q] = pc[q] /\ next'[q] = next[q] /\ req'[q] = req[q] /\ name'[q] = name[q]
          /\ Owns(q) => content'[name[q]] = content[name[q]]
      BY <1>8, <1>t, <1>o, <2>5, <2>6, <2>9 DEF Snapshot, Goto
    <3> QED
      BY <1>i, <3>1, OthersData
  <2>10. TemplateData'
    <3>1. ASSUME NEW m \in MigrationLists, templateName(m) \in exists'
          PROVE  content'[templateName(m)].applied = m /\ content'[templateName(m)].writers = {}
      <4>1. CASE m = req[r].migrations
        BY <4>1, <1>8, <1>s, <2>1, <2>6 DEF Snapshot
      <4>2. CASE m # req[r].migrations
        <5>1. templateName(m) # template /\ templateName(m) \in DB
          BY <4>2, <1>f, Names, NamesApart
        <5> QED
          BY <3>1, <5>1, <1>i, <2>5, <2>6 DEF TemplateData
      <4> QED
        BY <4>1, <4>2
    <3>2. DefaultTemplate \in exists' =>
            /\ content'[DefaultTemplate].applied = BootMigrations
            /\ content'[DefaultTemplate].writers = {}
      BY <1>i, <2>5, <2>6, Names DEF TemplateData
    <3> QED
      BY <3>1, <3>2 DEF TemplateData
  <2>11. MaintenanceData'
    BY <1>8, <1>i, <2>5, <2>6, Names DEF Snapshot, MaintenanceData
  <2> QED
    BY <2>8, <2>9, <2>10, <2>11 DEF DataInv
<1>9. ASSUME NEW r \in Request, SnapshotFails(r) PROVE DataInv'
  <2>1. /\ pc[r] = "migrate" /\ Owns(r) /\ name[r] \in Fresh
        /\ content[name[r]].applied = Schema(r)
        /\ content[name[r]].writers = {}
    BY <1>9, <1>s, <1>o DEF SnapshotFails, Owns
  <2>2. /\ pc'[r] = "fixtures" /\ next'[r] = 1 /\ next'[r] - 1 = 0
        /\ req' = req /\ name' = name
    BY <1>9, <1>t DEF SnapshotFails, Goto
  <2>3. /\ SubSeq(req[r].fixtures, 1, 0) = <<>> /\ Schema(r) \o <<>> = Schema(r)
        /\ next'[r] <= Len(req[r].fixtures) + 1
    BY <1>f, <2>2, PrefixEmpty
  <2>4. Schema(r)' = Schema(r)
    BY <2>2 DEF Schema
  <2>5. DataOf(r)'
    BY <1>9, <2>1, <2>2, <2>3, <2>4 DEF SnapshotFails, DataOf, Holds, Removing
  <2> QED
    BY <1>9, <1>t, <1>i, <2>5, RequestStep DEF SnapshotFails, Goto
<1>10. ASSUME NEW r \in Request, ApplyFixture(r) PROVE DataInv'
  <2>1. /\ pc[r] = "fixtures" /\ Owns(r) /\ next[r] <= Len(req[r].fixtures)
        /\ content' = [content EXCEPT ![name[r]].applied = Append(@, req[r].fixtures[next[r]])]
        /\ name[r] \in Fresh /\ name[r] \in DB
    BY <1>10, <1>t, <1>o DEF ApplyFixture, applyInTx, Owns
  <2>2. /\ content[name[r]].applied = Schema(r) \o SubSeq(req[r].fixtures, 1, next[r] - 1)
        /\ content[name[r]].writers = {}
        /\ content[name[r]] \in Content
    BY <1>t, <1>i, <2>1 DEF DataOf
  <2>3. Append(Schema(r) \o SubSeq(req[r].fixtures, 1, next[r] - 1), req[r].fixtures[next[r]])
          = Schema(r) \o SubSeq(req[r].fixtures, 1, next[r])
    <3>1. next[r] \in Nat \ {0} /\ Schema(r) \in Seq(File) /\ req[r].fixtures \in Seq(File)
      BY <1>f, <1>t
    <3> QED
      BY <3>1, <2>1, ConcatStep, Zenon
  <2>4. /\ content'[name[r]].applied = Schema(r) \o SubSeq(req[r].fixtures, 1, next[r])
        /\ content'[name[r]].writers = {}
        /\ \A d \in DB : d # name[r] => content'[d] = content[d]
    BY <1>t, <2>1, <2>2, <2>3 DEF Content
  <2>5. /\ next'[r] = next[r] + 1 /\ next'[r] - 1 = next[r]
        /\ pc' = pc /\ req' = req /\ name' = name /\ exists' = exists
    BY <1>10, <1>t DEF ApplyFixture
  <2>6. next'[r] <= Len(req[r].fixtures) + 1
    BY <1>f, <1>t, <2>1, <2>5
  <2>7. Schema(r)' = Schema(r)
    BY <2>5 DEF Schema
  <2>8. DataOf(r)'
    BY <2>1, <2>4, <2>5, <2>6, <2>7 DEF DataOf, Holds, Removing
  <2>9. \A q \in Request \ {r} : Owns(q) => content'[name[q]] = content[name[q]]
    BY <1>t, <1>o, <2>1, <2>4
  <2>10. \A d \in DB \ Fresh : content'[d] = content[d] /\ (d \in exists' => d \in exists)
    BY <2>1, <2>4, <2>5
  <2> QED
    BY <1>10, <1>t, <1>i, <2>8, <2>9, <2>10, RequestStep DEF ApplyFixture
<1>11. ASSUME NEW r \in Request, Answer(r) PROVE DataInv'
  <2>1. next[r] = Len(req[r].fixtures) + 1 /\ pc[r] = "fixtures"
    BY <1>11, <1>t, <1>f, <1>i DEF Answer, DataOf
  <2>2. SubSeq(req[r].fixtures, 1, next[r] - 1) = req[r].fixtures
    BY <1>t, <1>f, <2>1, PrefixWhole
  <2>3. content[name[r]].applied = Want(r) /\ content[name[r]].writers = {}
    BY <1>i, <2>1, <2>2 DEF DataOf, Want
  <2>4. /\ pc'[r] = "answer" /\ Want(r)' = Want(r)
        /\ content' = content /\ name' = name
    BY <1>11, <1>t DEF Answer, Goto, Want, Schema
  <2>5. DataOf(r)'
    BY <2>3, <2>4 DEF DataOf, Holds
  <2> QED
    BY <1>11, <1>t, <1>i, <2>5, RequestStep DEF Answer, Goto
<1>12. ASSUME NEW r \in Request, CreateRefused(r) PROVE DataInv'
  <2>1. DataOf(r)'
    BY <1>12, <1>t, <1>i DEF CreateRefused, Goto, DataOf, Holds, Creating, Removing, Schema, Want
  <2> QED
    BY <1>12, <1>t, <1>o, <1>i, <2>1, RequestStep DEF CreateRefused, Goto
<1>13. ASSUME NEW r \in Request, TerminateBackends(r) PROVE DataInv'
  <2>1. DataOf(r)'
    BY <1>13, <1>t, <1>i DEF TerminateBackends, Goto, DataOf, Holds, Creating, Removing, Schema, Want
  <2> QED
    BY <1>13, <1>t, <1>o, <1>i, <2>1, RequestStep DEF TerminateBackends, Goto
<1>14. ASSUME NEW r \in Request, DropDatabase(r) PROVE DataInv'
  <2>1. DataOf(r)'
    BY <1>14, <1>t, <1>i DEF DropDatabase, Goto, DataOf, Holds, Creating, Removing, Schema, Want
  <2> QED
    BY <1>14, <1>t, <1>o, <1>i, <2>1, RequestStep DEF DropDatabase, Goto
<1>15. ASSUME NEW r \in Request, DropRefused(r) PROVE DataInv'
  <2>1. DataOf(r)'
    BY <1>15, <1>t, <1>i DEF DropRefused, Goto, DataOf, Holds, Creating, Removing, Schema, Want
  <2> QED
    BY <1>15, <1>t, <1>o, <1>i, <2>1, RequestStep DEF DropRefused, Goto
<1>16. ASSUME NEW r \in Request, Deliver(r) PROVE DataInv'
  <2>1. DataOf(r)'
    BY <1>16, <1>t, <1>i, ZenonT(60) DEF Deliver, Goto, DataOf, Holds, Creating, Removing, Schema, Want
  <2> QED
    BY <1>16, <1>t, <1>o, <1>i, <2>1, RequestStep DEF Deliver, Goto
<1>17. ASSUME NEW r \in Request, Connect(r) PROVE DataInv'
  <2>1. DataOf(r)'
    BY <1>17, <1>t, <1>i DEF Connect, Goto, DataOf, Holds, Creating, Removing, Schema, Want
  <2> QED
    BY <1>17, <1>t, <1>o, <1>i, <2>1, RequestStep DEF Connect, Goto
<1>18. ASSUME NEW r \in Request, Write(r) PROVE DataInv'
  <2>1. /\ Owns(r) /\ Holds(r) /\ name[r] \in Fresh /\ content[name[r]] \in Content
        /\ pc[r] \notin {"migrate", "fixtures", "answer"}
    BY <1>18, <1>t, <1>o DEF Write, Holds, Removing
  <2>2. /\ content'[name[r]].applied = content[name[r]].applied
        /\ content'[name[r]].writers = content[name[r]].writers \cup {r}
        /\ \A d \in DB : d # name[r] => content'[d] = content[d]
    BY <1>18, <1>t, <2>1 DEF Write, Content
  <2>3. pc' = pc /\ name' = name /\ Want(r)' = Want(r)
    BY <1>18 DEF Write, Want, Schema
  <2>4. DataOf(r)'
    BY <1>i, <2>1, <2>2, <2>3 DEF DataOf, Holds
  <2>5. \A q \in Request \ {r} : Owns(q) => content'[name[q]] = content[name[q]]
    BY <1>t, <1>o, <2>1, <2>2
  <2>6. \A d \in DB \ Fresh : content'[d] = content[d]
    BY <2>1, <2>2
  <2>7. UNCHANGED <<exists, pc, req, name, next, boot, bootNext>>
    BY <1>18 DEF Write
  <2> QED
    BY <1>i, <2>4, <2>5, <2>6, <2>7, RequestStep
<1>19. ASSUME NEW r \in Request, RemoveBegin(r) PROVE DataInv'
  <2>1. DataOf(r)'
    BY <1>19, <1>t, <1>i DEF RemoveBegin, Goto, DataOf, Holds, Creating, Removing, Schema, Want
  <2> QED
    BY <1>19, <1>t, <1>o, <1>i, <2>1, RequestStep DEF RemoveBegin, Goto
<1>20. ASSUME NEW r \in Request, CreateFails(r) PROVE DataInv'
  <2>1. DataOf(r)'
    BY <1>20, <1>t, <1>i DEF CreateFails, Goto, DataOf, Holds, Creating, Removing, Schema, Want
  <2> QED
    BY <1>20, <1>t, <1>o, <1>i, <2>1, RequestStep DEF CreateFails, Goto
<1>21. ASSUME NEW r \in Request, RemoveFails(r) PROVE DataInv'
  <2>1. DataOf(r)'
    BY <1>21, <1>t, <1>i DEF RemoveFails, Goto, DataOf, Holds, Creating, Removing, Schema, Want
  <2> QED
    BY <1>21, <1>t, <1>o, <1>i, <2>1, RequestStep DEF RemoveFails, Goto
(* A step of Start that touches only the maintenance database. *)
<1>b. ASSUME UNCHANGED <<exists, pc, req, name, next>>,
             \A d \in DB : d # Maintenance => content'[d] = content[d],
             MaintenanceData'
      PROVE  DataInv'
  <2>1. ASSUME NEW r \in Request PROVE DataOf(r)'
    <3>1. Owns(r) => content'[name[r]] = content[name[r]]
      BY <1>b, <1>t, <1>o, NamesApart
    <3> QED
      BY <1>b, <1>i, <3>1, OthersData
  <2>2. TemplateData'
    BY <1>b, <1>i, Names, NamesApart DEF TemplateData
  <2> QED
    BY <1>b, <2>1, <2>2 DEF DataInv
<1>l. /\ Len(BootMigrations) \in Nat /\ Len(BootFixtures) \in Nat
      /\ BootMigrations \o BootFixtures \in Seq(File)
  BY ListAssumption
<1>22. CASE BootMigrate
  <2>1. /\ content[Maintenance].applied = SubSeq(BootMigrations, 1, bootNext - 1)
        /\ content[Maintenance].writers = {} /\ content[Maintenance] \in Content
        /\ bootNext <= Len(BootMigrations) /\ boot = "migrate"
    BY <1>22, <1>t, <1>i, Names DEF BootMigrate, MaintenanceData
  <2>2. Append(SubSeq(BootMigrations, 1, bootNext - 1), BootMigrations[bootNext])
          = SubSeq(BootMigrations, 1, bootNext)
    BY <1>t, <2>1, ListAssumption, PrefixStep
  <2>3. /\ content'[Maintenance].applied = SubSeq(BootMigrations, 1, bootNext)
        /\ content'[Maintenance].writers = {}
        /\ \A d \in DB : d # Maintenance => content'[d] = content[d]
    BY <1>22, <1>t, <2>1, <2>2, Names DEF BootMigrate, applyInTx, Content
  <2>4. /\ bootNext \in 0..Len(BootMigrations)
        /\ bootNext' = bootNext + 1 /\ bootNext' - 1 = bootNext /\ boot' = boot
        /\ bootNext' <= Len(BootMigrations) + 1
    BY <1>22, <1>t, <1>l, <2>1 DEF BootMigrate
  <2>5. /\ bootNext \in 0..Len(BootMigrations \o BootFixtures)
        /\ SubSeq(BootMigrations, 1, bootNext) = SubSeq(BootMigrations \o BootFixtures, 1, bootNext)
    BY <2>4, ListAssumption, PrefixOfConcat
  <2>6. MaintenanceData'
    BY <2>1, <2>3, <2>4, <2>5 DEF MaintenanceData
  <2> QED
    BY <1>22, <1>b, <2>3, <2>6 DEF BootMigrate
<1>23. CASE BootMigrated
  <2>1. bootNext = Len(BootMigrations) + 1 /\ boot = "migrate"
    BY <1>23, <1>t, <1>i, <1>l DEF BootMigrated, MaintenanceData
  <2>2. SubSeq(BootMigrations, 1, bootNext - 1) = BootMigrations
    BY <1>t, <2>1, ListAssumption, PrefixWhole
  <2>3. boot' \in {"running", "snapshot"} /\ content' = content
    BY <1>23 DEF BootMigrated
  <2>4. MaintenanceData'
    BY <1>i, <2>1, <2>2, <2>3 DEF MaintenanceData
  <2> QED
    BY <1>23, <1>b, <2>4 DEF BootMigrated
<1>r. SubSeq(BootFixtures, 1, 0) = <<>> /\ BootMigrations \o <<>> = BootMigrations
  BY ListAssumption, PrefixEmpty
<1>24. CASE BootSnapshot
  <2>1. /\ content' = [content EXCEPT ![DefaultTemplate] = content[Maintenance]]
        /\ exists' = exists \cup {DefaultTemplate}
        /\ boot = "snapshot" /\ boot' = "fixtures" /\ bootNext' = 1 /\ bootNext' - 1 = 0
        /\ UNCHANGED <<pc, req, name, next>>
    BY <1>24 DEF BootSnapshot, createDatabaseWithTemplate
  <2>2. /\ content'[DefaultTemplate] = content[Maintenance]
        /\ \A d \in DB : d # DefaultTemplate => content'[d] = content[d]
    BY <1>t, <2>1, Names
  <2>3. ASSUME NEW r \in Request PROVE DataOf(r)'
    <3>1. Owns(r) => content'[name[r]] = content[name[r]]
      BY <1>t, <1>o, <2>2, NamesApart
    <3> QED
      BY <1>i, <2>1, <3>1, OthersData
  <2>4. TemplateData'
    BY <1>i, <2>1, <2>2, Names, NamesApart DEF TemplateData, MaintenanceData
  <2>5. content'[Maintenance] = content[Maintenance]
    BY <2>2, Names, NamesApart
  <2>6. MaintenanceData'
    BY <1>i, <1>l, <1>r, <2>1, <2>5 DEF MaintenanceData
  <2> QED
    BY <2>3, <2>4, <2>6 DEF DataInv
<1>25. CASE BootSnapshotFails
  <2>1. /\ boot = "snapshot" /\ boot' = "fixtures" /\ bootNext' = 1 /\ bootNext' - 1 = 0
        /\ content' = content
    BY <1>25 DEF BootSnapshotFails
  <2>2. MaintenanceData'
    BY <1>i, <1>l, <1>r, <2>1 DEF MaintenanceData
  <2> QED
    BY <1>25, <1>b, <2>2 DEF BootSnapshotFails
<1>26. CASE BootFixture
  <2>1. /\ content[Maintenance].applied = BootMigrations \o SubSeq(BootFixtures, 1, bootNext - 1)
        /\ content[Maintenance].writers = {} /\ content[Maintenance] \in Content
        /\ bootNext <= Len(BootFixtures) /\ boot = "fixtures"
    BY <1>26, <1>t, <1>i, Names DEF BootFixture, MaintenanceData
  <2>2. Append(BootMigrations \o SubSeq(BootFixtures, 1, bootNext - 1), BootFixtures[bootNext])
          = BootMigrations \o SubSeq(BootFixtures, 1, bootNext)
    <3>1. BootMigrations \in Seq(File) /\ BootFixtures \in Seq(File) /\ bootNext \in Nat \ {0}
      BY <1>t, ListAssumption
    <3> QED
      BY <3>1, <2>1, ConcatStep, Zenon
  <2>3. /\ content'[Maintenance].applied = BootMigrations \o SubSeq(BootFixtures, 1, bootNext)
        /\ content'[Maintenance].writers = {}
        /\ \A d \in DB : d # Maintenance => content'[d] = content[d]
    BY <1>26, <1>t, <2>1, <2>2, Names DEF BootFixture, applyInTx, Content
  <2>4. /\ bootNext \in 0..Len(BootFixtures)
        /\ bootNext' = bootNext + 1 /\ bootNext' - 1 = bootNext /\ boot' = boot
        /\ bootNext' <= Len(BootFixtures) + 1
    BY <1>26, <1>t, <1>l, <2>1 DEF BootFixture
  <2>5. /\ Len(BootMigrations) + bootNext \in 0..Len(BootMigrations \o BootFixtures)
        /\ BootMigrations \o SubSeq(BootFixtures, 1, bootNext)
             = SubSeq(BootMigrations \o BootFixtures, 1, Len(BootMigrations) + bootNext)
    BY <2>4, ListAssumption, PrefixOfConcat
  <2>6. MaintenanceData'
    BY <2>1, <2>3, <2>4, <2>5 DEF MaintenanceData
  <2> QED
    BY <1>26, <1>b, <2>3, <2>6 DEF BootFixture
<1>27. CASE BootDone
  <2>1. MaintenanceData'
    BY <1>27, <1>i DEF BootDone, MaintenanceData
  <2> QED
    BY <1>27, <1>b, <2>1 DEF BootDone
<1>28. CASE BootFails
  <2>1. MaintenanceData'
    BY <1>28, <1>i DEF BootFails, MaintenanceData
  <2> QED
    BY <1>28, <1>b, <2>1 DEF BootFails
<1>29. CASE UNCHANGED vars
  BY <1>29 DEF vars, DataInv, TemplateData, MaintenanceData, DataOf, Holds, Schema, Want
<1> QED
  BY <1>1, <1>2, <1>3, <1>4, <1>5, <1>6, <1>7, <1>8, <1>9, <1>10, <1>11, <1>12,
     <1>13, <1>14, <1>15, <1>16, <1>17, <1>18, <1>19, <1>20, <1>21, <1>22, <1>23,
     <1>24, <1>25, <1>26, <1>27, <1>28, <1>29
  DEF Next, Create, removePostgresDB, Test, Fault, Start

(* The three facts the theorems below share. *)
LEMMA Invariants == Spec => [](TypeOK /\ OwnInv /\ DataInv)
<1>1. TypeOK /\ OwnInv /\ [Next]_vars => OwnInv'
  BY OwnInvPreserved
<1>2. TypeOK /\ OwnInv /\ DataInv /\ [Next]_vars => DataInv'
  BY DataInvPreserved
<1> QED
  BY <1>1, <1>2, OwnInvInitially, DataInvInitially, TypeCorrect, PTL DEF Spec

(* Every database that CreateDB returned exists, holds exactly the schema  *)
(* and the fixtures asked for and the writes of its own test, until its    *)
(* RemoveDB drops it.                                                      *)
THEOREM DatabasesAsRequested == Spec => []HeldAsRequested
<1>1. OwnInv /\ DataInv => HeldAsRequested
  BY DEF OwnInv, DataInv, DataOf, HeldAsRequested, Holds, Owns
<1> QED
  BY <1>1, Invariants, PTL

(* Every template in the cache holds all of its migrations and nothing     *)
(* else, whatever failed or ran concurrently while it was built.           *)
THEOREM TemplatesAreComplete == Spec => []TemplatesComplete
<1>1. TypeOK /\ DataInv => TemplatesComplete
  <2> SUFFICES ASSUME TypeOK, DataInv PROVE TemplatesComplete
    OBVIOUS
  <2>1. \A d \in DB : content[d] \in [applied : Seq(File), writers : SUBSET Request]
    BY DEF TypeOK, Content
  <2> QED
    BY <2>1, Names DEF DataInv, TemplateData, TemplatesComplete
<1> QED
  BY <1>1, Invariants, PTL

(* No request ever changes the default database of the server: it holds a  *)
(* prefix of the files Start applies.                                      *)
THEOREM MaintenanceIsStarts == Spec => []MaintenanceOnlyFromStart
<1>1. TypeOK /\ DataInv => MaintenanceOnlyFromStart
  <2> SUFFICES ASSUME TypeOK, DataInv PROVE MaintenanceOnlyFromStart
    OBVIOUS
  <2>1. content[Maintenance] \in [applied : Seq(File), writers : SUBSET Request]
    BY Names DEF TypeOK, Content
  <2> QED
    BY <2>1 DEF DataInv, MaintenanceData, MaintenanceOnlyFromStart
<1> QED
  BY <1>1, Invariants, PTL

-----------------------------------------------------------------------------
(* The promise.  Each step is, for the request that takes it, a step of    *)
(* TestDatabases or nothing, and for every other request nothing.  What a  *)
(* request sees changes only with its own pc and with the database it      *)
(* holds, while its schema and fixtures stay what it asked for.            *)
SameView(q) ==
    StatusOf(q)' = StatusOf(q) /\ WantOf(q)' = WantOf(q) /\ GrantedOf(q)' = GrantedOf(q)

HasDB == {"held"} \cup Removing

LEMMA ViewBefore ==
    ASSUME NEW r \in Request
    PROVE  /\ pc[r] = "idle" => StatusOf(r) = "idle"
           /\ pc[r] \in Creating \cup {"answer"} => StatusOf(r) = "pending"
           /\ pc[r] \in HasDB => StatusOf(r) = "held" /\ GrantedOf(r) = content[name[r]]
           /\ pc[r] \in {"failed", "lost"} => StatusOf(r) = "refused"
           /\ pc[r] = "removed" => StatusOf(r) = "removed"
           /\ pc[r] \in PC \ HasDB => GrantedOf(r) = Blank
           /\ pc[r] # "idle" => WantOf(r) = Want(r)
BY DEF StatusOf, GrantedOf, WantOf, HasDB, Creating, Removing, PC

LEMMA ViewAfter ==
    ASSUME NEW r \in Request
    PROVE  /\ pc'[r] \in Creating \cup {"answer"} => StatusOf(r)' = "pending"
           /\ pc'[r] \in HasDB => StatusOf(r)' = "held" /\ GrantedOf(r)' = content'[name'[r]]
           /\ pc'[r] \in {"failed", "lost"} => StatusOf(r)' = "refused"
           /\ pc'[r] = "removed" => StatusOf(r)' = "removed"
           /\ pc'[r] \in PC \ HasDB => GrantedOf(r)' = Blank
           /\ pc'[r] # "idle" => WantOf(r)' = Want(r)'
BY DEF StatusOf, GrantedOf, WantOf, HasDB, Creating, Removing, PC, Blank

LEMMA WantKept ==
    ASSUME NEW r \in Request, req'[r] = req[r], pc[r] # "idle", pc'[r] # "idle"
    PROVE  WantOf(r)' = WantOf(r)
BY DEF WantOf, Want, Schema

(* A request nothing happens to, and one that goes on without being told.  *)
LEMMA ViewKept ==
    ASSUME NEW q \in Request, pc'[q] = pc[q], req'[q] = req[q], name'[q] = name[q],
           pc[q] \in HasDB => content'[name[q]] = content[name[q]]
    PROVE  SameView(q)
BY DEF SameView, StatusOf, GrantedOf, WantOf, Want, Schema, HasDB

LEMMA ViewKind ==
    ASSUME NEW r \in Request, req'[r] = req[r],
           \/ pc[r] \in Creating \cup {"answer"} /\ pc'[r] \in Creating \cup {"answer"}
           \/ /\ pc[r] \in HasDB /\ pc'[r] \in HasDB
              /\ name'[r] = name[r] /\ content'[name[r]] = content[name[r]]
    PROVE  SameView(r)
<1>1. pc[r] # "idle" /\ pc'[r] # "idle"
  BY DEF Creating, HasDB, Removing
<1>2. CASE pc[r] \in Creating \cup {"answer"} /\ pc'[r] \in Creating \cup {"answer"}
  <2>1. pc[r] \in PC \ HasDB /\ pc'[r] \in PC \ HasDB
    BY <1>2 DEF PC, HasDB, Creating, Removing
  <2> QED
    BY <1>1, <1>2, <2>1, ViewBefore, ViewAfter, WantKept DEF SameView
<1>3. CASE /\ pc[r] \in HasDB /\ pc'[r] \in HasDB
           /\ name'[r] = name[r] /\ content'[name[r]] = content[name[r]]
  BY <1>1, <1>3, ViewBefore, ViewAfter, WantKept DEF SameView
<1> QED
  BY <1>2, <1>3

LEMMA PromiseStutters ==
    ASSUME \A q \in Request : SameView(q)
    PROVE  UNCHANGED Promise!vars
BY DEF Promise!vars, SameView

(* The five steps of TestDatabases, taken by r while nobody else's view    *)
(* changes.                                                                *)
LEMMA PromiseAsk ==
    ASSUME NEW r \in Request, \A q \in Request \ {r} : SameView(q),
           StatusOf(r) = "idle", StatusOf(r)' = "pending",
           WantOf(r)' \in Seq(File), GrantedOf(r)' = GrantedOf(r)
    PROVE  Promise!Next
<1>1. Promise!Ask(r)
  BY DEF Promise!Ask, SameView
<1> QED
  BY <1>1 DEF Promise!Next

LEMMA PromiseGrant ==
    ASSUME NEW r \in Request, \A q \in Request \ {r} : SameView(q),
           StatusOf(r) = "pending", StatusOf(r)' = "held", WantOf(r)' = WantOf(r),
           GrantedOf(r)' = [applied |-> WantOf(r), writers |-> {}]
    PROVE  Promise!Next
<1>1. Promise!Grant(r)
  BY DEF Promise!Grant, SameView
<1> QED
  BY <1>1 DEF Promise!Next

LEMMA PromiseRefuse ==
    ASSUME NEW r \in Request, \A q \in Request \ {r} : SameView(q),
           StatusOf(r) = "pending", StatusOf(r)' = "refused", WantOf(r)' = WantOf(r),
           GrantedOf(r)' = GrantedOf(r)
    PROVE  Promise!Next
<1>1. Promise!Refuse(r)
  BY DEF Promise!Refuse, SameView
<1> QED
  BY <1>1 DEF Promise!Next

LEMMA PromiseWrite ==
    ASSUME NEW r \in Request, \A q \in Request \ {r} : SameView(q),
           StatusOf(r) = "held", StatusOf(r)' = "held", WantOf(r)' = WantOf(r),
           GrantedOf(r)' = [GrantedOf(r) EXCEPT !.writers = @ \cup {r}]
    PROVE  Promise!Next
<1>1. Promise!Write(r)
  BY DEF Promise!Write, SameView
<1> QED
  BY <1>1 DEF Promise!Next

LEMMA PromiseRemove ==
    ASSUME NEW r \in Request, \A q \in Request \ {r} : SameView(q),
           StatusOf(r) = "held", StatusOf(r)' = "removed", WantOf(r)' = WantOf(r),
           GrantedOf(r)' = Blank
    PROVE  Promise!Next
<1>1. Promise!Remove(r)
  BY DEF Promise!Remove, Promise!Blank, Blank, SameView
<1> QED
  BY <1>1 DEF Promise!Next

(* Each step is one of these, or changes nobody's view. *)
LEMMA PromiseStep ==
    ASSUME TypeOK, OwnInv, DataInv, [Next]_vars
    PROVE  [Promise!Next]_(Promise!vars)
<1>t. /\ content \in [DB -> Content] /\ name \in [Request -> DB]
      /\ pc \in [Request -> PC] /\ req \in [Request -> CreateDBRequest]
  BY DEF TypeOK
<1>h. \A r \in Request : pc[r] \in HasDB => Owns(r) /\ pc[r] # "idle"
  BY DEF HasDB, Owns, Removing
<1>o. /\ \A r \in Request : pc[r] \in HasDB => name[r] \in exists /\ name[r] \in Fresh
      /\ \A r, q \in Request : r # q /\ Owns(r) /\ pc[q] \in HasDB => name[q] # name[r]
      /\ \A r \in attached : r \in Request /\ pc[r] \in HasDB
  BY <1>h DEF OwnInv, NoSharing, TypeOK, HasDB
<1>1. ASSUME NEW r \in Request, Begin(r) PROVE Promise!Next
  <2>1. \A q \in Request \ {r} : SameView(q)
    BY <1>1, <1>t, ViewKept DEF Begin, Goto
  <2>2. pc[r] = "idle" /\ pc'[r] = "create" /\ req'[r] \in CreateDBRequest
    BY <1>1, <1>t DEF Begin, Goto
  <2>3. StatusOf(r) = "idle" /\ GrantedOf(r) = Blank
    BY <1>t, <2>2, ViewBefore DEF PC, HasDB, Removing
  <2>4. StatusOf(r)' = "pending" /\ GrantedOf(r)' = Blank
    BY <2>2, ViewAfter DEF Creating, PC, HasDB, Removing
  <2>5. WantOf(r)' \in Seq(File)
    <3>1. req'[r].migrations \in Seq(File) /\ req'[r].fixtures \in Seq(File)
      BY <2>2, ListAssumption DEF CreateDBRequest
    <3>2. Schema(r)' \in Seq(File)
      BY <3>1, ListAssumption DEF Schema
    <3> QED
      BY <2>2, <3>1, <3>2 DEF WantOf, Want
  <2> QED
    BY <2>1, <2>3, <2>4, <2>5, PromiseAsk
<1>2. ASSUME NEW r \in Request, CreateFromDefault(r) PROVE UNCHANGED Promise!vars
  <2>1. /\ name[r] \notin exists /\ pc[r] \in Creating /\ pc'[r] \in Creating
        /\ \A d \in DB : d # name[r] => content'[d] = content[d]
        /\ name' = name /\ req' = req /\ \A q \in Request \ {r} : pc'[q] = pc[q]
    BY <1>2, <1>t DEF CreateFromDefault, createDatabaseWithTemplate, Goto, Creating
  <2>2. \A q \in Request \ {r} : SameView(q)
    BY <1>t, <1>o, <2>1, ViewKept
  <2>3. SameView(r)
    BY <2>1, ViewKind
  <2> QED
    BY <2>2, <2>3, PromiseStutters
<1>3. ASSUME NEW r \in Request, CreateEmpty(r) PROVE UNCHANGED Promise!vars
  <2>1. /\ name[r] \notin exists /\ pc[r] \in Creating /\ pc'[r] \in Creating
        /\ \A d \in DB : d # name[r] => content'[d] = content[d]
        /\ name' = name /\ req' = req /\ \A q \in Request \ {r} : pc'[q] = pc[q]
    BY <1>3, <1>t DEF CreateEmpty, createDatabase, Goto, Creating
  <2>2. \A q \in Request \ {r} : SameView(q)
    BY <1>t, <1>o, <2>1, ViewKept
  <2>3. SameView(r)
    BY <2>1, ViewKind
  <2> QED
    BY <2>2, <2>3, PromiseStutters
<1>4. ASSUME NEW r \in Request, CreateFromTemplate(r) PROVE UNCHANGED Promise!vars
  <2>1. /\ name[r] \notin exists /\ pc[r] \in Creating /\ pc'[r] \in Creating
        /\ \A d \in DB : d # name[r] => content'[d] = content[d]
        /\ name' = name /\ req' = req /\ \A q \in Request \ {r} : pc'[q] = pc[q]
    BY <1>4, <1>t DEF CreateFromTemplate, createDatabaseWithTemplate, Goto, Creating
  <2>2. \A q \in Request \ {r} : SameView(q)
    BY <1>t, <1>o, <2>1, ViewKept
  <2>3. SameView(r)
    BY <2>1, ViewKind
  <2> QED
    BY <2>2, <2>3, PromiseStutters
<1>5. ASSUME NEW r \in Request, TemplateMissing(r) PROVE UNCHANGED Promise!vars
  <2>1. \A q \in Request \ {r} : SameView(q)
    BY <1>5, <1>t, ViewKept DEF TemplateMissing, Goto
  <2>2. SameView(r)
    BY <1>5, <1>t, ViewKind DEF TemplateMissing, Goto, Creating, Removing
  <2> QED
    BY <2>1, <2>2, PromiseStutters
<1>6. ASSUME NEW r \in Request, CreateToMigrate(r) PROVE UNCHANGED Promise!vars
  <2>1. /\ name[r] \notin exists /\ pc[r] \in Creating /\ pc'[r] \in Creating
        /\ \A d \in DB : d # name[r] => content'[d] = content[d]
        /\ name' = name /\ req' = req /\ \A q \in Request \ {r} : pc'[q] = pc[q]
    BY <1>6, <1>t DEF CreateToMigrate, createDatabase, Goto, Creating
  <2>2. \A q \in Request \ {r} : SameView(q)
    BY <1>t, <1>o, <2>1, ViewKept
  <2>3. SameView(r)
    BY <2>1, ViewKind
  <2> QED
    BY <2>2, <2>3, PromiseStutters
<1>7. ASSUME NEW r \in Request, ApplyMigration(r) PROVE UNCHANGED Promise!vars
  <2>1. /\ Owns(r) /\ pc[r] \in Creating /\ pc' = pc /\ name' = name /\ req' = req
        /\ \A d \in DB : d # name[r] => content'[d] = content[d]
    BY <1>7, <1>t DEF ApplyMigration, applyInTx, Creating, Owns
  <2>2. \A q \in Request \ {r} : SameView(q)
    BY <1>t, <1>o, <2>1, ViewKept
  <2>3. SameView(r)
    BY <2>1, ViewKind
  <2> QED
    BY <2>2, <2>3, PromiseStutters
(* The template is not a database of a request. *)
<1>8. ASSUME NEW r \in Request, Snapshot(r) PROVE UNCHANGED Promise!vars
  <2>1. req[r].migrations \in MigrationLists
    BY <1>t DEF CreateDBRequest
  <2>2. /\ templateName(req[r].migrations) \notin exists
        /\ \A d \in DB : d # templateName(req[r].migrations) => content'[d] = content[d]
        /\ pc[r] \in Creating /\ pc'[r] \in Creating
        /\ name' = name /\ req' = req /\ \A q \in Request \ {r} : pc'[q] = pc[q]
    BY <1>8, <1>t, <2>1, Names DEF Snapshot, createDatabaseWithTemplate, Goto, Creating
  <2>3. \A q \in Request \ {r} : SameView(q)
    BY <1>t, <1>o, <2>2, ViewKept
  <2>4. SameView(r)
    BY <2>2, ViewKind
  <2> QED
    BY <2>3, <2>4, PromiseStutters
<1>9. ASSUME NEW r \in Request, SnapshotFails(r) PROVE UNCHANGED Promise!vars
  <2>1. \A q \in Request \ {r} : SameView(q)
    BY <1>9, <1>t, ViewKept DEF SnapshotFails, Goto
  <2>2. SameView(r)
    BY <1>9, <1>t, ViewKind DEF SnapshotFails, Goto, Creating, Removing
  <2> QED
    BY <2>1, <2>2, PromiseStutters
<1>10. ASSUME NEW r \in Request, ApplyFixture(r) PROVE UNCHANGED Promise!vars
  <2>1. /\ Owns(r) /\ pc[r] \in Creating /\ pc' = pc /\ name' = name /\ req' = req
        /\ \A d \in DB : d # name[r] => content'[d] = content[d]
    BY <1>10, <1>t DEF ApplyFixture, applyInTx, Creating, Owns
  <2>2. \A q \in Request \ {r} : SameView(q)
    BY <1>t, <1>o, <2>1, ViewKept
  <2>3. SameView(r)
    BY <2>1, ViewKind
  <2> QED
    BY <2>2, <2>3, PromiseStutters
<1>11. ASSUME NEW r \in Request, Answer(r) PROVE UNCHANGED Promise!vars
  <2>1. \A q \in Request \ {r} : SameView(q)
    BY <1>11, <1>t, ViewKept DEF Answer, Goto
  <2>2. SameView(r)
    BY <1>11, <1>t, ViewKind DEF Answer, Goto, Creating, Removing
  <2> QED
    BY <2>1, <2>2, PromiseStutters
<1>12. ASSUME NEW r \in Request, CreateRefused(r) PROVE Promise!Next
  <2>1. \A q \in Request \ {r} : SameView(q)
    BY <1>12, <1>t, ViewKept DEF CreateRefused, Goto
  <2>2. /\ pc[r] \in Creating /\ pc'[r] = "failed" /\ req' = req
    BY <1>12, <1>t DEF CreateRefused, Goto, Creating
  <2>3. StatusOf(r) = "pending" /\ GrantedOf(r) = Blank
    BY <1>t, <2>2, ViewBefore DEF Creating, HasDB, Removing
  <2>4. StatusOf(r)' = "refused" /\ GrantedOf(r)' = Blank /\ WantOf(r)' = WantOf(r)
    BY <2>2, ViewAfter, WantKept DEF Creating, PC, HasDB, Removing
  <2> QED
    BY <2>1, <2>3, <2>4, PromiseRefuse
<1>13. ASSUME NEW r \in Request, TerminateBackends(r) PROVE UNCHANGED Promise!vars
  <2>1. \A q \in Request \ {r} : SameView(q)
    BY <1>13, <1>t, ViewKept DEF TerminateBackends, Goto
  <2>2. SameView(r)
    BY <1>13, <1>t, ViewKind DEF TerminateBackends, Goto, HasDB, Removing
  <2> QED
    BY <2>1, <2>2, PromiseStutters
<1>14. ASSUME NEW r \in Request, DropDatabase(r) PROVE Promise!Next
  <2>1. \A q \in Request \ {r} : SameView(q)
    BY <1>14, <1>t, ViewKept DEF DropDatabase, Goto
  <2>2. pc[r] \in HasDB /\ pc[r] # "idle" /\ pc'[r] = "removed" /\ req' = req
    BY <1>14, <1>t DEF DropDatabase, Goto, HasDB, Removing
  <2>3. StatusOf(r) = "held"
    BY <2>2, ViewBefore
  <2>4. StatusOf(r)' = "removed" /\ GrantedOf(r)' = Blank /\ WantOf(r)' = WantOf(r)
    BY <2>2, ViewAfter, WantKept DEF PC, HasDB, Removing
  <2> QED
    BY <2>1, <2>3, <2>4, PromiseRemove
<1>15. ASSUME NEW r \in Request, DropRefused(r) PROVE UNCHANGED Promise!vars
  <2>1. \A q \in Request \ {r} : SameView(q)
    BY <1>15, <1>t, ViewKept DEF DropRefused, Goto
  <2>2. SameView(r)
    BY <1>15, <1>t, ViewKind DEF DropRefused, Goto, HasDB, Removing
  <2> QED
    BY <2>1, <2>2, PromiseStutters
(* When the response arrives the database holds what was asked for, and no *)
(* test has written to it.                                                 *)
<1>16. ASSUME NEW r \in Request, Deliver(r) PROVE Promise!Next
  <2>1. \A q \in Request \ {r} : SameView(q)
    BY <1>16, <1>t, ViewKept DEF Deliver, Goto
  <2>2. /\ pc[r] = "answer" /\ pc'[r] \in {"held", "lost"} /\ req' = req
        /\ name' = name /\ content' = content
    BY <1>16, <1>t DEF Deliver, Goto
  <2>3. StatusOf(r) = "pending" /\ GrantedOf(r) = Blank /\ WantOf(r) = Want(r)
    BY <1>t, <2>2, ViewBefore DEF HasDB, Removing
  <2>4. WantOf(r)' = WantOf(r)
    BY <2>2, WantKept
  <2>5. CASE pc'[r] = "held"
    <3>1. content[name[r]] \in [applied : Seq(File), writers : SUBSET Request]
      BY <1>t DEF Content
    <3>2. content[name[r]].applied = Want(r) /\ content[name[r]].writers = {}
      BY <2>2 DEF DataInv, DataOf, Holds
    <3>3. content[name[r]] = [applied |-> Want(r), writers |-> {}]
      BY <3>1, <3>2
    <3>4. StatusOf(r)' = "held" /\ GrantedOf(r)' = content[name[r]]
      BY <2>2, <2>5, ViewAfter DEF HasDB
    <3> QED
      BY <2>1, <2>3, <2>4, <3>3, <3>4, PromiseGrant
  <2>6. CASE pc'[r] = "lost"
    <3>1. StatusOf(r)' = "refused" /\ GrantedOf(r)' = Blank
      BY <2>6, ViewAfter DEF PC, HasDB, Removing
    <3> QED
      BY <2>1, <2>3, <2>4, <3>1, PromiseRefuse
  <2> QED
    BY <2>2, <2>5, <2>6
<1>17. ASSUME NEW r \in Request, Connect(r) PROVE UNCHANGED Promise!vars
  <2>1. \A q \in Request : SameView(q)
    BY <1>17, ViewKept DEF Connect
  <2> QED
    BY <2>1, PromiseStutters
<1>18. ASSUME NEW r \in Request, Write(r) PROVE Promise!Next
  <2>1. /\ pc[r] \in HasDB /\ Owns(r) /\ pc[r] # "idle"
        /\ content'[name[r]] = [content[name[r]] EXCEPT !.writers = @ \cup {r}]
        /\ \A d \in DB : d # name[r] => content'[d] = content[d]
        /\ pc' = pc /\ name' = name /\ req' = req
    BY <1>18, <1>t, <1>o, <1>h DEF Write
  <2>2. \A q \in Request \ {r} : SameView(q)
    BY <1>t, <1>o, <2>1, ViewKept
  <2>3. StatusOf(r) = "held" /\ GrantedOf(r) = content[name[r]]
    BY <2>1, ViewBefore
  <2>4. StatusOf(r)' = "held" /\ GrantedOf(r)' = content'[name[r]] /\ WantOf(r)' = WantOf(r)
    BY <2>1, ViewAfter, WantKept
  <2> QED
    BY <2>1, <2>2, <2>3, <2>4, PromiseWrite
<1>19. ASSUME NEW r \in Request, RemoveBegin(r) PROVE UNCHANGED Promise!vars
  <2>1. \A q \in Request \ {r} : SameView(q)
    BY <1>19, <1>t, ViewKept DEF RemoveBegin, Goto
  <2>2. SameView(r)
    BY <1>19, <1>t, ViewKind DEF RemoveBegin, Goto, HasDB, Removing
  <2> QED
    BY <2>1, <2>2, PromiseStutters
<1>20. ASSUME NEW r \in Request, CreateFails(r) PROVE Promise!Next
  <2>1. \A q \in Request \ {r} : SameView(q)
    BY <1>20, <1>t, ViewKept DEF CreateFails, Goto
  <2>2. /\ pc[r] \in Creating /\ pc'[r] = "failed" /\ req' = req
    BY <1>20, <1>t DEF CreateFails, Goto, Creating
  <2>3. StatusOf(r) = "pending" /\ GrantedOf(r) = Blank
    BY <1>t, <2>2, ViewBefore DEF Creating, HasDB, Removing
  <2>4. StatusOf(r)' = "refused" /\ GrantedOf(r)' = Blank /\ WantOf(r)' = WantOf(r)
    BY <2>2, ViewAfter, WantKept DEF Creating, PC, HasDB, Removing
  <2> QED
    BY <2>1, <2>3, <2>4, PromiseRefuse
<1>21. ASSUME NEW r \in Request, RemoveFails(r) PROVE UNCHANGED Promise!vars
  <2>1. \A q \in Request \ {r} : SameView(q)
    BY <1>21, <1>t, ViewKept DEF RemoveFails, Goto
  <2>2. SameView(r)
    BY <1>21, <1>t, ViewKind DEF RemoveFails, Goto, HasDB, Removing
  <2> QED
    BY <2>1, <2>2, PromiseStutters
(* Start works on databases no request has. *)
<1>22. CASE BootMigrate
  <2>1. \A q \in Request : SameView(q)
    BY <1>22, <1>t, <1>o, <1>h, NamesApart, Names, ViewKept DEF BootMigrate, applyInTx, createDatabaseWithTemplate
  <2> QED
    BY <2>1, PromiseStutters
<1>23. CASE BootMigrated
  <2>1. \A q \in Request : SameView(q)
    BY <1>23, ViewKept DEF BootMigrated
  <2> QED
    BY <2>1, PromiseStutters
<1>24. CASE BootSnapshot
  <2>1. \A q \in Request : SameView(q)
    BY <1>24, <1>t, <1>o, <1>h, NamesApart, Names, ViewKept DEF BootSnapshot, applyInTx, createDatabaseWithTemplate
  <2> QED
    BY <2>1, PromiseStutters
<1>25. CASE BootSnapshotFails
  <2>1. \A q \in Request : SameView(q)
    BY <1>25, ViewKept DEF BootSnapshotFails
  <2> QED
    BY <2>1, PromiseStutters
<1>26. CASE BootFixture
  <2>1. \A q \in Request : SameView(q)
    BY <1>26, <1>t, <1>o, <1>h, NamesApart, Names, ViewKept DEF BootFixture, applyInTx, createDatabaseWithTemplate
  <2> QED
    BY <2>1, PromiseStutters
<1>27. CASE BootDone
  <2>1. \A q \in Request : SameView(q)
    BY <1>27, ViewKept DEF BootDone
  <2> QED
    BY <2>1, PromiseStutters
<1>28. CASE BootFails
  <2>1. \A q \in Request : SameView(q)
    BY <1>28, ViewKept DEF BootFails
  <2> QED
    BY <2>1, PromiseStutters
<1>29. CASE UNCHANGED vars
  <2>1. \A q \in Request : SameView(q)
    BY <1>29, ViewKept DEF vars
  <2> QED
    BY <2>1, PromiseStutters
<1> QED
  BY <1>1, <1>2, <1>3, <1>4, <1>5, <1>6, <1>7, <1>8, <1>9, <1>10, <1>11, <1>12,
     <1>13, <1>14, <1>15, <1>16, <1>17, <1>18, <1>19, <1>20, <1>21, <1>22, <1>23,
     <1>24, <1>25, <1>26, <1>27, <1>28, <1>29
  DEF Next, Create, removePostgresDB, Test, Fault, Start

(* Postgres keeps the promise of database.Admin: through templates that    *)
(* requests share, failures, colliding time stamps and sessions that come  *)
(* back, every request sees a private database with what it asked for,     *)
(* from the answer to its own RemoveDB.                                    *)
THEOREM KeepsPromise == Spec => ImplementsPromise
<1>1. Init => Promise!Init
  <2> SUFFICES ASSUME Init PROVE Promise!Init
    OBVIOUS
  <2>1. \A r \in Request : pc[r] = "idle"
    BY DEF Init
  <2>2. \A r \in Request : StatusOf(r) = "idle" /\ WantOf(r) = <<>> /\ GrantedOf(r) = Promise!Blank
    BY <2>1, ViewBefore DEF WantOf, PC, HasDB, Removing, Blank, Promise!Blank
  <2> QED
    BY <2>2 DEF Promise!Init
<1>2. TypeOK /\ OwnInv /\ DataInv /\ [Next]_vars => [Promise!Next]_(Promise!vars)
  BY PromiseStep
<1> QED
  BY <1>1, <1>2, Invariants, PTL DEF Spec, ImplementsPromise, Promise!Spec
=============================================================================
