------------------------------ MODULE MCPgAdmin ------------------------------
(* Small instances of PgAdmin for TLC. *)
EXTENDS PgAdmin, FiniteSets, TLC

(* Two up migrations, a down migration and a fixture file.  The second up *)
(* migration lives in a subdirectory.                                     *)
Up1 == [name |-> <<17, Dot, Sql>>, body |-> <<20>>]
Up2 == [name |-> <<18, Slash, 17, Dot, Sql>>, body |-> <<21>>]
Down1 == [name |-> <<17, Dot, Down, Dot, Sql>>, body |-> <<22>>]
Seed == [name |-> <<19, Dot, Sql>>, body |-> <<23>>]

MCFile == {Up1, Up2, Down1, Seed}
MCMigrationLists == {MigrationFiles(getFiles(d)) : d \in {{}, {Up2, Down1, Up1}}}
MCFixtureLists == {getFiles(d) : d \in {{}, {Seed}}}
MCShortLists == {MigrationFiles(getFiles(d)) : d \in {{}, {Up1, Down1}}}
MCBootMigrations == MigrationFiles(getFiles({Up1}))
MCBootFixtures == getFiles({Seed})
MCNone == <<>>

(* Requests and time stamps are interchangeable. *)
Symmetry == Permutations(Request) \cup Permutations(Stamp)
=============================================================================
