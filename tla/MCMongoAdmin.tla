---------------------------- MODULE MCMongoAdmin ----------------------------
(* Small instances of MongoAdmin for TLC: two projects with an instance    *)
(* each, m1 and m2.                                                        *)
EXTENDS MongoAdmin, TLC

CONSTANTS r1, r2, m1, m2

Script == [name |-> 1, ext |-> ".js"]
Data == [name |-> 2, ext |-> ".json"]
Readme == [name |-> 3, ext |-> "other"]
Seed == [name |-> 4, ext |-> ".json"]

MCFile == {Script, Data, Readme, Seed}
MCMigrationLists == {getFiles(d) : d \in {{}, {Data, Readme, Script}, {Data}}}
MCFixtureLists == {getFiles(d) : d \in {{}, {Seed}}}

MCHome == r1 :> m1 @@ r2 :> m2
MCBootFiles == m1 :> <<Seed>> @@ m2 :> <<>>

(* Time stamps are interchangeable. *)
Symmetry == Permutations(Stamp)
=============================================================================
