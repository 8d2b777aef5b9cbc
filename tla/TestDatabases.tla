---------------------------- MODULE TestDatabases ----------------------------
(***************************************************************************)
(* What database.Admin promises to a test: a request is either refused or  *)
(* granted one database that holds exactly the migrations and fixtures     *)
(* asked for, that only this test ever writes to, and that disappears only *)
(* when this test removes it.  No names, indexes, templates or servers     *)
(* appear here: each granted database is its own variable.                 *)
(*                                                                         *)
(* PgAdmin and RedisAdmin are shown to implement this specification.       *)
(***************************************************************************)
EXTENDS Naturals, Sequences

CONSTANTS Request,          \* the tests' requests
          File              \* the migration and fixture files

VARIABLES status,           \* status[r] of request r
          want,             \* want[r], the files r asked for, in order
          granted           \* granted[r], what r's database holds

vars == <<status, want, granted>>

Status == {"idle", "pending", "held", "refused", "removed"}

(* What a database holds: the files applied to it, in order, and the tests *)
(* that wrote to it since.                                                 *)
Content == [applied : Seq(File), writers : SUBSET Request]
Blank == [applied |-> <<>>, writers |-> {}]

TypeOK ==
    /\ status \in [Request -> Status]
    /\ want \in [Request -> Seq(File)]
    /\ granted \in [Request -> Content]

Init ==
    /\ status = [r \in Request |-> "idle"]
    /\ want = [r \in Request |-> <<>>]
    /\ granted = [r \in Request |-> Blank]

Ask(r) ==
    /\ status[r] = "idle"
    /\ status' = [status EXCEPT ![r] = "pending"]
    /\ want'[r] \in Seq(File)
    /\ want' = [want EXCEPT ![r] = want'[r]]
    /\ UNCHANGED granted

Grant(r) ==
    /\ status[r] = "pending"
    /\ status' = [status EXCEPT ![r] = "held"]
    /\ granted' = [granted EXCEPT ![r] = [applied |-> want[r], writers |-> {}]]
    /\ UNCHANGED want

Refuse(r) ==
    /\ status[r] = "pending"
    /\ status' = [status EXCEPT ![r] = "refused"]
    /\ UNCHANGED <<want, granted>>

Write(r) ==
    /\ status[r] = "held"
    /\ granted' = [granted EXCEPT ![r].writers = @ \cup {r}]
    /\ UNCHANGED <<status, want>>

Remove(r) ==
    /\ status[r] = "held"
    /\ status' = [status EXCEPT ![r] = "removed"]
    /\ granted' = [granted EXCEPT ![r] = Blank]
    /\ UNCHANGED want

Next == \E r \in Request : Ask(r) \/ Grant(r) \/ Refuse(r) \/ Write(r) \/ Remove(r)

Spec == Init /\ [][Next]_vars
=============================================================================
