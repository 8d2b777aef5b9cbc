----------------------------- MODULE RedisAdmin -----------------------------
(***************************************************************************)
(* The redis side of dbctl: redis has numbered databases instead of named  *)
(* ones, so CreateDB claims the first index nobody claimed and RemoveDB    *)
(* gives it back.  The claims are keys of index 0, which is never handed   *)
(* out.  Claiming and releasing are Lua scripts, hence atomic; the fixture *)
(* commands in between are not.                                            *)
(*                                                                         *)
(* The redis server is external and modelled from how the code uses it: a  *)
(* script runs as one step and is not undone when a command of it fails.   *)
(***************************************************************************)
EXTENDS Naturals, Sequences

CONSTANTS
    Request,                \* the requests made of the server
    File,                   \* the fixture commands (one line, or one lua script)
    FixtureLists,           \* the command lists the requests upload
    Databases,              \* how many databases the server has
    Reports,                \* what CONFIG GET databases may say, 0 for nothing usable
    DefaultDatabaseCount,   \* assumed when it says nothing
    MaxRemovals,            \* how often a test may call RemoveDB for one uri
    BootIndex,              \* the --db of dbctl start rs
    BootFixtures            \* the fixture commands given to dbctl start rs

ASSUME CountAssumption ==
    /\ Databases \in Nat /\ Databases >= 2
    /\ Reports \subseteq Nat /\ Reports # {}
    /\ DefaultDatabaseCount \in Nat /\ DefaultDatabaseCount >= 2
    /\ MaxRemovals \in Nat
    /\ BootIndex \in 0..(Databases - 1)

ASSUME ListAssumption ==
    /\ FixtureLists \subseteq Seq(File)
    /\ <<>> \in FixtureLists            \* a request need not upload anything
    /\ BootFixtures \in Seq(File)

VARIABLES
    claimed,                \* the indexes with a key in index 0
    content,                \* content[i], what database i holds, the claims aside
    pc,                     \* pc[r], where request r is
    fixtures,               \* fixtures[r], what r uploads
    index,                  \* index[r], the database claimed for r, 0 before that
    next,                   \* next[r], the next command to run
    removals,               \* removals[r], how often RemoveDB was called
    bootNext,               \* the next command Start runs
    reported                \* what CONFIG GET databases says on this server

vars == <<claimed, content, pc, fixtures, index, next, removals, bootNext, reported>>

-----------------------------------------------------------------------------
(* databaseCount: CONFIG may be renamed or disabled. *)
databaseCount == IF reported < 2 THEN DefaultDatabaseCount ELSE reported

Index == 0..(Databases - 1)
Claimable == 1..(databaseCount - 1)

(* What a database holds: the commands run on it, in order, and the tests  *)
(* that wrote to it since.                                                 *)
Content == [applied : Seq(File), writers : SUBSET Request]
Blank == [applied |-> <<>>, writers |-> {}]

Creating == {"acquire", "fixtures"}
Released == {"removed", "uncertain"}
PC == {"idle", "instance", "answer", "held", "failed", "refused", "lost"}
          \cup Creating \cup Released

TypeOK ==
    /\ claimed \subseteq Claimable
    /\ content \in [Index -> Content]
    /\ pc \in [Request -> PC]
    /\ fixtures \in [Request -> FixtureLists]
    /\ index \in [Request -> Index]
    /\ next \in [Request -> Nat \ {0}]
    /\ removals \in [Request -> 0..MaxRemovals]
    /\ bootNext \in Nat \ {0}
    /\ reported \in Reports

Goto(r, l) == pc' = [pc EXCEPT ![r] = l]

-----------------------------------------------------------------------------
(* CreateDB *)

Begin(r) ==
    /\ pc[r] = "idle"
    /\ Goto(r, "acquire")
    /\ \E f \in FixtureLists : fixtures' = [fixtures EXCEPT ![r] = f]
    /\ UNCHANGED <<claimed, content, index, next, removals, bootNext, reported>>

(* Mutant: the loop starts at index 0. *)
FirstFreeFromZero(i) == i \in (Claimable \cup {0}) \ claimed /\ \A j \in 0..(i - 1) : j \in claimed

(* The index for which SETNX is the first to succeed. *)
FirstFree(i) == i \in Claimable \ claimed /\ \A j \in 1..(i - 1) : j \in claimed

(* Mutant: the index is looked up first and claimed by a later command. *)
acquireDBIndexUnclaimed(r) ==
    /\ pc[r] = "acquire"
    /\ \E i \in Index :
        /\ FirstFree(i)
        /\ content' = [content EXCEPT ![i] = Blank]
        /\ index' = [index EXCEPT ![r] = i]
    /\ next' = [next EXCEPT ![r] = 1]
    /\ Goto(r, "fixtures")
    /\ UNCHANGED <<claimed, fixtures, removals, bootNext, reported>>

acquireDBIndex(r) ==
    /\ pc[r] = "acquire"
    /\ \E i \in Index :
        /\ FirstFree(i)
        /\ claimed' = claimed \cup {i}
        /\ content' = [content EXCEPT ![i] = Blank]
        /\ index' = [index EXCEPT ![r] = i]
    /\ next' = [next EXCEPT ![r] = 1]
    /\ Goto(r, "fixtures")
    /\ UNCHANGED <<fixtures, removals, bootNext, reported>>

(* The assumed count is larger than the server's: SELECT fails after SETNX *)
(* succeeded, and the script is not undone.                                *)
AcquireOutOfRange(r) ==
    /\ pc[r] = "acquire"
    /\ \E i \in Claimable \ Index : FirstFree(i) /\ claimed' = claimed \cup {i}
    /\ Goto(r, "failed")
    /\ UNCHANGED <<content, fixtures, index, next, removals, bootNext, reported>>

(* Mutant: the caller waits for an index. *)
NoIndexWaits(r) ==
    /\ pc[r] = "acquire"
    /\ Claimable = {}
    /\ Goto(r, "refused")
    /\ UNCHANGED <<claimed, content, fixtures, index, next, removals, bootNext, reported>>

NoIndexLeft(r) ==
    /\ pc[r] = "acquire"
    /\ Claimable \subseteq claimed
    /\ Goto(r, "refused")
    /\ UNCHANGED <<claimed, content, fixtures, index, next, removals, bootNext, reported>>

(* Mutant: the fixtures go to the database the instance points at. *)
applyFixturesToInstance(r) ==
    /\ pc[r] = "fixtures"
    /\ next[r] <= Len(fixtures[r])
    /\ content' = [content EXCEPT ![BootIndex].applied = Append(@, fixtures[r][next[r]])]
    /\ next' = [next EXCEPT ![r] = @ + 1]
    /\ UNCHANGED <<claimed, pc, fixtures, index, removals, bootNext, reported>>

applyFixtures(r) ==
    /\ pc[r] = "fixtures"
    /\ next[r] <= Len(fixtures[r])
    /\ content' = [content EXCEPT ![index[r]].applied = Append(@, fixtures[r][next[r]])]
    /\ next' = [next EXCEPT ![r] = @ + 1]
    /\ UNCHANGED <<claimed, pc, fixtures, index, removals, bootNext, reported>>

Answer(r) ==
    /\ pc[r] = "fixtures"
    /\ next[r] > Len(fixtures[r])
    /\ Goto(r, "answer")
    /\ UNCHANGED <<claimed, content, fixtures, index, next, removals, bootNext, reported>>

(* A connection, a file or a command fails: the error is returned and the  *)
(* claim stays.                                                            *)
CreateFails(r) ==
    /\ pc[r] \in Creating
    /\ Goto(r, "failed")
    /\ UNCHANGED <<claimed, content, fixtures, index, next, removals, bootNext, reported>>

-----------------------------------------------------------------------------
(* The test that made the request *)

(* The response reaches the client, or the client is gone. *)
Deliver(r) ==
    /\ pc[r] = "answer"
    /\ \E l \in {"held", "lost"} : Goto(r, l)
    /\ UNCHANGED <<claimed, content, fixtures, index, next, removals, bootNext, reported>>

Write(r) ==
    /\ pc[r] = "held"
    /\ content' = [content EXCEPT ![index[r]].writers = @ \cup {r}]
    /\ UNCHANGED <<claimed, pc, fixtures, index, next, removals, bootNext, reported>>

-----------------------------------------------------------------------------
(* RemoveDB *)

(* Mutant: index 0 is flushed like any other. *)
releaseAny(i) ==
    /\ content' = [content EXCEPT ![i] = Blank]
    /\ claimed' = IF i = 0 THEN {} ELSE claimed \ {i}

(* Mutant: the key is not deleted. *)
releaseKeepsClaim(i) ==
    IF i = 0 THEN UNCHANGED <<content, claimed>>
    ELSE /\ content' = [content EXCEPT ![i] = Blank]
         /\ UNCHANGED claimed

(* The body of RemoveDB: index 0 is left alone, any other index is flushed *)
(* and its key deleted, whoever claimed it.                                *)
release(i) ==
    IF i = 0 THEN UNCHANGED <<content, claimed>>
    ELSE /\ content' = [content EXCEPT ![i] = Blank]
         /\ claimed' = claimed \ {i}

(* The test is told that it worked, or gets an error although it did (the  *)
(* connection broke after the script ran).  It may call RemoveDB again:    *)
(* a retry, or MustCreateDB's cleanup after a RemoveDB of the test itself. *)
RemoveDB(r) ==
    /\ pc[r] \in {"held"} \cup Released
    /\ removals[r] < MaxRemovals
    /\ release(index[r])
    /\ removals' = [removals EXCEPT ![r] = @ + 1]
    /\ \E l \in Released : Goto(r, l)
    /\ UNCHANGED <<fixtures, index, next, bootNext, reported>>

(* RemoveDB with the uri that dbctl start rs printed. *)
RemoveInstance(r) ==
    /\ pc[r] = "idle"
    /\ BootIndex = 0
    /\ release(BootIndex)
    /\ Goto(r, "instance")
    /\ UNCHANGED <<fixtures, index, next, removals, bootNext, reported>>

-----------------------------------------------------------------------------
(* Start applies its fixtures to its own index, which it does not claim. *)
BootFixture ==
    /\ bootNext <= Len(BootFixtures)
    /\ content' = [content EXCEPT ![BootIndex].applied = Append(@, BootFixtures[bootNext])]
    /\ bootNext' = bootNext + 1
    /\ UNCHANGED <<claimed, pc, fixtures, index, next, removals, reported>>

-----------------------------------------------------------------------------
Init ==
    /\ claimed = {}
    /\ content = [i \in Index |-> Blank]
    /\ pc = [r \in Request |-> "idle"]
    /\ fixtures = [r \in Request |-> <<>>]
    /\ index = [r \in Request |-> 0]
    /\ next = [r \in Request |-> 1]
    /\ removals = [r \in Request |-> 0]
    /\ bootNext = 1
    /\ reported \in Reports

(* The steps of the handler, those of the test, and what may go wrong. *)
Create(r) ==
    \/ acquireDBIndex(r)
    \/ AcquireOutOfRange(r)
    \/ NoIndexLeft(r)
    \/ applyFixtures(r)
    \/ Answer(r)

Test(r) ==
    \/ Begin(r)
    \/ Deliver(r)
    \/ Write(r)
    \/ RemoveDB(r)
    \/ RemoveInstance(r)

Next ==
    \/ \E r \in Request : Create(r) \/ Test(r) \/ CreateFails(r)
    \/ BootFixture

(* A handler that has a command to run runs it, and redis answers. *)
Fairness == \A r \in Request : WF_vars(Create(r))

Spec == Init /\ [][Next]_vars /\ Fairness

-----------------------------------------------------------------------------
(* Properties *)

Owns(r) == pc[r] \in {"fixtures", "answer", "held"}
Holds(r) == pc[r] \in {"answer", "held"}
Leaked(r) == pc[r] \in {"failed", "lost"} /\ index[r] # 0

(* Two tests never have the same index, however their creates, removals    *)
(* and failures interleave ("the claim has to be recorded to stop two      *)
(* callers from sharing one index", acquireDBIndex).                       *)
NoSharing ==
    \A r, q \in Request : r # q /\ Owns(r) /\ Owns(q) => index[r] # index[q]

(* The bookkeeping is exact: a key in index 0 stands for one request that  *)
(* owns the index or that failed after claiming it, and no owner is        *)
(* without its key.  So an index given back is free again.                 *)
ClaimsExact ==
    claimed \cap Index = {index[r] : r \in {q \in Request : Owns(q) \/ Leaked(q)}}

(* A database that CreateDB returned holds its fixtures, in order, and     *)
(* nothing an earlier owner of the index, another test or Start left in    *)
(* it, until its own RemoveDB.                                             *)
HeldAsRequested ==
    \A r \in Request : Holds(r) =>
        /\ content[index[r]].applied = fixtures[r]
        /\ content[index[r]].writers \subseteq {r}

(* The data dbctl start rs loaded stays in the database it printed the uri *)
(* of, whatever the tests create and remove ("loads data into the database *)
(* before your tests run", docs/getting-started/redis.md).  By default     *)
(* that is index 0, next to the keys, which is never handed out nor        *)
(* flushed.                                                                *)
StartDataKept ==
    content[BootIndex] =
        [applied |-> SubSeq(BootFixtures, 1, bootNext - 1), writers |-> {}]

(* Every CreateDB returns: a caller never waits for an index.              *)
CreateReturns == \A r \in Request : pc[r] \in Creating ~> pc[r] \notin Creating

(* What the caller of CreateDB and RemoveDB sees: TestDatabases.           *)
StatusOf(r) ==
    CASE pc[r] \in {"idle", "instance"} -> "idle"
      [] pc[r] \in Creating \cup {"answer"} -> "pending"
      [] pc[r] = "held" -> "held"
      [] pc[r] \in {"failed", "refused", "lost"} -> "refused"
      [] pc[r] \in Released -> "removed"

GrantedOf(r) == IF pc[r] = "held" THEN content[index[r]] ELSE Blank

Promise ==
    INSTANCE TestDatabases WITH
        status <- [r \in Request |-> StatusOf(r)],
        want <- fixtures,
        granted <- [r \in Request |-> GrantedOf(r)]

(* Every test sees its own private database, as with postgres.             *)
ImplementsPromise == Promise!Spec
=============================================================================
