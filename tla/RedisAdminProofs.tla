-------------------------- MODULE RedisAdminProofs --------------------------
(***************************************************************************)
(* Proofs about RedisAdmin for any set of requests, any number of          *)
(* databases and any fixtures.                                             *)
(***************************************************************************)
EXTENDS RedisAdmin, TLAPS

(* Every state of RedisAdmin is well typed. *)
THEOREM TypeCorrect == Spec => []TypeOK
<1>1. Init => TypeOK
  BY CountAssumption, ListAssumption
  DEF Init, TypeOK, Content, Blank, Index, PC, Creating, Released
<1>2. TypeOK /\ [Next]_vars => TypeOK'
  <2> SUFFICES ASSUME TypeOK, [Next]_vars PROVE TypeOK'
    OBVIOUS
  <2>0. reported' = reported
    BY DEF Next, vars, Create, Test, Begin, acquireDBIndex, AcquireOutOfRange, NoIndexLeft,
       applyFixtures, Answer, Deliver, Write, RemoveDB, RemoveInstance, CreateFails, BootFixture
  <2>a. Claimable' = Claimable
    BY <2>0 DEF Claimable, databaseCount
  <2> USE <2>0, <2>a, CountAssumption, ListAssumption DEF TypeOK, Goto
  <2>1. ASSUME NEW r \in Request, Begin(r) PROVE TypeOK'
    BY <2>1 DEF Begin, PC, Creating
  <2>2. ASSUME NEW r \in Request, acquireDBIndex(r) PROVE TypeOK'
    BY <2>2 DEF acquireDBIndex, FirstFree, Content, Blank, PC, Creating
  <2>3. ASSUME NEW r \in Request, AcquireOutOfRange(r) PROVE TypeOK'
    BY <2>3 DEF AcquireOutOfRange, FirstFree, PC
  <2>4. ASSUME NEW r \in Request, NoIndexLeft(r) PROVE TypeOK'
    BY <2>4 DEF NoIndexLeft, PC
  <2>5. ASSUME NEW r \in Request, applyFixtures(r) PROVE TypeOK'
    <3>1. fixtures[r] \in Seq(File) /\ fixtures[r][next[r]] \in File
      BY <2>5, SMTT(30) DEF applyFixtures
    <3>2. content[index[r]] \in Content
      OBVIOUS
    <3>3. Append(content[index[r]].applied, fixtures[r][next[r]]) \in Seq(File)
      BY <3>1, <3>2 DEF Content
    <3>4. content' \in [Index -> Content]
      BY <2>5, <3>2, <3>3 DEF applyFixtures, Content
    <3> QED
      BY <2>5, <3>4, SMTT(30) DEF applyFixtures
  <2>6. ASSUME NEW r \in Request, Answer(r) PROVE TypeOK'
    BY <2>6 DEF Answer, PC
  <2>7. ASSUME NEW r \in Request, Deliver(r) PROVE TypeOK'
    BY <2>7 DEF Deliver, PC
  <2>8. ASSUME NEW r \in Request, Write(r) PROVE TypeOK'
    BY <2>8 DEF Write, Content
  <2>9. ASSUME NEW r \in Request, RemoveDB(r) PROVE TypeOK'
    <3>0. Blank \in Content
      BY DEF Blank, Content
    <3>1. content' \in [Index -> Content] /\ claimed' \subseteq Claimable
      <4>1. CASE index[r] = 0
        BY <2>9, <4>1 DEF RemoveDB, release
      <4>2. CASE index[r] # 0
        BY <2>9, <3>0, <4>2 DEF RemoveDB, release
      <4> QED
        BY <4>1, <4>2
    <3>2. pc' \in [Request -> PC] /\ removals' \in [Request -> 0..MaxRemovals]
      BY <2>9 DEF RemoveDB, PC, Released
    <3> QED
      BY <2>9, <3>1, <3>2 DEF RemoveDB
  <2>10. ASSUME NEW r \in Request, RemoveInstance(r) PROVE TypeOK'
    BY <2>10 DEF RemoveInstance, release, Content, Blank, PC
  <2>11. ASSUME NEW r \in Request, CreateFails(r) PROVE TypeOK'
    BY <2>11 DEF CreateFails, PC
  <2>12. CASE BootFixture
    <3>1. BootFixtures[bootNext] \in File
      BY <2>12 DEF BootFixture
    <3>2. BootIndex \in Index /\ content[BootIndex] \in Content
      BY DEF Index
    <3>3. Append(content[BootIndex].applied, BootFixtures[bootNext]) \in Seq(File)
      BY <3>1, <3>2 DEF Content
    <3>4. content' \in [Index -> Content]
      BY <2>12, <3>2, <3>3 DEF BootFixture, Content
    <3> QED
      BY <2>12, <3>4, SMTT(30) DEF BootFixture
  <2>13. CASE UNCHANGED vars
    BY <2>13 DEF vars
  <2> QED
    BY <2>1, <2>2, <2>3, <2>4, <2>5, <2>6, <2>7, <2>8, <2>9, <2>10, <2>11, <2>12, <2>13
    DEF Next, Create, Test
<1> QED
  BY <1>1, <1>2, PTL DEF Spec
-----------------------------------------------------------------------------
(* The claims.  Each index with a key belongs to exactly one live request: *)
(* one that owns it, or that failed after claiming it.  RemoveDB does not  *)
(* check who claimed an index, so this needs that a uri is passed to       *)
(* RemoveDB at most once.                                                  *)
Live(r) == Owns(r) \/ Leaked(r)

ClaimInv ==
    /\ \A r \in Request : pc[r] \in Released <=> removals[r] # 0
    /\ \A r \in Request : pc[r] \in {"idle", "instance", "acquire", "refused"} => index[r] = 0
    /\ \A r \in Request : Owns(r) => index[r] # 0
    /\ \A r \in Request : Live(r) => index[r] \in claimed
    /\ \A i \in claimed \cap Index : \E r \in Request : Live(r) /\ index[r] = i
    /\ \A r, q \in Request : r # q /\ Live(r) /\ Live(q) => index[r] # index[q]

LEMMA ClaimInvInitially == Init => ClaimInv
BY DEF Init, ClaimInv, Live, Owns, Leaked, Released

LEMMA ClaimInvPreserved ==
    ASSUME MaxRemovals = 1, TypeOK, ClaimInv, [Next]_vars
    PROVE  ClaimInv'
<1> USE DEF TypeOK, ClaimInv, Goto, Live, Owns, Leaked, Released
<1>1. ASSUME NEW r \in Request, Begin(r) PROVE ClaimInv'
  BY <1>1 DEF Begin
<1>2. ASSUME NEW r \in Request, acquireDBIndex(r) PROVE ClaimInv'
  <2>1. PICK i \in Index :
          /\ FirstFree(i)
          /\ claimed' = claimed \cup {i}
          /\ index' = [index EXCEPT ![r] = i]
    BY <1>2 DEF acquireDBIndex
  <2>2. i \notin claimed /\ i # 0
    BY <2>1, CountAssumption DEF FirstFree, Claimable, databaseCount
  <2> QED
    BY <1>2, <2>1, <2>2 DEF acquireDBIndex
<1>3. ASSUME NEW r \in Request, AcquireOutOfRange(r) PROVE ClaimInv'
  BY <1>3 DEF AcquireOutOfRange
<1>4. ASSUME NEW r \in Request, NoIndexLeft(r) PROVE ClaimInv'
  BY <1>4 DEF NoIndexLeft
<1>5. ASSUME NEW r \in Request, applyFixtures(r) PROVE ClaimInv'
  BY <1>5 DEF applyFixtures
<1>6. ASSUME NEW r \in Request, Answer(r) PROVE ClaimInv'
  BY <1>6 DEF Answer
<1>7. ASSUME NEW r \in Request, Deliver(r) PROVE ClaimInv'
  BY <1>7 DEF Deliver
<1>8. ASSUME NEW r \in Request, Write(r) PROVE ClaimInv'
  BY <1>8 DEF Write
<1>9. ASSUME NEW r \in Request, RemoveDB(r) PROVE ClaimInv'
  <2>1. pc[r] = "held" /\ removals[r] = 0
    BY <1>9 DEF RemoveDB
  <2>2. claimed' = claimed \ {index[r]}
    BY <1>9, <2>1 DEF RemoveDB, release
  <2> QED
    BY <1>9, <2>1, <2>2 DEF RemoveDB
<1>10. ASSUME NEW r \in Request, RemoveInstance(r) PROVE ClaimInv'
  BY <1>10 DEF RemoveInstance, release
<1>11. ASSUME NEW r \in Request, CreateFails(r) PROVE ClaimInv'
  BY <1>11 DEF CreateFails, Creating
<1>12. CASE BootFixture
  BY <1>12 DEF BootFixture
<1>13. CASE UNCHANGED vars
  BY <1>13 DEF vars
<1> QED
  BY <1>1, <1>2, <1>3, <1>4, <1>5, <1>6, <1>7, <1>8, <1>9, <1>10, <1>11, <1>12, <1>13
  DEF Next, Create, Test

(* When each uri is passed to RemoveDB at most once, no two tests ever     *)
(* share an index: for any number of requests and databases, whatever      *)
(* CONFIG GET databases reports.                                           *)
THEOREM IndexesNotShared ==
    ASSUME MaxRemovals = 1
    PROVE  Spec => []NoSharing
<1>1. TypeOK /\ ClaimInv /\ [Next]_vars => ClaimInv'
  BY ClaimInvPreserved
<1>2. ClaimInv => NoSharing
  BY DEF ClaimInv, NoSharing, Live
<1> QED
  BY <1>1, <1>2, ClaimInvInitially, TypeCorrect, PTL DEF Spec

(* Under the same condition the keys in index 0 are exact: every index     *)
(* that is given back can be handed out again, and none is free while a    *)
(* test has it.                                                            *)
THEOREM ClaimsAreExact ==
    ASSUME MaxRemovals = 1
    PROVE  Spec => []ClaimsExact
<1>1. TypeOK /\ ClaimInv /\ [Next]_vars => ClaimInv'
  BY ClaimInvPreserved
<1>2. TypeOK /\ ClaimInv => ClaimsExact
  BY DEF TypeOK, ClaimInv, ClaimsExact, Live
<1> QED
  BY <1>1, <1>2, ClaimInvInitially, TypeCorrect, PTL DEF Spec

-----------------------------------------------------------------------------
(* The data.  While the fixtures are applied, the index holds those run so *)
(* far and nothing else; from then on only the test itself adds to it.     *)
DataOf(r) ==
    /\ pc[r] = "fixtures" =>
         /\ next[r] <= Len(fixtures[r]) + 1
         /\ content[index[r]].applied = SubSeq(fixtures[r], 1, next[r] - 1)
         /\ content[index[r]].writers = {}
    /\ Holds(r) =>
         /\ content[index[r]].applied = fixtures[r]
         /\ content[index[r]].writers \subseteq {r}
    /\ pc[r] = "answer" => content[index[r]].writers = {}

StartData ==
    /\ bootNext <= Len(BootFixtures) + 1
    /\ content[0].applied = SubSeq(BootFixtures, 1, bootNext - 1)
    /\ content[0].writers = {}

DataInv == StartData /\ \A r \in Request : DataOf(r)

(* Nothing has been run, one more command has been run, all have been run. *)
LEMMA PrefixEmpty ==
    ASSUME NEW S, NEW s \in Seq(S)
    PROVE  SubSeq(s, 1, 0) = <<>>
OBVIOUS

LEMMA PrefixStep ==
    ASSUME NEW S, NEW s \in Seq(S), NEW k \in Nat \ {0}, k <= Len(s)
    PROVE  Append(SubSeq(s, 1, k - 1), s[k]) = SubSeq(s, 1, k)
OBVIOUS

LEMMA PrefixWhole ==
    ASSUME NEW S, NEW s \in Seq(S), NEW k \in Nat \ {0}, k = Len(s) + 1
    PROVE  SubSeq(s, 1, k - 1) = s
OBVIOUS

(* A step that leaves alone a request and the database it owns. *)
LEMMA OthersData ==
    ASSUME NEW q \in Request, DataOf(q),
           pc'[q] = pc[q], fixtures'[q] = fixtures[q],
           index'[q] = index[q], next'[q] = next[q],
           Owns(q) => content'[index[q]] = content[index[q]]
    PROVE  DataOf(q)'
BY DEF DataOf, Holds, Owns

LEMMA DataInvInitially == Init => DataInv
<1> SUFFICES ASSUME Init PROVE DataInv
  OBVIOUS
<1>1. content[0] = Blank
  BY CountAssumption DEF Init, Index
<1>2. SubSeq(BootFixtures, 1, 0) = <<>>
  BY ListAssumption, PrefixEmpty
<1>3. bootNext = 1 /\ bootNext - 1 = 0 /\ Len(BootFixtures) \in Nat
  BY ListAssumption DEF Init
<1>4. StartData
  BY <1>1, <1>2, <1>3 DEF StartData, Blank
<1> QED
  BY <1>4 DEF Init, DataInv, DataOf, Holds

LEMMA DataInvPreserved ==
    ASSUME BootIndex = 0, MaxRemovals = 1, TypeOK, ClaimInv, DataInv, [Next]_vars
    PROVE  DataInv'
<1>t. /\ content \in [Index -> Content] /\ index \in [Request -> Index]
      /\ pc \in [Request -> PC] /\ next \in [Request -> Nat \ {0}]
      /\ fixtures \in [Request -> FixtureLists] /\ bootNext \in Nat \ {0}
      /\ 0 \in Index
  BY CountAssumption DEF TypeOK, Index
<1>f. \A r \in Request : fixtures[r] \in Seq(File)
  BY <1>t, ListAssumption
<1>i. StartData /\ \A r \in Request : DataOf(r)
  BY DEF DataInv
(* No index of an owner is index 0, free, or the index of another owner. *)
<1>d. /\ \A r \in Request : Owns(r) => index[r] # 0 /\ index[r] \in claimed
      /\ \A r, q \in Request : r # q /\ Owns(r) /\ Owns(q) => index[r] # index[q]
  BY DEF ClaimInv, Live
<1>1. ASSUME NEW r \in Request, Begin(r) PROVE DataInv'
  <2>1. \A q \in Request : q # r => DataOf(q)'
    BY <1>1, <1>t, <1>i, OthersData DEF Begin, Goto
  <2>2. DataOf(r)' /\ StartData'
    BY <1>1, <1>t, <1>i DEF Begin, Goto, DataOf, Holds, StartData
  <2> QED
    BY <2>1, <2>2 DEF DataInv
<1>2. ASSUME NEW r \in Request, acquireDBIndex(r) PROVE DataInv'
  <2>1. PICK i \in Index :
          /\ FirstFree(i)
          /\ content' = [content EXCEPT ![i] = Blank]
          /\ index' = [index EXCEPT ![r] = i]
    BY <1>2 DEF acquireDBIndex
  <2>2. i \notin claimed /\ i # 0
    BY <2>1, CountAssumption DEF FirstFree, Claimable, databaseCount
  <2>3. content'[i] = Blank /\ \A j \in Index : j # i => content'[j] = content[j]
    BY <2>1, <1>t
  <2>4. \A q \in Request : q # r => DataOf(q)'
    BY <1>2, <1>t, <1>i, <1>d, <2>1, <2>2, <2>3, OthersData DEF acquireDBIndex, Goto
  <2>5. SubSeq(fixtures[r], 1, 0) = <<>> /\ Len(fixtures[r]) \in Nat
    BY <1>f, PrefixEmpty
  <2>6. /\ pc'[r] = "fixtures" /\ index'[r] = i
        /\ next'[r] = 1 /\ next'[r] - 1 = 0 /\ fixtures' = fixtures
    BY <1>2, <1>t, <2>1 DEF acquireDBIndex, Goto
  <2>7. DataOf(r)'
    <3>1. content'[i].applied = <<>> /\ content'[i].writers = {}
      BY <2>3 DEF Blank
    <3>2. SubSeq(fixtures[r], 1, next'[r] - 1) = <<>> /\ next'[r] <= Len(fixtures[r]) + 1
      BY <2>5, <2>6
    <3> QED
      BY <2>6, <3>1, <3>2 DEF DataOf, Holds
  <2>8. StartData'
    BY <1>2, <1>t, <1>i, <2>2, <2>3 DEF acquireDBIndex, StartData
  <2> QED
    BY <2>4, <2>7, <2>8 DEF DataInv
<1>3. ASSUME NEW r \in Request, AcquireOutOfRange(r) PROVE DataInv'
  <2>1. \A q \in Request : q # r => DataOf(q)'
    BY <1>3, <1>t, <1>i, OthersData DEF AcquireOutOfRange, Goto
  <2>2. DataOf(r)' /\ StartData'
    BY <1>3, <1>t, <1>i DEF AcquireOutOfRange, Goto, DataOf, Holds, StartData
  <2> QED
    BY <2>1, <2>2 DEF DataInv
<1>4. ASSUME NEW r \in Request, NoIndexLeft(r) PROVE DataInv'
  <2>1. \A q \in Request : q # r => DataOf(q)'
    BY <1>4, <1>t, <1>i, OthersData DEF NoIndexLeft, Goto
  <2>2. DataOf(r)' /\ StartData'
    BY <1>4, <1>t, <1>i DEF NoIndexLeft, Goto, DataOf, Holds, StartData
  <2> QED
    BY <2>1, <2>2 DEF DataInv
<1>5. ASSUME NEW r \in Request, applyFixtures(r) PROVE DataInv'
  <2>1. next[r] <= Len(fixtures[r]) /\ pc[r] = "fixtures" /\ Owns(r)
    BY <1>5 DEF applyFixtures, Owns
  <2>2. /\ content[index[r]].applied = SubSeq(fixtures[r], 1, next[r] - 1)
        /\ content[index[r]].writers = {}
        /\ content[index[r]] \in Content
    BY <2>1, <1>i, <1>t DEF DataOf
  <2>3. Append(SubSeq(fixtures[r], 1, next[r] - 1), fixtures[r][next[r]])
          = SubSeq(fixtures[r], 1, next[r])
    BY <1>f, <1>t, <2>1, PrefixStep
  <2>4. /\ content'[index[r]].applied = SubSeq(fixtures[r], 1, next[r])
        /\ content'[index[r]].writers = {}
    BY <1>5, <1>t, <2>2, <2>3 DEF applyFixtures, Content
  <2>5. \A j \in Index : j # index[r] => content'[j] = content[j]
    BY <1>5, <1>t DEF applyFixtures
  <2>6. /\ next'[r] = next[r] + 1 /\ next'[r] - 1 = next[r]
        /\ fixtures' = fixtures /\ index' = index /\ pc' = pc
    BY <1>5, <1>t DEF applyFixtures
  <2>7. \A q \in Request : q # r => DataOf(q)'
    BY <1>5, <1>t, <1>i, <1>d, <2>1, <2>5, OthersData DEF applyFixtures
  <2>8. Len(fixtures[r]) \in Nat
    BY <1>f
  <2>9. DataOf(r)'
    BY <2>1, <2>4, <2>6, <2>8, <1>t DEF DataOf, Holds
  <2>10. StartData'
    BY <1>5, <1>t, <1>i, <1>d, <2>1, <2>5 DEF applyFixtures, StartData
  <2> QED
    BY <2>7, <2>9, <2>10 DEF DataInv
<1>6. ASSUME NEW r \in Request, Answer(r) PROVE DataInv'
  <2>1. next[r] > Len(fixtures[r]) /\ pc[r] = "fixtures" /\ Len(fixtures[r]) \in Nat
    BY <1>6, <1>f DEF Answer
  <2>2. next[r] <= Len(fixtures[r]) + 1
    BY <2>1, <1>i DEF DataOf
  <2>3. SubSeq(fixtures[r], 1, next[r] - 1) = fixtures[r]
    BY <2>1, <2>2, <1>t, <1>f, PrefixWhole
  <2>4. \A q \in Request : q # r => DataOf(q)'
    BY <1>6, <1>t, <1>i, OthersData DEF Answer, Goto
  <2>5. DataOf(r)' /\ StartData'
    BY <1>6, <1>t, <1>i, <2>1, <2>3 DEF Answer, Goto, DataOf, Holds, StartData
  <2> QED
    BY <2>4, <2>5 DEF DataInv
<1>7. ASSUME NEW r \in Request, Deliver(r) PROVE DataInv'
  <2>1. \A q \in Request : q # r => DataOf(q)'
    BY <1>7, <1>t, <1>i, OthersData DEF Deliver, Goto
  <2>2. DataOf(r)' /\ StartData'
    BY <1>7, <1>t, <1>i DEF Deliver, Goto, DataOf, Holds, StartData
  <2> QED
    BY <2>1, <2>2 DEF DataInv
<1>8. ASSUME NEW r \in Request, Write(r) PROVE DataInv'
  <2>1. Owns(r) /\ pc[r] = "held" /\ content[index[r]] \in Content
    BY <1>8, <1>t DEF Write, Owns
  <2>2. /\ content'[index[r]].applied = content[index[r]].applied
        /\ content'[index[r]].writers = content[index[r]].writers \cup {r}
        /\ \A j \in Index : j # index[r] => content'[j] = content[j]
    BY <1>8, <1>t, <2>1 DEF Write, Content
  <2>3. \A q \in Request : q # r => DataOf(q)'
    BY <1>8, <1>t, <1>i, <1>d, <2>1, <2>2, OthersData DEF Write
  <2>4. DataOf(r)'
    BY <1>8, <1>i, <2>1, <2>2 DEF Write, DataOf, Holds
  <2>5. StartData'
    BY <1>8, <1>t, <1>i, <1>d, <2>1, <2>2 DEF Write, StartData
  <2> QED
    BY <2>3, <2>4, <2>5 DEF DataInv
<1>9. ASSUME NEW r \in Request, RemoveDB(r) PROVE DataInv'
  <2>1. pc[r] = "held" /\ Owns(r)
    BY <1>9 DEF RemoveDB, ClaimInv, TypeOK, Owns, Released
  <2>2. \A j \in Index : j # index[r] => content'[j] = content[j]
    BY <1>9, <1>t DEF RemoveDB, release
  <2>3. \A q \in Request : q # r => DataOf(q)'
    BY <1>9, <1>t, <1>i, <1>d, <2>1, <2>2, OthersData DEF RemoveDB, Goto
  <2>4. DataOf(r)'
    BY <1>9, <1>t DEF RemoveDB, Released, Goto, DataOf, Holds
  <2>5. StartData'
    BY <1>9, <1>t, <1>i, <1>d, <2>1, <2>2 DEF RemoveDB, StartData
  <2> QED
    BY <2>3, <2>4, <2>5 DEF DataInv
<1>10. ASSUME NEW r \in Request, RemoveInstance(r) PROVE DataInv'
  <2>1. \A q \in Request : q # r => DataOf(q)'
    BY <1>10, <1>t, <1>i, OthersData DEF RemoveInstance, release, Goto
  <2>2. DataOf(r)' /\ StartData'
    BY <1>10, <1>t, <1>i DEF RemoveInstance, release, Goto, DataOf, Holds, StartData
  <2> QED
    BY <2>1, <2>2 DEF DataInv
<1>11. ASSUME NEW r \in Request, CreateFails(r) PROVE DataInv'
  <2>1. \A q \in Request : q # r => DataOf(q)'
    BY <1>11, <1>t, <1>i, OthersData DEF CreateFails, Goto
  <2>2. DataOf(r)' /\ StartData'
    BY <1>11, <1>t, <1>i DEF CreateFails, Goto, DataOf, Holds, StartData
  <2> QED
    BY <2>1, <2>2 DEF DataInv
<1>12. CASE BootFixture
  <2>1. Append(SubSeq(BootFixtures, 1, bootNext - 1), BootFixtures[bootNext])
          = SubSeq(BootFixtures, 1, bootNext)
    BY <1>12, <1>t, ListAssumption, PrefixStep DEF BootFixture
  <2>2. content[0] \in Content
    BY <1>t
  <2>3. /\ content'[0].applied = SubSeq(BootFixtures, 1, bootNext)
        /\ content'[0].writers = {}
    BY <1>12, <1>t, <1>i, <2>1, <2>2 DEF BootFixture, StartData, Content
  <2>4. \A j \in Index : j # 0 => content'[j] = content[j]
    BY <1>12, <1>t DEF BootFixture
  <2>5. \A q \in Request : DataOf(q)'
    BY <1>12, <1>t, <1>i, <1>d, <2>4, OthersData DEF BootFixture
  <2>6. Len(BootFixtures) \in Nat
    BY ListAssumption
  <2>7. StartData'
    BY <1>12, <1>t, <2>3, <2>6 DEF BootFixture, StartData
  <2> QED
    BY <2>5, <2>7 DEF DataInv
<1>13. CASE UNCHANGED vars
  BY <1>13 DEF vars, DataInv, StartData, DataOf, Holds
<1> QED
  BY <1>1, <1>2, <1>3, <1>4, <1>5, <1>6, <1>7, <1>8, <1>9, <1>10, <1>11, <1>12, <1>13
  DEF Next, Create, Test

(* With the default --db and each uri removed at most once, every database *)
(* that CreateDB returned holds exactly its fixtures and the writes of its *)
(* own test: for any requests, fixtures and number of databases.           *)
THEOREM DatabasesAsRequested ==
    ASSUME BootIndex = 0, MaxRemovals = 1
    PROVE  Spec => []HeldAsRequested
<1>1. TypeOK /\ ClaimInv /\ [Next]_vars => ClaimInv'
  BY ClaimInvPreserved
<1>2. TypeOK /\ ClaimInv /\ DataInv /\ [Next]_vars => DataInv'
  BY DataInvPreserved
<1>3. DataInv => HeldAsRequested
  BY DEF DataInv, DataOf, HeldAsRequested
<1> QED
  BY <1>1, <1>2, <1>3, ClaimInvInitially, DataInvInitially, TypeCorrect, PTL DEF Spec

(* Under the same conditions the data dbctl start rs loaded into index 0   *)
(* is never flushed or added to by a request.                              *)
THEOREM StartDataIsKept ==
    ASSUME BootIndex = 0, MaxRemovals = 1
    PROVE  Spec => []StartDataKept
<1>1. TypeOK /\ ClaimInv /\ [Next]_vars => ClaimInv'
  BY ClaimInvPreserved
<1>2. TypeOK /\ ClaimInv /\ DataInv /\ [Next]_vars => DataInv'
  BY DataInvPreserved
<1>3. TypeOK /\ DataInv => StartDataKept
  <2> SUFFICES ASSUME TypeOK, DataInv PROVE StartDataKept
    OBVIOUS
  <2>1. content[0] \in [applied : Seq(File), writers : SUBSET Request]
    BY CountAssumption DEF TypeOK, Index, Content
  <2> QED
    BY <2>1 DEF DataInv, StartData, StartDataKept
<1> QED
  BY <1>1, <1>2, <1>3, ClaimInvInitially, DataInvInitially, TypeCorrect, PTL DEF Spec

-----------------------------------------------------------------------------
(* The promise.  Under the same conditions each step is, for the test that *)
(* takes it, a step of TestDatabases or nothing, and for every other test  *)
(* nothing.  What a test sees changes only with its own pc and with the    *)
(* database it holds.                                                      *)
SameView(q) == StatusOf(q)' = StatusOf(q) /\ GrantedOf(q)' = GrantedOf(q)

LEMMA ViewKept ==
    ASSUME NEW q \in Request, pc'[q] = pc[q], index'[q] = index[q],
           pc[q] = "held" => content'[index[q]] = content[index[q]]
    PROVE  SameView(q)
BY DEF SameView, StatusOf, GrantedOf

LEMMA PromiseStutters ==
    ASSUME fixtures' = fixtures, \A q \in Request : SameView(q)
    PROVE  UNCHANGED Promise!vars
BY DEF Promise!vars, SameView

(* The five steps of TestDatabases, taken by r while nobody else's view    *)
(* changes.                                                                *)
LEMMA PromiseAsk ==
    ASSUME NEW r \in Request, \A q \in Request \ {r} : SameView(q),
           StatusOf(r) = "idle", StatusOf(r)' = "pending", GrantedOf(r)' = GrantedOf(r),
           NEW f \in Seq(File), fixtures' = [fixtures EXCEPT ![r] = f],
           fixtures \in [Request -> FixtureLists]
    PROVE  Promise!Next
<1>1. Promise!Ask(r)
  BY DEF Promise!Ask, SameView
<1> QED
  BY <1>1 DEF Promise!Next

LEMMA PromiseGrant ==
    ASSUME NEW r \in Request, \A q \in Request \ {r} : SameView(q),
           StatusOf(r) = "pending", StatusOf(r)' = "held", fixtures' = fixtures,
           GrantedOf(r)' = [applied |-> fixtures[r], writers |-> {}]
    PROVE  Promise!Next
<1>1. Promise!Grant(r)
  BY DEF Promise!Grant, SameView
<1> QED
  BY <1>1 DEF Promise!Next

LEMMA PromiseRefuse ==
    ASSUME NEW r \in Request, \A q \in Request \ {r} : SameView(q),
           StatusOf(r) = "pending", StatusOf(r)' = "refused", fixtures' = fixtures,
           GrantedOf(r)' = GrantedOf(r)
    PROVE  Promise!Next
<1>1. Promise!Refuse(r)
  BY DEF Promise!Refuse, SameView
<1> QED
  BY <1>1 DEF Promise!Next

LEMMA PromiseWrite ==
    ASSUME NEW r \in Request, \A q \in Request \ {r} : SameView(q),
           StatusOf(r) = "held", StatusOf(r)' = "held", fixtures' = fixtures,
           GrantedOf(r)' = [GrantedOf(r) EXCEPT !.writers = @ \cup {r}]
    PROVE  Promise!Next
<1>1. Promise!Write(r)
  BY DEF Promise!Write, SameView
<1> QED
  BY <1>1 DEF Promise!Next

LEMMA PromiseRemove ==
    ASSUME NEW r \in Request, \A q \in Request \ {r} : SameView(q),
           StatusOf(r) = "held", StatusOf(r)' = "removed", fixtures' = fixtures,
           GrantedOf(r)' = Blank
    PROVE  Promise!Next
<1>1. Promise!Remove(r)
  BY DEF Promise!Remove, Promise!Blank, Blank, SameView
<1> QED
  BY <1>1 DEF Promise!Next

(* Each step of a request is one of these, or changes nobody's view. *)
LEMMA PromiseStep ==
    ASSUME BootIndex = 0, MaxRemovals = 1, TypeOK, ClaimInv, DataInv, [Next]_vars
    PROVE  [Promise!Next]_(Promise!vars)
<1>t. /\ content \in [Index -> Content] /\ index \in [Request -> Index]
      /\ pc \in [Request -> PC] /\ fixtures \in [Request -> FixtureLists]
      /\ 0 \in Index
  BY CountAssumption DEF TypeOK, Index
<1>d. /\ \A r \in Request : Owns(r) => index[r] # 0 /\ index[r] \in claimed
      /\ \A r, q \in Request : r # q /\ Owns(r) /\ Owns(q) => index[r] # index[q]
  BY DEF ClaimInv, Live
<1>1. ASSUME NEW r \in Request, Begin(r) PROVE Promise!Next
  <2>1. \A q \in Request \ {r} : SameView(q)
    BY <1>1, <1>t, ViewKept DEF Begin, Goto
  <2>2. PICK f \in FixtureLists : fixtures' = [fixtures EXCEPT ![r] = f]
    BY <1>1 DEF Begin
  <2>3. f \in Seq(File)
    BY <2>2, ListAssumption
  <2>4. StatusOf(r) = "idle" /\ StatusOf(r)' = "pending" /\ GrantedOf(r)' = GrantedOf(r)
    BY <1>1, <1>t DEF Begin, Goto, StatusOf, GrantedOf, Creating, Released
  <2> QED
    BY <2>1, <2>2, <2>3, <2>4, <1>t, PromiseAsk
<1>2. ASSUME NEW r \in Request, acquireDBIndex(r) PROVE UNCHANGED Promise!vars
  <2>1. PICK i \in Index :
          /\ FirstFree(i)
          /\ content' = [content EXCEPT ![i] = Blank]
          /\ index' = [index EXCEPT ![r] = i]
    BY <1>2 DEF acquireDBIndex
  <2>2. i \notin claimed /\ \A j \in Index : j # i => content'[j] = content[j]
    BY <2>1, <1>t DEF FirstFree
  <2>3. \A q \in Request \ {r} : SameView(q)
    BY <1>2, <1>t, <1>d, <2>1, <2>2, ViewKept DEF acquireDBIndex, Goto, Owns
  <2>4. SameView(r)
    BY <1>2, <1>t DEF acquireDBIndex, Goto, SameView, StatusOf, GrantedOf, Creating, Released
  <2> QED
    BY <1>2, <2>3, <2>4, PromiseStutters DEF acquireDBIndex
<1>3. ASSUME NEW r \in Request, AcquireOutOfRange(r) PROVE Promise!Next
  <2>1. \A q \in Request \ {r} : SameView(q)
    BY <1>3, <1>t, ViewKept DEF AcquireOutOfRange, Goto
  <2>2. StatusOf(r) = "pending" /\ StatusOf(r)' = "refused" /\ GrantedOf(r)' = GrantedOf(r)
    BY <1>3, <1>t DEF AcquireOutOfRange, Goto, StatusOf, GrantedOf, Creating, Released
  <2> QED
    BY <1>3, <2>1, <2>2, PromiseRefuse DEF AcquireOutOfRange
<1>4. ASSUME NEW r \in Request, NoIndexLeft(r) PROVE Promise!Next
  <2>1. \A q \in Request \ {r} : SameView(q)
    BY <1>4, <1>t, ViewKept DEF NoIndexLeft, Goto
  <2>2. StatusOf(r) = "pending" /\ StatusOf(r)' = "refused" /\ GrantedOf(r)' = GrantedOf(r)
    BY <1>4, <1>t DEF NoIndexLeft, Goto, StatusOf, GrantedOf, Creating, Released
  <2> QED
    BY <1>4, <2>1, <2>2, PromiseRefuse DEF NoIndexLeft
(* Fixtures go to an index only r owns, and r does not hold it yet. *)
<1>5. ASSUME NEW r \in Request, applyFixtures(r) PROVE UNCHANGED Promise!vars
  <2>1. pc[r] = "fixtures" /\ Owns(r) /\ \A j \in Index : j # index[r] => content'[j] = content[j]
    BY <1>5, <1>t DEF applyFixtures, Owns
  <2>2. \A q \in Request : SameView(q)
    BY <1>5, <1>t, <1>d, <2>1, ViewKept DEF applyFixtures, Owns
  <2> QED
    BY <1>5, <2>2, PromiseStutters DEF applyFixtures
<1>6. ASSUME NEW r \in Request, Answer(r) PROVE UNCHANGED Promise!vars
  <2>1. \A q \in Request \ {r} : SameView(q)
    BY <1>6, <1>t, ViewKept DEF Answer, Goto
  <2>2. SameView(r)
    BY <1>6, <1>t DEF Answer, Goto, SameView, StatusOf, GrantedOf, Creating, Released
  <2> QED
    BY <1>6, <2>1, <2>2, PromiseStutters DEF Answer
(* When the response arrives the database holds what was asked for, and no *)
(* test has written to it.                                                 *)
<1>7. ASSUME NEW r \in Request, Deliver(r) PROVE Promise!Next
  <2>1. \A q \in Request \ {r} : SameView(q)
    BY <1>7, <1>t, ViewKept DEF Deliver, Goto
  <2>2. CASE pc'[r] = "held"
    <3>1. content[index[r]] \in [applied : Seq(File), writers : SUBSET Request]
      BY <1>t DEF Content
    <3>2. content[index[r]].applied = fixtures[r] /\ content[index[r]].writers = {}
      BY <1>7 DEF Deliver, DataInv, DataOf, Holds
    <3>3. content[index[r]] = [applied |-> fixtures[r], writers |-> {}]
      BY <3>1, <3>2
    <3> QED
      BY <1>7, <1>t, <2>1, <2>2, <3>3, PromiseGrant
      DEF Deliver, Goto, StatusOf, GrantedOf, Creating, Released
  <2>3. CASE pc'[r] = "lost"
    BY <1>7, <1>t, <2>1, <2>3, PromiseRefuse
    DEF Deliver, Goto, StatusOf, GrantedOf, Creating, Released
  <2> QED
    BY <1>7, <1>t, <2>2, <2>3 DEF Deliver, Goto
<1>8. ASSUME NEW r \in Request, Write(r) PROVE Promise!Next
  <2>1. /\ pc[r] = "held" /\ Owns(r)
        /\ content'[index[r]] = [content[index[r]] EXCEPT !.writers = @ \cup {r}]
        /\ \A j \in Index : j # index[r] => content'[j] = content[j]
    BY <1>8, <1>t DEF Write, Owns
  <2>2. \A q \in Request \ {r} : SameView(q)
    BY <1>8, <1>t, <1>d, <2>1, ViewKept DEF Write, Owns
  <2>3. /\ StatusOf(r) = "held" /\ StatusOf(r)' = "held"
        /\ GrantedOf(r)' = [GrantedOf(r) EXCEPT !.writers = @ \cup {r}]
    BY <1>8, <1>t, <2>1 DEF Write, StatusOf, GrantedOf, Creating, Released
  <2> QED
    BY <1>8, <2>2, <2>3, PromiseWrite DEF Write
<1>9. ASSUME NEW r \in Request, RemoveDB(r) PROVE Promise!Next
  <2>1. pc[r] = "held" /\ Owns(r)
    BY <1>9 DEF RemoveDB, ClaimInv, TypeOK, Owns, Released
  <2>2. \A j \in Index : j # index[r] => content'[j] = content[j]
    BY <1>9, <1>t DEF RemoveDB, release
  <2>3. \A q \in Request \ {r} : SameView(q)
    BY <1>9, <1>t, <1>d, <2>1, <2>2, ViewKept DEF RemoveDB, Goto, Owns
  <2>4. StatusOf(r) = "held" /\ StatusOf(r)' = "removed" /\ GrantedOf(r)' = Blank
    BY <1>9, <1>t, <2>1 DEF RemoveDB, Goto, StatusOf, GrantedOf, Creating, Released
  <2> QED
    BY <1>9, <2>3, <2>4, PromiseRemove DEF RemoveDB
<1>10. ASSUME NEW r \in Request, RemoveInstance(r) PROVE UNCHANGED Promise!vars
  <2>1. \A q \in Request \ {r} : SameView(q)
    BY <1>10, <1>t, ViewKept DEF RemoveInstance, release, Goto
  <2>2. SameView(r)
    BY <1>10, <1>t DEF RemoveInstance, Goto, SameView, StatusOf, GrantedOf, Creating, Released
  <2> QED
    BY <1>10, <2>1, <2>2, PromiseStutters DEF RemoveInstance
<1>11. ASSUME NEW r \in Request, CreateFails(r) PROVE Promise!Next
  <2>1. \A q \in Request \ {r} : SameView(q)
    BY <1>11, <1>t, ViewKept DEF CreateFails, Goto
  <2>2. StatusOf(r) = "pending" /\ StatusOf(r)' = "refused" /\ GrantedOf(r)' = GrantedOf(r)
    BY <1>11, <1>t DEF CreateFails, Goto, StatusOf, GrantedOf, Creating, Released
  <2> QED
    BY <1>11, <2>1, <2>2, PromiseRefuse DEF CreateFails
(* Start writes to index 0, which no test holds. *)
<1>12. CASE BootFixture
  <2>1. \A j \in Index : j # 0 => content'[j] = content[j]
    BY <1>12, <1>t DEF BootFixture
  <2>2. \A q \in Request : SameView(q)
    BY <1>12, <1>t, <1>d, <2>1, ViewKept DEF BootFixture, Owns
  <2> QED
    BY <1>12, <2>2, PromiseStutters DEF BootFixture
<1>13. CASE UNCHANGED vars
  <2>1. \A q \in Request : SameView(q)
    BY <1>13, ViewKept DEF vars
  <2> QED
    BY <1>13, <2>1, PromiseStutters DEF vars
<1> QED
  BY <1>1, <1>2, <1>3, <1>4, <1>5, <1>6, <1>7, <1>8, <1>9, <1>10, <1>11, <1>12, <1>13
  DEF Next, Create, Test

(* With the default --db and each uri removed at most once, redis keeps    *)
(* the promise of database.Admin: seen through CreateDB and RemoveDB, the  *)
(* shared numbered databases behave as one private database per request,   *)
(* for any requests, fixtures and number of databases.                     *)
THEOREM KeepsPromise ==
    ASSUME BootIndex = 0, MaxRemovals = 1
    PROVE  Spec => ImplementsPromise
<1>1. Init => Promise!Init
  <2> SUFFICES ASSUME Init PROVE Promise!Init
    OBVIOUS
  <2>1. \A r \in Request : StatusOf(r) = "idle" /\ GrantedOf(r) = Promise!Blank
    BY DEF Init, StatusOf, GrantedOf, Creating, Released, Blank, Promise!Blank
  <2> QED
    BY <2>1 DEF Init, Promise!Init
<1>2. TypeOK /\ ClaimInv /\ [Next]_vars => ClaimInv'
  BY ClaimInvPreserved
<1>3. TypeOK /\ ClaimInv /\ DataInv /\ [Next]_vars => DataInv'
  BY DataInvPreserved
<1>4. TypeOK /\ ClaimInv /\ DataInv /\ [Next]_vars => [Promise!Next]_(Promise!vars)
  BY PromiseStep
<1> QED
  BY <1>1, <1>2, <1>3, <1>4, ClaimInvInitially, DataInvInitially, TypeCorrect, PTL
  DEF Spec, ImplementsPromise, Promise!Spec
=============================================================================
