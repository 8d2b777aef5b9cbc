-------------------------- MODULE MongoAdminProofs --------------------------
(***************************************************************************)
(* Proofs about MongoAdmin for any requests, instances, files and number   *)
(* of repeated removals.                                                   *)
(***************************************************************************)
EXTENDS MongoAdmin, TLAPS

-----------------------------------------------------------------------------
LEMMA ContainersListed == containers \in SUBSET Instance /\ Instance \in SUBSET Instance
BY DEF containers

(* Applying a file appends it to one database: the one it is meant for     *)
(* unless it is a .js file, which may end up on another instance.          *)
LEMMA ApplyEffect ==
    ASSUME NEW f \in File, NEW h \in Instance, NEW d \in Database,
           NEW cs \in SUBSET Instance, applyJSScript(f, h, d, cs),
           content \in [Instance -> [Database -> Content]]
    PROVE  \E i \in Instance :
             /\ f.ext # ".js" => i = h
             /\ content' \in [Instance -> [Database -> Content]]
             /\ content'[i][d].applied = Append(content[i][d].applied, f)
             /\ content'[i][d].writers = content[i][d].writers
             /\ \A j \in Instance, e \in Database :
                  j # i \/ e # d => content'[j][e] = content[j][e]
<1>1. PICK i \in Instance :
        /\ f.ext # ".js" => i = h
        /\ content' = [content EXCEPT ![i][d].applied = Append(@, f)]
  BY ScriptAssumption, InstanceAssumption DEF applyJSScript
<1>2. content[i][d] \in Content
  OBVIOUS
<1> DEFINE c == [content[i][d] EXCEPT !.applied = Append(@, f)]
<1>a. Append(content[i][d].applied, f) \in Seq(File)
  BY <1>2 DEF Content
<1>3. /\ c \in Content
      /\ c.applied = Append(content[i][d].applied, f) /\ c.writers = content[i][d].writers
  BY <1>2, <1>a DEF Content
<1>4. content' = [content EXCEPT ![i] = [content[i] EXCEPT ![d] = c]]
  BY <1>1
<1> HIDE DEF c
<1>5. /\ content' \in [Instance -> [Database -> Content]]
      /\ content'[i][d] = c
      /\ \A j \in Instance, e \in Database : j # i \/ e # d => content'[j][e] = content[j][e]
  BY <1>3, <1>4
<1> QED
  BY <1>1, <1>3, <1>5

(* The databases of other names stay as they are, on every instance. *)
LEMMA ApplyLeaves ==
    ASSUME NEW f \in File, NEW h \in Instance, NEW d \in Database,
           NEW cs \in SUBSET Instance, applyJSScript(f, h, d, cs),
           content \in [Instance -> [Database -> Content]]
    PROVE  \A j \in Instance, e \in Database : e # d => content'[j][e] = content[j][e]
<1>1. PICK i \in Instance :
        \A j \in Instance, e \in Database :
          j # i \/ e # d => content'[j][e] = content[j][e]
  BY ApplyEffect
<1> QED
  BY <1>1

(* A step that sets one database of one instance. *)
LEMMA SetEffect ==
    ASSUME NEW i \in Instance, NEW d \in Database, NEW c \in Content,
           content \in [Instance -> [Database -> Content]],
           content' = [content EXCEPT ![i][d] = c]
    PROVE  /\ content' \in [Instance -> [Database -> Content]]
           /\ content'[i][d] = c
           /\ \A j \in Instance, e \in Database :
                j # i \/ e # d => content'[j][e] = content[j][e]
OBVIOUS

LEMMA NextFile ==
    ASSUME TypeOK, NEW r \in Request, next[r] <= Len(files[r])
    PROVE  files[r][next[r]] \in File
BY DEF TypeOK

(* Every state of MongoAdmin is well typed: each file goes to a database   *)
(* some instance has, and each request has a name the clock gave it.       *)
THEOREM TypeCorrect == Spec => []TypeOK
<1>1. Init => TypeOK
  BY InstanceAssumption, ScriptAssumption DEF Init, TypeOK, Content, Blank, Database, PC
<1>2. TypeOK /\ [Next]_vars => TypeOK'
  <2> SUFFICES ASSUME TypeOK, [Next]_vars PROVE TypeOK'
    OBVIOUS
  <2>t. Home \in [Request -> Instance] /\ Admin \in Database /\ Blank \in Content
    BY InstanceAssumption DEF Database, Content, Blank
  <2>1. ASSUME NEW r \in Request, Begin(r) PROVE TypeOK'
    <3>1. PICK m \in MigrationLists, f \in FixtureLists :
            files' = [files EXCEPT ![r] = m \o f]
      BY <2>1 DEF Begin
    <3>2. m \o f \in Seq(File)
      BY ScriptAssumption
    <3> QED
      BY <2>1, <3>1, <3>2 DEF Begin, TypeOK, Goto, PC, Creating
  <2>2. ASSUME NEW r \in Request, Connect(r) PROVE TypeOK'
    BY <2>2 DEF Connect, TypeOK, Goto, PC, Creating, Database
  <2>3. ASSUME NEW r \in Request, Apply(r) PROVE TypeOK'
    <3>1. content' \in [Instance -> [Database -> Content]]
      BY <2>3, <2>t, NextFile, ApplyEffect, ContainersListed DEF Apply, TypeOK
    <3> QED
      BY <2>3, <3>1 DEF Apply, TypeOK
  <2>4. ASSUME NEW r \in Request, Answer(r) PROVE TypeOK'
    BY <2>4 DEF Answer, TypeOK, Goto, PC
  <2>5. ASSUME NEW r \in Request, CreateFails(r) PROVE TypeOK'
    <3>1. content' \in [Instance -> [Database -> Content]]
      BY <2>5, <2>t, NextFile, ApplyEffect, ContainersListed DEF CreateFails, TypeOK
    <3> QED
      BY <2>5, <3>1 DEF CreateFails, TypeOK, Goto, PC
  <2>6. ASSUME NEW r \in Request, Deliver(r) PROVE TypeOK'
    BY <2>6 DEF Deliver, TypeOK, Goto, PC
  <2>7. ASSUME NEW r \in Request, Write(r) PROVE TypeOK'
    <3> DEFINE c == [content[Home[r]][name[r]] EXCEPT !.writers = @ \cup {r}]
    <3>a. content[Home[r]][name[r]] \in Content
      BY <2>t DEF TypeOK
    <3>1. c \in Content
      BY <3>a DEF Content
    <3>2. content' = [content EXCEPT ![Home[r]][name[r]] = c]
      BY <2>7 DEF Write
    <3>3. content' \in [Instance -> [Database -> Content]]
      BY <2>t, <3>1, <3>2, SetEffect DEF TypeOK
    <3> QED
      BY <2>7, <3>3 DEF Write, TypeOK
  <2>8. ASSUME NEW r \in Request, RemoveDB(r) PROVE TypeOK'
    <3>1. content' \in [Instance -> [Database -> Content]]
      BY <2>8, <2>t, SetEffect DEF RemoveDB, TypeOK
    <3>2. removals' \in [Request -> 0..MaxRemovals]
      BY <2>8, InstanceAssumption DEF RemoveDB, TypeOK
    <3> QED
      BY <2>8, <3>1, <3>2 DEF RemoveDB, TypeOK, Goto, PC, Released
  <2>9. ASSUME NEW i \in Instance, BootScript(i)
        PROVE  /\ content' \in [Instance -> [Database -> Content]]
               /\ bootNext' \in [Instance -> Nat \ {0}]
    <3>a. BootFiles[i] \in Seq(File) /\ bootNext[i] \in Nat \ {0}
      BY ScriptAssumption DEF TypeOK
    <3>b. bootNext[i] <= Len(BootFiles[i])
      BY <2>9 DEF BootScript
    <3>1. BootFiles[i][bootNext[i]] \in File
      BY <3>a, <3>b
    <3>2. content' \in [Instance -> [Database -> Content]]
      BY <2>9, <2>t, <3>1, ApplyEffect, ContainersListed DEF BootScript, TypeOK
    <3>3. bootNext' \in [Instance -> Nat \ {0}]
      BY <2>9, <3>a DEF BootScript, TypeOK
    <3> QED
      BY <3>2, <3>3
  <2>11. ASSUME NEW i \in Instance, BootApply(i) PROVE TypeOK'
    BY <2>9, <2>11 DEF BootApply, TypeOK
  <2>12. ASSUME NEW i \in Instance, BootFails(i) PROVE TypeOK'
    BY <2>9, <2>12 DEF BootFails, TypeOK
  <2>10. CASE UNCHANGED vars
    BY <2>10 DEF vars, TypeOK
  <2> QED
    BY <2>1, <2>2, <2>3, <2>4, <2>5, <2>6, <2>7, <2>8, <2>10, <2>11, <2>12 DEF Next, Create, Test
<1> QED
  BY <1>1, <1>2, PTL DEF Spec

-----------------------------------------------------------------------------
(* The names.  A request has one from the moment it connected, it is never *)
(* the one every instance has, and no two requests have the same.          *)
Named == {"apply", "answer", "held", "lost"} \cup Released

NameInv ==
    /\ \A r \in Request : pc[r] = "idle" => files[r] = <<>>
    /\ \A r \in Request : pc[r] \in {"idle", "connect"} => name[r] = Admin /\ next[r] = 1
    /\ \A r \in Request : pc[r] \in Named => name[r] \in Stamp
    /\ \A r, q \in Request : r # q /\ name[r] = name[q] => name[r] = Admin

(* A database whose name was not given to anybody is empty. *)
Fresh == \A t \in Stamp : t \notin Used => \A i \in Instance : content[i][t] = Blank

(* What the database of a request holds whose scripts stay at home: the    *)
(* files applied so far, then all of them and the writes of its own test,  *)
(* then nothing; and nothing on any other instance.                        *)
DataOf(r) ==
    Stays(files[r], Home[r]) =>
        /\ pc[r] \in Named => \A i \in Instance : i # Home[r] => content[i][name[r]] = Blank
        /\ pc[r] = "apply" =>
             /\ next[r] <= Len(files[r]) + 1
             /\ content[Home[r]][name[r]].applied = SubSeq(files[r], 1, next[r] - 1)
             /\ content[Home[r]][name[r]].writers = {}
        /\ Holds(r) =>
             /\ content[Home[r]][name[r]].applied = files[r]
             /\ content[Home[r]][name[r]].writers \subseteq {r}
        /\ pc[r] = "answer" => content[Home[r]][name[r]].writers = {}
        /\ pc[r] = "removed" => content[Home[r]][name[r]] = Blank

DataInv == NameInv /\ Fresh /\ \A r \in Request : DataOf(r)

LEMMA PrefixEmpty ==
    ASSUME NEW S, NEW s \in Seq(S)
    PROVE  SubSeq(s, 1, 0) = <<>>
OBVIOUS

LEMMA PrefixStep ==
    ASSUME NEW S, NEW s \in Seq(S), NEW k \in Nat \ {0}, k <= Len(s)
    PROVE  Append(SubSeq(s, 1, k - 1), s[k]) = SubSeq(s, 1, k)
OBVIOUS

LEMMA PrefixWhole ==
    ASSUME NEW S, NEW s \in Seq(S), NEW k \in Nat \ {0}, k = Len(s) + 1
    PROVE  SubSeq(s, 1, k - 1) = s
OBVIOUS

(* A step that leaves alone a request and the databases of its name. *)
LEMMA OthersData ==
    ASSUME NEW q \in Request, DataOf(q), Home[q] \in Instance,
           pc'[q] = pc[q], files'[q] = files[q], name'[q] = name[q], next'[q] = next[q],
           pc[q] \in Named => \A i \in Instance : content'[i][name[q]] = content[i][name[q]]
    PROVE  DataOf(q)'
BY DEF DataOf, Holds, Stays, Named, Released

(* Nothing is said of a request whose scripts may stray. *)
LEMMA StrayData ==
    ASSUME NEW r \in Request, ~Stays(files[r], Home[r])'
    PROVE  DataOf(r)'
BY DEF DataOf

LEMMA DataInvInitially == Init => DataInv
<1> SUFFICES ASSUME Init PROVE DataInv
  OBVIOUS
<1>1. Fresh
  BY DEF Init, Fresh, Database
<1>2. NameInv
  BY DEF Init, NameInv, Named, Released
<1>3. \A r \in Request : DataOf(r)
  BY DEF Init, DataOf, Holds, Named, Released
<1> QED
  BY <1>1, <1>2, <1>3 DEF DataInv

LEMMA DataInvPreserved ==
    ASSUME Tie = FALSE, TypeOK, DataInv, [Next]_vars
    PROVE  DataInv'
<1>t. /\ content \in [Instance -> [Database -> Content]]
      /\ pc \in [Request -> PC] /\ files \in [Request -> Seq(File)]
      /\ name \in [Request -> Database] /\ next \in [Request -> Nat \ {0}]
      /\ Home \in [Request -> Instance]
      /\ Admin \in Database /\ Admin \notin Stamp /\ Blank \in Content
      /\ Stamp \subseteq Database
  <2>1. Blank \in Content
    BY DEF Content, Blank
  <2>2. Admin \in Database /\ Admin \notin Stamp /\ Stamp \subseteq Database
    BY AdminAssumption DEF Database
  <2> QED
    BY <2>1, <2>2, InstanceAssumption DEF TypeOK
<1>i. NameInv /\ Fresh /\ \A r \in Request : DataOf(r)
  BY DEF DataInv
<1>d. \A r, q \in Request : r # q /\ pc[r] \in Named => name[q] # name[r]
  BY <1>i, <1>t DEF NameInv
<1>u. \A t \in Database : t \in Used <=> t # Admin /\ \E q \in Request : name[q] = t
  BY DEF Used
<1>1. ASSUME NEW r \in Request, Begin(r) PROVE DataInv'
  <2>1. \A q \in Request : q # r => DataOf(q)'
    BY <1>1, <1>t, <1>i, OthersData DEF Begin, Goto
  <2>2. DataOf(r)'
    BY <1>1, <1>t, <1>i DEF Begin, Goto, DataOf, Holds, Named, Released, Stays
  <2>3. NameInv' /\ Fresh'
    BY <1>1, <1>t, <1>i DEF Begin, Goto, NameInv, Fresh, Used, Named, Released
  <2> QED
    BY <2>1, <2>2, <2>3 DEF DataInv
<1>2. ASSUME NEW r \in Request, Connect(r) PROVE DataInv'
  <2>1. PICK t \in Stamp : t \notin Used /\ name' = [name EXCEPT ![r] = t]
    BY <1>2 DEF Connect
  <2>2. /\ name'[r] = t /\ pc[r] = "connect" /\ pc'[r] = "apply"
        /\ next'[r] = next[r] /\ files' = files /\ content' = content
        /\ \A q \in Request : q # r => name'[q] = name[q] /\ pc'[q] = pc[q]
        /\ next' = next
    BY <1>2, <1>t, <2>1 DEF Connect, Goto
  <2>3. \A i \in Instance : content[i][t] = Blank
    BY <2>1, <1>i DEF Fresh
  <2>4. \A q \in Request : name[q] # t
    BY <2>1, <1>t, <1>u
  <2>5. \A q \in Request : q # r => DataOf(q)'
    BY <1>t, <1>i, <2>2, OthersData
  <2>6. DataOf(r)'
    <3>1. SubSeq(files[r], 1, 0) = <<>> /\ Len(files[r]) \in Nat
      BY <1>t, PrefixEmpty
    <3>2. next[r] = 1
      BY <2>2, <1>i DEF NameInv
    <3>3. next[r] = 1 => next[r] - 1 = 0 /\ next[r] <= Len(files[r]) + 1
      BY <3>1
    <3>4. Blank.applied = <<>> /\ Blank.writers = {}
      BY DEF Blank
    <3>5. Home[r] \in Instance /\ Stays(files[r], Home[r])' = Stays(files[r], Home[r])
      BY <1>t, <2>2 DEF Stays
    <3> QED
      BY <2>2, <2>3, <3>1, <3>2, <3>3, <3>4, <3>5 DEF DataOf, Holds
  <2>7. NameInv'
    BY <1>i, <1>t, <2>2, <2>4, ZenonT(60) DEF NameInv, Named, Released
  <2>8. Fresh'
    <3>1. \A u \in Stamp : u \notin Used' => u \notin Used
      <4>1. \A u \in Stamp : u \in Used' <=> \E q \in Request : name'[q] = u
        BY <1>t DEF Used
      <4> QED
        <5>1. name[r] = Admin
          BY <1>i, <2>2 DEF NameInv
        <5>2. ASSUME NEW u \in Stamp, u \in Used PROVE u \in Used'
          <6>1. PICK q \in Request : name[q] = u
            BY <5>2 DEF Used
          <6>2. q # r
            BY <5>1, <6>1, <1>t
          <6> QED
            BY <2>2, <4>1, <6>1, <6>2
        <5> QED
          BY <5>2
    <3> QED
      BY <1>i, <2>2, <3>1 DEF Fresh
  <2> QED
    BY <2>5, <2>6, <2>7, <2>8 DEF DataInv
<1>3. ASSUME NEW r \in Request, Apply(r) PROVE DataInv'
  <2> DEFINE f == files[r][next[r]]
             d == name[r]
  <2>1. /\ f \in File /\ d \in Stamp /\ pc[r] = "apply" /\ pc[r] \in Named
        /\ next[r] <= Len(files[r])
    BY <1>3, <1>i, NextFile DEF Apply, NameInv, Named
  <2>2. PICK i \in Instance :
          /\ f.ext # ".js" => i = Home[r]
          /\ content'[i][d].applied = Append(content[i][d].applied, f)
          /\ content'[i][d].writers = content[i][d].writers
          /\ \A j \in Instance, e \in Database :
               j # i \/ e # d => content'[j][e] = content[j][e]
    <3>1. applyJSScript(f, Home[r], d, containers) /\ Home[r] \in Instance /\ d \in Database
      BY <1>3, <1>t DEF Apply
    <3> HIDE DEF f, d
    <3>2. f \in File /\ content \in [Instance -> [Database -> Content]]
      BY <1>t, <2>1
    <3> QED
      BY <3>1, <3>2, ApplyEffect, ContainersListed, SMTT(30)
  <2>3. /\ next'[r] = next[r] + 1 /\ next'[r] - 1 = next[r]
        /\ files' = files /\ pc' = pc /\ name' = name
        /\ \A q \in Request : q # r => next'[q] = next[q]
    BY <1>3, <1>t DEF Apply
  <2> HIDE DEF f
  <2>4. \A q \in Request : q # r => DataOf(q)'
    BY <1>t, <1>i, <1>d, <2>1, <2>2, <2>3, OthersData
  <2>5. DataOf(r)'
    <3>0. Stays(files[r], Home[r])' => Stays(files[r], Home[r])
      BY <2>3 DEF Stays
    <3> SUFFICES ASSUME Stays(files[r], Home[r]) PROVE DataOf(r)'
      BY <3>0, StrayData
    <3>1. i = Home[r]
      <4>1. files[r] \in Seq(File) /\ next[r] \in Nat \ {0} /\ Home[r] \in Instance
        BY <1>t
      <4>2. next[r] \in DOMAIN files[r]
        BY <2>1, <4>1
      <4>3. Instance = {Home[r]} \/ f.ext # ".js"
        BY <4>2 DEF Stays, f
      <4>4. f.ext # ".js" => i = Home[r]
        BY <2>2
      <4> QED
        BY <4>3, <4>4
    <3>2. /\ content[i][d].applied = SubSeq(files[r], 1, next[r] - 1)
          /\ content[i][d].writers = {} /\ content[i][d] \in Content
      BY <3>1, <2>1, <1>i, <1>t DEF DataOf
    <3>3. Append(SubSeq(files[r], 1, next[r] - 1), f) = SubSeq(files[r], 1, next[r])
      BY <1>t, <2>1, PrefixStep DEF f
    <3>4. content'[i][d].applied = SubSeq(files[r], 1, next[r]) /\ content'[i][d].writers = {}
      BY <2>2, <3>2, <3>3 DEF Content
    <3>5. \A j \in Instance : j # Home[r] => content'[j][d] = Blank
      <4>1. \A j \in Instance : j # Home[r] => content[j][d] = Blank
        BY <2>1, <1>i DEF DataOf
      <4>2. d \in Database
        BY <2>1 DEF Database
      <4>3. \A j \in Instance : j # i => content'[j][d] = content[j][d]
        BY <2>2, <4>2
      <4> QED
        BY <3>1, <4>1, <4>3
    <3>6. Len(files[r]) \in Nat /\ next'[r] <= Len(files[r]) + 1
      BY <1>t, <2>1, <2>3
    <3> QED
      BY <2>1, <2>3, <3>1, <3>4, <3>5, <3>6 DEF DataOf, Holds
  <2>6. NameInv'
    BY <1>t, <1>i, <2>1, <2>3 DEF NameInv
  <2>7. Fresh'
    <3>1. Used' = Used /\ d \in Used
      BY <1>t, <1>u, <2>1, <2>3 DEF Used
    <3> QED
      BY <1>t, <1>i, <2>2, <3>1 DEF Fresh
  <2> QED
    BY <2>4, <2>5, <2>6, <2>7 DEF DataInv
<1>4. ASSUME NEW r \in Request, Answer(r) PROVE DataInv'
  <2>1. next[r] > Len(files[r]) /\ pc[r] = "apply" /\ Len(files[r]) \in Nat
    BY <1>4, <1>t DEF Answer
  <2>2. Stays(files[r], Home[r]) => next[r] <= Len(files[r]) + 1
    BY <2>1, <1>i DEF DataOf
  <2>3. Stays(files[r], Home[r]) => SubSeq(files[r], 1, next[r] - 1) = files[r]
    BY <2>1, <2>2, <1>t, PrefixWhole
  <2>4. \A q \in Request : q # r => DataOf(q)'
    BY <1>4, <1>t, <1>i, OthersData DEF Answer, Goto
  <2>5. DataOf(r)'
    BY <1>4, <1>t, <1>i, <2>1, <2>3 DEF Answer, Goto, DataOf, Holds, Named, Stays
  <2>6. NameInv' /\ Fresh'
    BY <1>4, <1>t, <1>i DEF Answer, Goto, NameInv, Fresh, Used, Named
  <2> QED
    BY <2>4, <2>5, <2>6 DEF DataInv
<1>5. ASSUME NEW r \in Request, CreateFails(r) PROVE DataInv'
  <2> DEFINE d == name[r]
  <2>1. /\ files' = files /\ name' = name /\ next' = next /\ pc'[r] = "failed"
        /\ \A q \in Request : q # r => pc'[q] = pc[q]
    BY <1>5, <1>t DEF CreateFails, Goto
  <2>2. \A j \in Instance, e \in Database :
          e # d \/ pc[r] = "connect" => content'[j][e] = content[j][e]
    <3>1. CASE UNCHANGED content
      BY <3>1
    <3>2. CASE /\ pc[r] = "apply" /\ next[r] <= Len(files[r])
               /\ applyJSScript(files[r][next[r]], Home[r], d, containers)
      <4> DEFINE f == files[r][next[r]]
      <4>1. f \in File /\ Home[r] \in Instance /\ d \in Database /\ applyJSScript(f, Home[r], d, containers)
        BY <3>2, <1>t, NextFile
      <4> HIDE DEF f, d
      <4>a. content \in [Instance -> [Database -> Content]]
        BY <1>t
      <4>2. \A j \in Instance, e \in Database : e # d => content'[j][e] = content[j][e]
        BY <4>1, <4>a, ApplyLeaves, ContainersListed
      <4> QED
        BY <3>2, <4>2
    <3> QED
      BY <1>5, <3>1, <3>2 DEF CreateFails
  <2>3. pc[r] = "connect" => d = Admin
    BY <1>i DEF NameInv
  <2>4. \A q \in Request : q # r => DataOf(q)'
    BY <1>t, <1>i, <1>d, <2>1, <2>2, OthersData
  <2>5. DataOf(r)'
    BY <2>1 DEF DataOf, Holds, Named, Released
  <2>6. NameInv'
    BY <1>i, <1>t, <2>1 DEF NameInv, Named, Released
  <2>7. Fresh'
    BY <1>i, <1>t, <1>u, <2>1, <2>2 DEF Fresh, Used
  <2> QED
    BY <2>4, <2>5, <2>6, <2>7 DEF DataInv
<1>6. ASSUME NEW r \in Request, Deliver(r) PROVE DataInv'
  <2>1. \A q \in Request : q # r => DataOf(q)'
    BY <1>6, <1>t, <1>i, OthersData DEF Deliver, Goto
  <2>2. DataOf(r)'
    BY <1>6, <1>t, <1>i DEF Deliver, Goto, DataOf, Holds, Named, Released, Stays
  <2>3. NameInv' /\ Fresh'
    BY <1>6, <1>t, <1>i DEF Deliver, Goto, NameInv, Fresh, Used, Named
  <2> QED
    BY <2>1, <2>2, <2>3 DEF DataInv
<1>7. ASSUME NEW r \in Request, Write(r) PROVE DataInv'
  <2> DEFINE d == name[r]
             h == Home[r]
             c == [content[h][d] EXCEPT !.writers = @ \cup {r}]
  <2>1. d \in Stamp /\ pc[r] = "held" /\ pc[r] \in Named /\ h \in Instance
    BY <1>7, <1>i, <1>t DEF Write, NameInv, Named
  <2>2. content[h][d] \in Content
    BY <1>t, <2>1
  <2>3. /\ c \in Content /\ c.applied = content[h][d].applied
        /\ c.writers = content[h][d].writers \cup {r}
    BY <2>2 DEF Content
  <2>4. content' = [content EXCEPT ![h][d] = c]
    BY <1>7 DEF Write
  <2> HIDE DEF c
  <2>5. /\ content'[h][d] = c
        /\ \A j \in Instance, e \in Database : j # h \/ e # d => content'[j][e] = content[j][e]
    BY <1>t, <2>1, <2>3, <2>4, SetEffect
  <2>6. pc' = pc /\ files' = files /\ name' = name /\ next' = next
    BY <1>7 DEF Write
  <2>7. \A q \in Request : q # r => DataOf(q)'
    BY <1>t, <1>i, <1>d, <2>1, <2>5, <2>6, OthersData
  <2>8. DataOf(r)'
    <3>1. \A j \in Instance : j # h => content'[j][d] = content[j][d]
      BY <2>1, <2>5, <1>t
    <3>2. Stays(files[r], Home[r]) => content[h][d].applied = files[r] /\ content[h][d].writers \subseteq {r}
      BY <1>i, <2>1 DEF DataOf, Holds
    <3>3. Stays(files[r], Home[r])' => Stays(files[r], Home[r])
      BY <2>6 DEF Stays
    <3> SUFFICES ASSUME Stays(files[r], Home[r]) PROVE DataOf(r)'
      BY <3>3, StrayData
    <3>4. \A j \in Instance : j # Home[r] => content'[j][d] = Blank
      BY <1>i, <2>1, <3>1 DEF DataOf
    <3>5. content'[h][d].applied = files[r] /\ content'[h][d].writers \subseteq {r}
      BY <2>3, <2>5, <3>2
    <3>6. /\ pc'[r] = "held" /\ name'[r] = d /\ files'[r] = files[r]
      BY <2>1, <2>6
    <3> HIDE DEF h, d
    <3>7. h = Home[r]
      BY DEF h
    <3> QED
      BY <3>4, <3>5, <3>6, <3>7 DEF DataOf, Holds
  <2>9. NameInv' /\ Fresh'
    BY <1>t, <1>i, <1>u, <2>1, <2>5, <2>6 DEF NameInv, Fresh, Used
  <2> QED
    BY <2>7, <2>8, <2>9 DEF DataInv
<1>8. ASSUME NEW r \in Request, RemoveDB(r) PROVE DataInv'
  <2> DEFINE d == name[r]
             h == Home[r]
  <2>1. d \in Stamp /\ pc[r] \in Named /\ h \in Instance
    BY <1>8, <1>i, <1>t DEF RemoveDB, NameInv, Named
  <2>2. /\ files' = files /\ name' = name /\ next' = next /\ pc'[r] \in Released
        /\ \A q \in Request : q # r => pc'[q] = pc[q]
    BY <1>8, <1>t DEF RemoveDB, Goto, Released
  <2>3. /\ content'[h][d] = Blank \/ (UNCHANGED content /\ (pc'[r] = "removed" => pc[r] = "removed"))
        /\ \A j \in Instance, e \in Database : j # h \/ e # d => content'[j][e] = content[j][e]
    BY <1>8, <1>t, <2>1, SetEffect DEF RemoveDB, Goto, Released
  <2>4. \A q \in Request : q # r => DataOf(q)'
    BY <1>t, <1>i, <1>d, <2>1, <2>2, <2>3, OthersData
  <2>5. DataOf(r)'
    BY <1>t, <1>i, <2>1, <2>2, <2>3 DEF DataOf, Holds, Stays, Named, Released
  <2>6. NameInv'
    BY <1>t, <1>i, <2>1, <2>2 DEF NameInv, Named, Released
  <2>7. Fresh'
    BY <1>t, <1>i, <1>u, <2>1, <2>2, <2>3 DEF Fresh, Used
  <2> QED
    BY <2>4, <2>5, <2>6, <2>7 DEF DataInv
<1>9. ASSUME NEW k \in Instance, BootScript(k), UNCHANGED <<pc, files, name, next, removals>>
      PROVE  DataInv'
  <2>1. BootFiles[k] \in Seq(File) /\ bootNext[k] \in Nat \ {0} /\ bootNext[k] <= Len(BootFiles[k])
    BY <1>9, ScriptAssumption DEF BootScript, TypeOK
  <2>2. BootFiles[k][bootNext[k]] \in File
    BY <2>1
  <2>3. \A j \in Instance, e \in Stamp : content'[j][e] = content[j][e]
    <3> DEFINE f == BootFiles[k][bootNext[k]]
    <3>1. f \in File /\ applyJSScript(f, k, Admin, Instance)
      BY <1>9, <2>2 DEF BootScript
    <3> HIDE DEF f
    <3>a. Admin \in Database /\ content \in [Instance -> [Database -> Content]]
      BY <1>t
    <3>2. \A j \in Instance, e \in Database : e # Admin => content'[j][e] = content[j][e]
      BY <3>1, <3>a, ApplyLeaves, ContainersListed
    <3> QED
      BY <1>t, <3>2
  <2>4. pc' = pc /\ files' = files /\ name' = name /\ next' = next
    BY <1>9 DEF BootScript
  <2>5. \A q \in Request : pc[q] \in Named => name[q] \in Stamp
    BY <1>i DEF NameInv
  <2>6. \A q \in Request : DataOf(q)'
    BY <1>t, <1>i, <2>3, <2>4, <2>5, OthersData
  <2>7. NameInv' /\ Fresh'
    BY <1>i, <2>3, <2>4 DEF NameInv, Fresh, Used
  <2> QED
    BY <2>6, <2>7 DEF DataInv
<1>10. CASE UNCHANGED <<content, pc, files, name, next, removals, bootNext>>
  <2>1. NameInv' /\ Fresh'
    BY <1>i, <1>10 DEF vars, NameInv, Fresh, Used
  <2>2. \A q \in Request : DataOf(q)'
    BY <1>10, <1>t, <1>i, OthersData DEF vars
  <2> QED
    BY <2>1, <2>2 DEF DataInv
<1> QED
  BY <1>1, <1>2, <1>3, <1>4, <1>5, <1>6, <1>7, <1>8, <1>9, <1>10 DEF Next, Create, Test, BootApply, BootFails, vars

(* If no two requests read the same time, every database that CreateDB     *)
(* returned to a request whose scripts stay on its instance holds exactly  *)
(* the files asked for and the writes of its own test: for any requests,   *)
(* instances of any projects, and scripts straying between them.           *)
THEOREM DatabasesAsRequested ==
    ASSUME Tie = FALSE
    PROVE  Spec => []HeldAsRequested
<1>1. TypeOK /\ DataInv /\ [Next]_vars => DataInv'
  BY DataInvPreserved
<1>2. DataInv => HeldAsRequested
  BY DEF DataInv, DataOf, HeldAsRequested
<1> QED
  BY <1>1, <1>2, DataInvInitially, TypeCorrect, PTL DEF Spec

(* Under the same condition a RemoveDB that reported success has left      *)
(* nothing of the database, for any number of calls and failures before.   *)
THEOREM RemovedLeavesNothing ==
    ASSUME Tie = FALSE
    PROVE  Spec => []RemovedIsGone
<1>1. TypeOK /\ DataInv /\ [Next]_vars => DataInv'
  BY DataInvPreserved
<1>2. DataInv => RemovedIsGone
  BY DEF DataInv, DataOf, RemovedIsGone, Named, Released
<1> QED
  BY <1>1, <1>2, DataInvInitially, TypeCorrect, PTL DEF Spec

-----------------------------------------------------------------------------
(* The data of Start.  No request has the database every instance has, and *)
(* a Start without a script that may stray only adds to its own.           *)
AllStay == \A i \in Instance : Stays(BootFiles[i], i)

StartOf(i) ==
    /\ bootNext[i] <= Len(BootFiles[i]) + 1
    /\ content[i][Admin].applied = SubSeq(BootFiles[i], 1, bootNext[i] - 1)
    /\ content[i][Admin].writers = {}

StartInv == \A i \in Instance : StartOf(i)

LEMMA StartInvInitially == Init => StartInv
<1> SUFFICES ASSUME Init, NEW i \in Instance PROVE StartOf(i)
  BY DEF StartInv
<1>1. content[i][Admin] = Blank /\ bootNext[i] = 1 /\ BootFiles[i] \in Seq(File)
  BY ScriptAssumption DEF Init, Database
<1>2. SubSeq(BootFiles[i], 1, 0) = <<>> /\ Len(BootFiles[i]) \in Nat
  BY <1>1, PrefixEmpty
<1> QED
  BY <1>1, <1>2 DEF StartOf, Blank

(* A step that leaves the databases of the instances alone. *)
LEMMA StartKept ==
    ASSUME StartInv, bootNext' = bootNext,
           \A i \in Instance : content'[i][Admin] = content[i][Admin]
    PROVE  StartInv'
BY DEF StartInv, StartOf

LEMMA StartInvPreserved ==
    ASSUME AllStay, TypeOK, NameInv, StartInv, [Next]_vars
    PROVE  StartInv'
<1>t. /\ content \in [Instance -> [Database -> Content]]
      /\ name \in [Request -> Database] /\ Home \in [Request -> Instance]
      /\ Admin \in Database /\ Admin \notin Stamp /\ Blank \in Content
  <2>1. Blank \in Content
    BY DEF Content, Blank
  <2>2. Admin \in Database /\ Admin \notin Stamp
    BY AdminAssumption DEF Database
  <2> QED
    BY <2>1, <2>2, InstanceAssumption DEF TypeOK
<1>n. \A r \in Request : pc[r] \in Named => name[r] # Admin
  BY <1>t DEF NameInv
(* What a request applies does not touch the database of the instance. *)
<1>a. ASSUME NEW r \in Request, pc[r] = "apply", next[r] <= Len(files[r]),
             applyJSScript(files[r][next[r]], Home[r], name[r], containers)
      PROVE  \A i \in Instance : content'[i][Admin] = content[i][Admin]
  <2> DEFINE f == files[r][next[r]]
             d == name[r]
  <2>1. /\ f \in File /\ d \in Database /\ d # Admin /\ Home[r] \in Instance
        /\ applyJSScript(f, Home[r], d, containers)
    BY <1>a, <1>t, <1>n, NextFile DEF Named
  <2> HIDE DEF f, d
  <2>2. \A j \in Instance, e \in Database : e # d => content'[j][e] = content[j][e]
    BY <1>t, <2>1, ApplyLeaves, ContainersListed
  <2> QED
    BY <1>t, <2>1, <2>2
<1>1. ASSUME NEW r \in Request, Begin(r) PROVE StartInv'
  BY <1>1, StartKept DEF Begin
<1>2. ASSUME NEW r \in Request, Connect(r) PROVE StartInv'
  BY <1>2, StartKept DEF Connect
<1>3. ASSUME NEW r \in Request, Apply(r) PROVE StartInv'
  BY <1>3, <1>a, StartKept DEF Apply
<1>4. ASSUME NEW r \in Request, Answer(r) PROVE StartInv'
  BY <1>4, StartKept DEF Answer
<1>5. ASSUME NEW r \in Request, CreateFails(r) PROVE StartInv'
  BY <1>5, <1>a, StartKept DEF CreateFails
<1>6. ASSUME NEW r \in Request, Deliver(r) PROVE StartInv'
  BY <1>6, StartKept DEF Deliver
<1>7. ASSUME NEW r \in Request, Write(r) PROVE StartInv'
  <2> DEFINE c == [content[Home[r]][name[r]] EXCEPT !.writers = @ \cup {r}]
  <2>1. /\ name[r] # Admin /\ Home[r] \in Instance /\ name[r] \in Database
        /\ content[Home[r]][name[r]] \in Content
    BY <1>7, <1>t, <1>n DEF Write, Named
  <2>2. c \in Content /\ content' = [content EXCEPT ![Home[r]][name[r]] = c]
    BY <1>7, <2>1 DEF Write, Content
  <2> HIDE DEF c
  <2>3. \A i \in Instance : content'[i][Admin] = content[i][Admin]
    BY <1>t, <2>1, <2>2, SetEffect
  <2> QED
    BY <1>7, <2>3, StartKept DEF Write
<1>8. ASSUME NEW r \in Request, RemoveDB(r) PROVE StartInv'
  <2>1. name[r] # Admin /\ Home[r] \in Instance /\ name[r] \in Database
    BY <1>8, <1>t, <1>n DEF RemoveDB, Named
  <2>2. \A i \in Instance : content'[i][Admin] = content[i][Admin]
    BY <1>8, <1>t, <2>1, SetEffect DEF RemoveDB
  <2> QED
    BY <1>8, <2>2, StartKept DEF RemoveDB
<1>9. ASSUME NEW k \in Instance, BootScript(k), UNCHANGED <<pc, files, name, next, removals>>
      PROVE  StartInv'
  <2> DEFINE f == BootFiles[k][bootNext[k]]
  <2>1. BootFiles[k] \in Seq(File) /\ bootNext[k] \in Nat \ {0} /\ bootNext[k] <= Len(BootFiles[k])
    BY <1>9, ScriptAssumption DEF BootScript, TypeOK
  <2>2. f \in File /\ applyJSScript(f, k, Admin, Instance) /\ (f.ext = ".js" => Instance = {k})
    BY <1>9, <2>1 DEF BootScript, AllStay, Stays
  <2>3. Append(SubSeq(BootFiles[k], 1, bootNext[k] - 1), f) = SubSeq(BootFiles[k], 1, bootNext[k])
    BY <2>1, PrefixStep
  <2>4. /\ bootNext'[k] = bootNext[k] + 1 /\ bootNext'[k] - 1 = bootNext[k]
        /\ \A j \in Instance : j # k => bootNext'[j] = bootNext[j]
    BY <1>9, <2>1 DEF BootScript, TypeOK
  <2> HIDE DEF f
  <2>5. PICK i \in Instance :
          /\ f.ext # ".js" => i = k
          /\ content'[i][Admin].applied = Append(content[i][Admin].applied, f)
          /\ content'[i][Admin].writers = content[i][Admin].writers
          /\ \A j \in Instance, e \in Database :
               j # i \/ e # Admin => content'[j][e] = content[j][e]
    <3>1. Admin \in Database /\ content \in [Instance -> [Database -> Content]]
      BY <1>t
    <3> QED
      BY <2>2, <3>1, ApplyEffect, ContainersListed
  <2>6. i = k
    BY <2>2, <2>5
  <2>7. StartOf(k)'
    <3>1. Len(BootFiles[k]) \in Nat /\ bootNext'[k] <= Len(BootFiles[k]) + 1
      BY <2>1, <2>4
    <3>2. StartOf(k)
      BY DEF StartInv
    <3>3. content'[k][Admin].applied = SubSeq(BootFiles[k], 1, bootNext[k])
      BY <2>3, <2>5, <2>6, <3>2 DEF StartOf
    <3>4. content'[k][Admin].writers = {}
      BY <2>5, <2>6, <3>2 DEF StartOf
    <3> QED
      BY <2>4, <3>1, <3>3, <3>4 DEF StartOf
  <2>8. \A j \in Instance : j # k => StartOf(j)'
    BY <1>t, <2>4, <2>5, <2>6 DEF StartInv, StartOf
  <2> QED
    BY <2>7, <2>8 DEF StartInv
<1>10. CASE UNCHANGED <<content, pc, files, name, next, removals, bootNext>>
  BY <1>10, StartKept DEF vars
<1> QED
  BY <1>1, <1>2, <1>3, <1>4, <1>5, <1>6, <1>7, <1>8, <1>9, <1>10 DEF Next, Create, Test, BootApply, BootFails, vars

(* Under the same condition, if no Start has a script that may stray, the  *)
(* database an instance was started with holds what its Start applied, in  *)
(* order, for any instances, files and requests.                           *)
THEOREM StartDataIsKept ==
    ASSUME Tie = FALSE
    PROVE  Spec => []StartDataKept
<1>1. CASE AllStay
  <2>1. TypeOK /\ DataInv /\ [Next]_vars => DataInv'
    BY DataInvPreserved
  <2>2. TypeOK /\ DataInv /\ StartInv /\ [Next]_vars => StartInv'
    <3> SUFFICES ASSUME TypeOK, DataInv, StartInv, [Next]_vars PROVE StartInv'
      OBVIOUS
    <3>1. NameInv
      BY DEF DataInv
    <3> QED
      BY <1>1, <3>1, StartInvPreserved
  <2>3. TypeOK /\ StartInv => StartDataKept
    <3> SUFFICES ASSUME TypeOK, StartInv, NEW i \in Instance
                 PROVE  content[i][Admin] =
                          [applied |-> SubSeq(BootFiles[i], 1, bootNext[i] - 1), writers |-> {}]
      BY DEF StartDataKept
    <3>1. content[i][Admin] \in [applied : Seq(File), writers : SUBSET Request]
      <4>1. content[i][Admin] \in Content
        BY DEF TypeOK, Database
      <4> QED
        BY <4>1 DEF Content
    <3> QED
      BY <3>1 DEF StartInv, StartOf
  <2> QED
    BY <2>1, <2>2, <2>3, DataInvInitially, StartInvInitially, TypeCorrect, PTL DEF Spec
<1>2. CASE ~AllStay
  <2>1. TypeOK => StartDataKept
    BY <1>2 DEF AllStay, StartDataKept
  <2> QED
    BY <2>1, TypeCorrect, PTL
<1> QED
  BY <1>1, <1>2

-----------------------------------------------------------------------------
(* The promise.  Each step is, for the request that takes it, a step of    *)
(* TestDatabases or nothing, and for every other request nothing.  What a  *)
(* request sees changes only with its own pc, files and name and with the  *)
(* database it holds; one whose scripts may stray is never promised        *)
(* anything, and what strays goes to a name nobody else has.               *)
SameView(q) ==
    StatusOf(q)' = StatusOf(q) /\ WantOf(q)' = WantOf(q) /\ GrantedOf(q)' = GrantedOf(q)

LEMMA ViewKept ==
    ASSUME NEW q \in Request, pc'[q] = pc[q], files'[q] = files[q], name'[q] = name[q],
           pc[q] = "held" => content'[Home[q]][name[q]] = content[Home[q]][name[q]]
    PROVE  SameView(q)
<1>1. Promised(q)' = Promised(q)
  BY DEF Promised, Stays
<1> QED
  BY <1>1 DEF SameView, StatusOf, WantOf, GrantedOf

LEMMA PromiseStutters ==
    ASSUME \A q \in Request : SameView(q)
    PROVE  UNCHANGED Promise!vars
BY DEF Promise!vars, SameView

(* A request nothing is promised to is idle for TestDatabases.             *)
LEMMA UnpromisedView ==
    ASSUME NEW r \in Request, files' = files, ~Promised(r)
    PROVE  SameView(r)
<1>1. ~Promised(r)'
  BY DEF Promised, Stays
<1>2. StatusOf(r) = "idle" /\ WantOf(r) = <<>> /\ GrantedOf(r) = Blank
  BY DEF StatusOf, WantOf, GrantedOf
<1>3. StatusOf(r)' = "idle" /\ WantOf(r)' = <<>> /\ GrantedOf(r)' = Blank
  BY <1>1 DEF StatusOf, WantOf, GrantedOf, Blank
<1> QED
  BY <1>2, <1>3 DEF SameView

(* What the cases of the view are for the others. *)
LEMMA PromisedView ==
    ASSUME NEW r \in Request, Promised(r)
    PROVE  /\ WantOf(r) = files[r]
           /\ pc[r] = "idle" => StatusOf(r) = "idle"
           /\ pc[r] \in Creating \cup {"answer"} => StatusOf(r) = "pending"
           /\ pc[r] = "held" => StatusOf(r) = "held" /\ GrantedOf(r) = content[Home[r]][name[r]]
           /\ pc[r] \in {"failed", "lost"} => StatusOf(r) = "refused"
           /\ pc[r] \in Released => StatusOf(r) = "removed"
           /\ pc[r] # "held" => GrantedOf(r) = Blank
BY DEF StatusOf, WantOf, GrantedOf, Creating, Released

LEMMA PromisedViewAfter ==
    ASSUME NEW r \in Request, Promised(r)'
    PROVE  /\ WantOf(r)' = files'[r]
           /\ pc'[r] \in Creating \cup {"answer"} => StatusOf(r)' = "pending"
           /\ pc'[r] = "held" =>
                StatusOf(r)' = "held" /\ GrantedOf(r)' = content'[Home[r]][name'[r]]
           /\ pc'[r] \in {"failed", "lost"} => StatusOf(r)' = "refused"
           /\ pc'[r] \in Released => StatusOf(r)' = "removed"
           /\ pc'[r] # "held" => GrantedOf(r)' = Blank
BY DEF StatusOf, WantOf, GrantedOf, Creating, Released, Blank

(* The five steps of TestDatabases, taken by r while nobody else's view    *)
(* changes.                                                                *)
LEMMA PromiseAsk ==
    ASSUME NEW r \in Request, \A q \in Request \ {r} : SameView(q),
           StatusOf(r) = "idle", StatusOf(r)' = "pending",
           WantOf(r)' \in Seq(File), GrantedOf(r)' = GrantedOf(r)
    PROVE  Promise!Next
<1>1. Promise!Ask(r)
  BY DEF Promise!Ask, SameView
<1> QED
  BY <1>1 DEF Promise!Next

LEMMA PromiseGrant ==
    ASSUME NEW r \in Request, \A q \in Request \ {r} : SameView(q),
           StatusOf(r) = "pending", StatusOf(r)' = "held", WantOf(r)' = WantOf(r),
           GrantedOf(r)' = [applied |-> WantOf(r), writers |-> {}]
    PROVE  Promise!Next
<1>1. Promise!Grant(r)
  BY DEF Promise!Grant, SameView
<1> QED
  BY <1>1 DEF Promise!Next

LEMMA PromiseRefuse ==
    ASSUME NEW r \in Request, \A q \in Request \ {r} : SameView(q),
           StatusOf(r) = "pending", StatusOf(r)' = "refused", WantOf(r)' = WantOf(r),
           GrantedOf(r)' = GrantedOf(r)
    PROVE  Promise!Next
<1>1. Promise!Refuse(r)
  BY DEF Promise!Refuse, SameView
<1> QED
  BY <1>1 DEF Promise!Next

LEMMA PromiseWrite ==
    ASSUME NEW r \in Request, \A q \in Request \ {r} : SameView(q),
           StatusOf(r) = "held", StatusOf(r)' = "held", WantOf(r)' = WantOf(r),
           GrantedOf(r)' = [GrantedOf(r) EXCEPT !.writers = @ \cup {r}]
    PROVE  Promise!Next
<1>1. Promise!Write(r)
  BY DEF Promise!Write, SameView
<1> QED
  BY <1>1 DEF Promise!Next

LEMMA PromiseRemove ==
    ASSUME NEW r \in Request, \A q \in Request \ {r} : SameView(q),
           StatusOf(r) = "held", StatusOf(r)' = "removed", WantOf(r)' = WantOf(r),
           GrantedOf(r)' = Blank
    PROVE  Promise!Next
<1>1. Promise!Remove(r)
  BY DEF Promise!Remove, Promise!Blank, Blank, SameView
<1> QED
  BY <1>1 DEF Promise!Next

(* Each step of a request is one of these, or changes nobody's view. *)
LEMMA PromiseStep ==
    ASSUME Tie = FALSE, TypeOK, DataInv, [Next]_vars
    PROVE  [Promise!Next]_(Promise!vars)
<1>t. /\ content \in [Instance -> [Database -> Content]]
      /\ pc \in [Request -> PC] /\ files \in [Request -> Seq(File)]
      /\ name \in [Request -> Database] /\ Home \in [Request -> Instance]
  BY InstanceAssumption DEF TypeOK
<1>n. \A r \in Request : pc[r] \in Named => name[r] \in Stamp
  BY DEF DataInv, NameInv
<1>d. \A r, q \in Request : r # q /\ pc[q] = "held" => name[q] # name[r]
  BY <1>t, <1>n, AdminAssumption DEF DataInv, NameInv, Named
<1>p. ASSUME NEW r \in Request, files'[r] = files[r] PROVE Promised(r)' = Promised(r)
  BY <1>p DEF Promised, Stays
(* A file applied for r leaves alone what any other request holds, also    *)
(* where it strays to.                                                     *)
<1>a. ASSUME NEW r \in Request, next[r] <= Len(files[r]),
             applyJSScript(files[r][next[r]], Home[r], name[r], containers)
      PROVE  \A q \in Request \ {r} : pc[q] = "held" =>
               content'[Home[q]][name[q]] = content[Home[q]][name[q]]
  <2> DEFINE f == files[r][next[r]]
             d == name[r]
  <2>1. f \in File /\ d \in Database /\ Home[r] \in Instance /\ applyJSScript(f, Home[r], d, containers)
    BY <1>a, <1>t, NextFile
  <2> HIDE DEF f
  <2>2. \A j \in Instance, e \in Database : e # d => content'[j][e] = content[j][e]
    BY <1>t, <2>1, ApplyLeaves, ContainersListed
  <2> QED
    BY <1>t, <1>d, <2>2
<1>1. ASSUME NEW r \in Request, Begin(r) PROVE [Promise!Next]_(Promise!vars)
  <2>1. \A q \in Request \ {r} : SameView(q)
    BY <1>1, <1>t, ViewKept DEF Begin, Goto
  <2>2. files'[r] \in Seq(File) /\ pc[r] = "idle" /\ pc'[r] = "connect"
    <3>1. PICK m \in MigrationLists, f \in FixtureLists : files' = [files EXCEPT ![r] = m \o f]
      BY <1>1 DEF Begin
    <3>2. m \o f \in Seq(File)
      BY ScriptAssumption
    <3> QED
      BY <1>1, <1>t, <3>1, <3>2 DEF Begin, Goto
  <2>3. StatusOf(r) = "idle" /\ GrantedOf(r) = Blank
    BY <2>2 DEF StatusOf, GrantedOf, Creating, Released
  <2>4. CASE Promised(r)'
    <3>1. StatusOf(r)' = "pending" /\ WantOf(r)' \in Seq(File) /\ GrantedOf(r)' = Blank
      BY <2>2, <2>4, PromisedViewAfter DEF Creating
    <3> QED
      BY <2>1, <2>3, <3>1, PromiseAsk
  <2>5. CASE ~Promised(r)'
    <3>1. WantOf(r) = <<>>
      BY <2>2 DEF WantOf, DataInv, NameInv
    <3>2. StatusOf(r)' = "idle" /\ WantOf(r)' = <<>> /\ GrantedOf(r)' = Blank
      BY <2>5 DEF StatusOf, WantOf, GrantedOf, Blank
    <3> QED
      BY <2>1, <2>3, <3>1, <3>2, PromiseStutters DEF SameView
  <2> QED
    BY <2>4, <2>5
<1>2. ASSUME NEW r \in Request, Connect(r) PROVE UNCHANGED Promise!vars
  <2>1. /\ pc[r] = "connect" /\ pc'[r] = "apply" /\ files' = files /\ content' = content
        /\ \A q \in Request \ {r} : pc'[q] = pc[q] /\ name'[q] = name[q]
    BY <1>2, <1>t DEF Connect, Goto
  <2>2. \A q \in Request \ {r} : SameView(q)
    BY <2>1, ViewKept
  <2>3. SameView(r)
    BY <1>p, <2>1, UnpromisedView, PromisedView, PromisedViewAfter DEF SameView, Creating
  <2> QED
    BY <2>2, <2>3, PromiseStutters
<1>3. ASSUME NEW r \in Request, Apply(r) PROVE UNCHANGED Promise!vars
  <2>1. pc[r] = "apply" /\ pc' = pc /\ files' = files /\ name' = name
    BY <1>3 DEF Apply
  <2>2. \A q \in Request : SameView(q)
    BY <1>3, <1>a, <2>1, ViewKept DEF Apply
  <2> QED
    BY <2>2, PromiseStutters
<1>4. ASSUME NEW r \in Request, Answer(r) PROVE UNCHANGED Promise!vars
  <2>1. /\ pc[r] = "apply" /\ pc'[r] = "answer" /\ files' = files /\ content' = content
        /\ name' = name /\ \A q \in Request \ {r} : pc'[q] = pc[q]
    BY <1>4, <1>t DEF Answer, Goto
  <2>2. \A q \in Request \ {r} : SameView(q)
    BY <2>1, ViewKept
  <2>3. SameView(r)
    BY <1>p, <2>1, UnpromisedView, PromisedView, PromisedViewAfter DEF SameView, Creating
  <2> QED
    BY <2>2, <2>3, PromiseStutters
<1>5. ASSUME NEW r \in Request, CreateFails(r) PROVE [Promise!Next]_(Promise!vars)
  <2>1. /\ pc[r] \in Creating /\ pc'[r] = "failed" /\ files' = files /\ name' = name
        /\ \A q \in Request \ {r} : pc'[q] = pc[q]
    BY <1>5, <1>t DEF CreateFails, Goto
  <2>2. \A q \in Request \ {r} : SameView(q)
    BY <1>5, <1>a, <2>1, ViewKept DEF CreateFails
  <2>3. CASE Promised(r)
    <3>1. /\ StatusOf(r) = "pending" /\ WantOf(r) = files[r] /\ GrantedOf(r) = Blank
      BY <2>1, <2>3, PromisedView DEF Creating
    <3>2. StatusOf(r)' = "refused" /\ WantOf(r)' = files[r] /\ GrantedOf(r)' = Blank
      BY <1>p, <2>1, <2>3, PromisedViewAfter
    <3> QED
      BY <2>2, <3>1, <3>2, PromiseRefuse
  <2>4. CASE ~Promised(r)
    BY <2>1, <2>2, <2>4, UnpromisedView, PromiseStutters
  <2> QED
    BY <2>3, <2>4
(* When the response arrives the database holds what was asked for, and no *)
(* test has written to it.                                                 *)
<1>6. ASSUME NEW r \in Request, Deliver(r) PROVE [Promise!Next]_(Promise!vars)
  <2>1. /\ pc[r] = "answer" /\ pc'[r] \in {"held", "lost"}
        /\ files' = files /\ name' = name /\ content' = content
        /\ \A q \in Request \ {r} : pc'[q] = pc[q]
    BY <1>6, <1>t DEF Deliver, Goto
  <2>2. \A q \in Request \ {r} : SameView(q)
    BY <2>1, ViewKept
  <2>3. CASE Promised(r)
    <3>1. StatusOf(r) = "pending" /\ WantOf(r) = files[r] /\ GrantedOf(r) = Blank
      BY <2>1, <2>3, PromisedView
    <3>2. Promised(r)' /\ WantOf(r)' = files[r]
      BY <1>p, <2>1, <2>3, PromisedViewAfter
    <3>3. CASE pc'[r] = "held"
      <4>1. content[Home[r]][name[r]] \in [applied : Seq(File), writers : SUBSET Request]
        <5>1. content[Home[r]][name[r]] \in Content
          BY <1>t
        <5> QED
          BY <5>1 DEF Content
      <4>2. content[Home[r]][name[r]].applied = files[r] /\ content[Home[r]][name[r]].writers = {}
        BY <2>1, <2>3 DEF DataInv, DataOf, Holds, Promised
      <4>3. content[Home[r]][name[r]] = [applied |-> files[r], writers |-> {}]
        BY <4>1, <4>2
      <4>4. StatusOf(r)' = "held" /\ GrantedOf(r)' = content[Home[r]][name[r]]
        BY <2>1, <3>2, <3>3, PromisedViewAfter
      <4> QED
        BY <2>2, <3>1, <3>2, <4>3, <4>4, PromiseGrant
    <3>4. CASE pc'[r] = "lost"
      <4>1. StatusOf(r)' = "refused" /\ GrantedOf(r)' = Blank
        BY <3>2, <3>4, PromisedViewAfter
      <4> QED
        BY <2>2, <3>1, <3>2, <4>1, PromiseRefuse
    <3> QED
      BY <2>1, <3>3, <3>4
  <2>4. CASE ~Promised(r)
    BY <2>1, <2>2, <2>4, UnpromisedView, PromiseStutters
  <2> QED
    BY <2>3, <2>4
<1>7. ASSUME NEW r \in Request, Write(r) PROVE [Promise!Next]_(Promise!vars)
  <2> DEFINE d == name[r]
             h == Home[r]
             c == [content[h][d] EXCEPT !.writers = @ \cup {r}]
  <2>1. pc[r] = "held" /\ pc' = pc /\ files' = files /\ name' = name
    BY <1>7 DEF Write
  <2>2. h \in Instance /\ d \in Database /\ content[h][d] \in Content
    BY <1>t
  <2>3. c \in Content /\ content' = [content EXCEPT ![h][d] = c]
    BY <1>7, <2>2 DEF Write, Content
  <2>4. /\ content'[h][d] = c
        /\ \A j \in Instance, e \in Database : e # d => content'[j][e] = content[j][e]
    <3> HIDE DEF c
    <3> QED
      BY <1>t, <2>2, <2>3, SetEffect
  <2>5. \A q \in Request \ {r} : SameView(q)
    BY <1>t, <1>d, <2>1, <2>4, ViewKept
  <2>6. CASE Promised(r)
    <3>1. StatusOf(r) = "held" /\ WantOf(r) = files[r] /\ GrantedOf(r) = content[h][d]
      BY <2>1, <2>6, PromisedView
    <3>2. StatusOf(r)' = "held" /\ WantOf(r)' = files[r] /\ GrantedOf(r)' = c
      <4> HIDE DEF c
      <4> QED
        BY <1>p, <2>1, <2>4, <2>6, PromisedViewAfter
    <3> QED
      BY <2>5, <3>1, <3>2, PromiseWrite
  <2>7. CASE ~Promised(r)
    BY <2>1, <2>5, <2>7, UnpromisedView, PromiseStutters
  <2> QED
    BY <2>6, <2>7
(* A repeated RemoveDB drops what nobody else has, so it goes unseen. *)
<1>8. ASSUME NEW r \in Request, RemoveDB(r) PROVE [Promise!Next]_(Promise!vars)
  <2>1. /\ pc[r] \in {"held"} \cup Released /\ pc'[r] \in Released
        /\ files' = files /\ name' = name
        /\ \A q \in Request \ {r} : pc'[q] = pc[q]
    BY <1>8, <1>t DEF RemoveDB, Goto, Released
  <2>2. \A j \in Instance, e \in Database : e # name[r] => content'[j][e] = content[j][e]
    <3>1. Blank \in Content
      BY DEF Blank, Content
    <3> QED
      BY <1>8, <1>t, <3>1, SetEffect DEF RemoveDB
  <2>3. \A q \in Request \ {r} : SameView(q)
    BY <1>t, <1>d, <2>1, <2>2, ViewKept
  <2>4. CASE Promised(r)
    <3>1. StatusOf(r)' = "removed" /\ WantOf(r)' = files[r] /\ GrantedOf(r)' = Blank
      BY <1>p, <2>1, <2>4, PromisedViewAfter DEF Released
    <3>2. CASE pc[r] = "held"
      <4>1. StatusOf(r) = "held" /\ WantOf(r) = files[r]
        BY <2>4, <3>2, PromisedView
      <4> QED
        BY <2>3, <3>1, <4>1, PromiseRemove
    <3>3. CASE pc[r] \in Released
      <4>1. StatusOf(r) = "removed" /\ WantOf(r) = files[r] /\ GrantedOf(r) = Blank
        BY <2>4, <3>3, PromisedView DEF Released
      <4> QED
        BY <2>3, <3>1, <4>1, PromiseStutters DEF SameView
    <3> QED
      BY <2>1, <3>2, <3>3
  <2>5. CASE ~Promised(r)
    BY <2>1, <2>3, <2>5, UnpromisedView, PromiseStutters
  <2> QED
    BY <2>4, <2>5
(* Start applies its files to the database nobody was given. *)
<1>9. ASSUME NEW k \in Instance, BootScript(k), UNCHANGED <<pc, files, name, next, removals>>
      PROVE  UNCHANGED Promise!vars
  <2> DEFINE f == BootFiles[k][bootNext[k]]
  <2>1. BootFiles[k] \in Seq(File) /\ bootNext[k] \in Nat \ {0} /\ bootNext[k] <= Len(BootFiles[k])
    BY <1>9, ScriptAssumption DEF BootScript, TypeOK
  <2>2. f \in File /\ applyJSScript(f, k, Admin, Instance) /\ Admin \in Database
    BY <1>9, <2>1 DEF BootScript, Database
  <2> HIDE DEF f
  <2>3. \A j \in Instance, e \in Database : e # Admin => content'[j][e] = content[j][e]
    BY <1>t, <2>2, ApplyLeaves, ContainersListed
  <2>4. \A q \in Request : pc[q] = "held" => name[q] # Admin
    BY <1>n, AdminAssumption DEF Named
  <2>5. pc' = pc /\ files' = files /\ name' = name
    BY <1>9 DEF BootScript
  <2>6. \A q \in Request : SameView(q)
    BY <1>t, <2>3, <2>4, <2>5, ViewKept
  <2> QED
    BY <2>6, PromiseStutters
<1>10. CASE UNCHANGED <<content, pc, files, name, next, removals, bootNext>>
  <2>1. \A q \in Request : SameView(q)
    BY <1>10, ViewKept DEF vars
  <2> QED
    BY <2>1, PromiseStutters
<1> QED
  BY <1>1, <1>2, <1>3, <1>4, <1>5, <1>6, <1>7, <1>8, <1>9, <1>10 DEF Next, Create, Test, BootApply, BootFails, vars

(* If no two requests read the same time, mongodb keeps the promise of     *)
(* database.Admin to every request whose scripts stay on its instance, for *)
(* any requests, instances, files and number of repeated removals, while   *)
(* other requests' scripts stray between the instances.                    *)
THEOREM KeepsPromise ==
    ASSUME Tie = FALSE
    PROVE  Spec => ImplementsPromise
<1>1. Init => Promise!Init
  <2> SUFFICES ASSUME Init PROVE Promise!Init
    OBVIOUS
  <2>1. \A r \in Request : StatusOf(r) = "idle" /\ WantOf(r) = <<>> /\ GrantedOf(r) = Promise!Blank
    BY DEF Init, StatusOf, WantOf, GrantedOf, Creating, Released, Blank, Promise!Blank
  <2> QED
    BY <2>1 DEF Promise!Init
<1>2. TypeOK /\ DataInv /\ [Next]_vars => DataInv'
  BY DataInvPreserved
<1>3. TypeOK /\ DataInv /\ [Next]_vars => [Promise!Next]_(Promise!vars)
  BY PromiseStep
<1> QED
  BY <1>1, <1>2, <1>3, DataInvInitially, TypeCorrect, PTL DEF Spec, ImplementsPromise, Promise!Spec
=============================================================================
