--------------------------- MODULE DiscoveryProofs ---------------------------
(***************************************************************************)
(* Proofs about Discovery, for any types, labels, ports, projects, command *)
(* lines, servers, requests and number of instances.                       *)
(***************************************************************************)
EXTENDS Discovery, SequenceTheorems, TLAPS

-----------------------------------------------------------------------------
(* Instances *)

(* Starting an instance adds one with a new id, on a free port. *)
LEMMA RunEffect ==
    ASSUME inst \in Seq(Instance), up \subseteq Id, NEW i \in Instance, Run(i)
    PROVE  /\ inst' \in Seq(Instance) /\ Len(inst') = Len(inst) + 1
           /\ up' \subseteq Id' /\ Id \subseteq Id'
           /\ Len(inst) + 1 \in Id' /\ Len(inst) + 1 \notin Id
           /\ up' = up \cup {Len(inst) + 1}
           /\ \A j \in Id : inst'[j] = inst[j]
           /\ inst'[Len(inst) + 1] = i
           /\ \A j \in up : inst[j].port # i.port
<1>1. Len(inst) \in Nat /\ Id = 1..Len(inst)
    BY DEF Id
<1>2. inst' = Append(inst, i) /\ up' = up \cup {Len(inst) + 1}
    BY DEF Run
<1>3. inst' \in Seq(Instance) /\ Len(inst') = Len(inst) + 1
    BY <1>2
<1>4. Id' = 1..(Len(inst) + 1)
    BY <1>3 DEF Id
<1>5. /\ \A j \in Id : inst'[j] = inst[j]
      /\ inst'[Len(inst) + 1] = i
    BY <1>1, <1>2
<1>6. \A j \in up : inst[j].port # i.port
    BY DEF Run, Free
<1>7. Id \subseteq Id' /\ Len(inst) + 1 \in Id' /\ Len(inst) + 1 \notin Id
    BY <1>1, <1>4
<1>8. up' \subseteq Id'
    BY <1>2, <1>7
<1> QED
    BY <1>2, <1>3, <1>5, <1>6, <1>7, <1>8

(* What every step does to the instances: those there were stay as they    *)
(* are, what runs ran before or is new, and no port is used twice.         *)
Growth ==
    /\ inst' \in Seq(Instance) /\ up' \subseteq Id' /\ Id \subseteq Id'
    /\ \A j \in Id : inst'[j] = inst[j]
    /\ up' \cap Id \subseteq up

UniquePorts == \A i, j \in up : inst[i].port = inst[j].port => i = j

LEMMA FlagType ==
    ASSUME NEW S, NEW given \in SUBSET S, NEW v \in S
    PROVE  Flag(given, v) \in S
BY DEF Flag

LEMMA ConstantSeq ==
    ASSUME NEW S, NEW v \in S, NEW n \in Nat
    PROVE  /\ [k \in 1..n |-> v] \in Seq(S)
           /\ Len([k \in 1..n |-> v]) = n
OBVIOUS

LEMMA UpdatedSeq ==
    ASSUME NEW S, NEW s \in Seq(S), NEW k, NEW v \in S
    PROVE  [s EXCEPT ![k] = v] \in Seq(S)
<1>1. CASE k \in 1..Len(s)
    BY <1>1, ExceptSeq
<1>2. CASE k \notin 1..Len(s)
  <2>1. [s EXCEPT ![k] = v] = s
      BY <1>2
  <2> QED
      BY <2>1
<1> QED
    BY <1>1, <1>2

LEMMA FoundType ==
    ASSUME NEW t, NEW l
    PROVE  \/ FindInstance(t, l) = None
           \/ /\ FindInstance(t, l) \in up
              /\ List(InstanceLabels(t, l)) = {FindInstance(t, l)}
BY DEF FindInstance

(* What is found has the type and the label, and is the only one. *)
LEMMA FoundFits ==
    ASSUME NEW t, NEW l, NEW i, i = FindInstance(t, l), i # None
    PROVE  i \in up /\ Fits(i, t, l) /\ \A j \in up : Fits(j, t, l) => j = i
<1>1. i \in up /\ List(InstanceLabels(t, l)) = {i}
    BY FoundType
<1>2. List(InstanceLabels(t, l)) = {j \in up : Fits(j, t, l)}
    BY DEF List, InstanceLabels, Fits
<1> QED
    BY <1>1, <1>2

-----------------------------------------------------------------------------
(* Types *)

LEMMA InitTypeOK == Init => TypeOK
<1> SUFFICES ASSUME Init PROVE TypeOK
    OBVIOUS
<1>1. PICK t0 \in Type : TRUE
    BY DiscoveryAssumption
<1>2. DefaultPort[t0] \in Port
    BY <1>1, DiscoveryAssumption
<1>3. /\ (CHOOSE s \in Server : TRUE) \in Server /\ (CHOOSE t \in Type : TRUE) \in Type
      /\ (CHOOSE p \in Port : TRUE) \in Port
    BY <1>1, <1>2, DiscoveryAssumption DEF Server
<1>4. NoRequest \in RequestState
    BY <1>3 DEF NoRequest, RequestState, ReqPC, None
<1>a. inst = <<>> /\ up = {}
    BY DEF Init
<1>5. inst \in Seq(Instance) /\ up \subseteq Id
    BY <1>a
<1>6. DefaultPort \in [Type -> Port \cup {0}]
    BY DiscoveryAssumption
<1>7. req \in [Request -> RequestState] /\ port \in [Project -> [Type -> Port \cup {0}]]
    BY <1>4, <1>6 DEF Init
<1>d. pc \in [Project -> {"idle", "start", "ready", "failed"}]
    BY DEF Init
<1>f. 1 \in Nat \ {0}
    OBVIOUS
<1>e. next \in [Project -> Nat \ {0}]
    BY <1>f DEF Init
<1>8. label \in [Project -> Label]
    BY DiscoveryAssumption DEF Init
<1>9. <<>> \in Seq(Arg)
    OBVIOUS
<1>b. list \in [Project -> Seq(Arg)]
    BY <1>9 DEF Init
<1>c. seen \in [Project -> SUBSET Id] /\ known \in [Project -> [Type -> Id \cup {None}]]
    BY DEF Init
<1>g. <<>> \in Seq(Id \cup {None})
    OBVIOUS
<1>h. own \in [Project -> Seq(Id \cup {None})]
    BY <1>g DEF Init
<1>i. secured \in [Project -> [Type -> BOOLEAN]]
    BY DEF Init
<1> QED
    BY <1>5, <1>7, <1>8, <1>b, <1>c, <1>d, <1>e, <1>h, <1>i DEF TypeOK

LEMMA WantedType == \A p, c : Wanted(p, c) \subseteq Instance
BY DEF Wanted

(* The connection details of a request are complete. *)
LEMMA AppliedType ==
    ASSUME TypeOK, NEW s \in Server, NEW t \in Type, NEW e \in Port \cup {0}
    PROVE  applyInstance(s, t, e) \in RequestState
<1> DEFINE via == instanceFor(s, t)
           described == via # None /\ inst[via].described
           pt == IF e # 0 THEN e ELSE IF described THEN inst[via].port ELSE DefaultPort[t]
           sec == described /\ inst[via].secured
           ex == (e # 0)
           q == [pc |-> "connect", server |-> s, type |-> t, explicit |-> ex, via |-> via,
                 port |-> pt, secured |-> sec, at |-> None, droppedAt |-> None]
<1>2. via \in Id \cup {None}
    BY FoundType DEF instanceFor, TypeOK, Server
<1>3. via # None => inst[via] \in Instance
    BY <1>2 DEF TypeOK, Id, None
<1>4. pt \in Port
    BY <1>3, DiscoveryAssumption DEF Instance
<1>5. via \in Nat /\ None \in Nat
    BY <1>2 DEF Id, None
<1>6. sec \in BOOLEAN /\ ex \in BOOLEAN
    BY <1>3 DEF Instance
<1>7. applyInstance(s, t, e) = q
    BY DEF applyInstance
<1> HIDE DEF pt, sec, ex, via
<1>8. q \in RequestState
    BY <1>4, <1>5, <1>6 DEF RequestState, ReqPC
<1> QED
    BY <1>7, <1>8

(* Every step only adds instances and stops some. *)
LEMMA NextGrowth ==
    ASSUME TypeOK, [Next]_vars
    PROVE  Growth
<1>0. inst \in Seq(Instance) /\ up \subseteq Id
    BY DEF TypeOK
<1>1. CASE UNCHANGED <<inst, up>>
    BY <1>0, <1>1 DEF Growth, Id
<1>2. CASE \E i \in Instance : Run(i)
    BY <1>0, <1>2, RunEffect DEF Growth
<1>3. CASE Stop
    BY <1>0, <1>3 DEF Stop, Growth, Id
<1>4. CASE StartOther
    BY <1>2, <1>4, DiscoveryAssumption DEF StartOther
<1>5. ASSUME NEW p \in Project, Testing(p) PROVE Growth
    BY <1>1, <1>2, <1>5, WantedType
    DEF Testing, Begin, Separator, StartDatabase, StartFails, StartServer
<1>6. ASSUME NEW r \in Request, CreateDB(r) \/ Connect(r) \/ RemoveDB(r) PROVE Growth
    BY <1>1, <1>6 DEF CreateDB, Connect, RemoveDB
<1> QED
    BY <1>1, <1>3, <1>4, <1>5, <1>6 DEF Next, vars

(* The parts of the state that refer to instances keep their type. *)
LEMMA RefsType ==
    ASSUME TypeOK, Growth
    PROVE  /\ own \in [Project -> Seq(Id' \cup {None})]
           /\ seen \in [Project -> SUBSET Id']
           /\ known \in [Project -> [Type -> Id' \cup {None}]]
<1>1. Id \subseteq Id'
    BY DEF Growth
<1>2. \A s \in Seq(Id \cup {None}) : s \in Seq(Id' \cup {None})
    BY <1>1
<1>3. own \in [Project -> Seq(Id' \cup {None})]
    BY <1>2 DEF TypeOK
<1> QED
    BY <1>1, <1>3 DEF TypeOK

LEMMA NextTypeOK == TypeOK /\ [Next]_vars => TypeOK'
<1> SUFFICES ASSUME TypeOK, [Next]_vars PROVE TypeOK'
    OBVIOUS
<1>1. Growth
    BY NextGrowth
<1>2. /\ own \in [Project -> Seq(Id' \cup {None})]
      /\ seen \in [Project -> SUBSET Id']
      /\ known \in [Project -> [Type -> Id' \cup {None}]]
    BY <1>1, RefsType
<1>3. inst' \in Seq(Instance) /\ up' \subseteq Id'
    BY <1>1 DEF Growth
<1>4. CASE StartOther \/ Stop \/ UNCHANGED vars
    BY <1>2, <1>3, <1>4 DEF StartOther, Stop, vars, flags, TypeOK
<1>5. ASSUME NEW p \in Project, Begin(p) PROVE TypeOK'
  <2>1. PICK c \in CommandLines[p] :
          /\ list' = [list EXCEPT ![p] = c.args]
          /\ label' = [label EXCEPT ![p] = Flag(c.label, "")]
          /\ own' = [own EXCEPT ![p] = [k \in 1..Len(c.args) |-> None]]
      BY <1>5 DEF Begin
  <2>a. c \in CommandLine
      BY <2>1, DiscoveryAssumption
  <2>2. c.args \in Seq(Arg) /\ c.label \in SUBSET Label /\ "" \in Label
      BY <2>a, DiscoveryAssumption DEF CommandLine
  <2>3. Flag(c.label, "") \in Label
      BY <2>2, FlagType
  <2>4. DefaultPort \in [Type -> Port \cup {0}]
      BY DiscoveryAssumption
  <2>5. /\ list' \in [Project -> Seq(Arg)] /\ label' \in [Project -> Label]
        /\ port' \in [Project -> [Type -> Port \cup {0}]]
        /\ secured' \in [Project -> [Type -> BOOLEAN]]
        /\ own' \in [Project -> Seq(Id' \cup {None})] /\ next' \in [Project -> Nat \ {0}]
        /\ pc' \in [Project -> {"idle", "start", "ready", "failed"}]
    <3>1. list' \in [Project -> Seq(Arg)] /\ label' \in [Project -> Label]
        BY <2>1, <2>2, <2>3 DEF TypeOK
    <3>2. port' \in [Project -> [Type -> Port \cup {0}]]
        BY <1>5, <2>4 DEF Begin, TypeOK
    <3>7. [k \in 1..Len(c.args) |-> None] \in Seq(Id' \cup {None})
      <4>1. Len(c.args) \in Nat
          BY <2>2, LenProperties
      <4>2. None \in Id' \cup {None}
          BY DEF None
      <4> QED
          BY <4>1, <4>2, ConstantSeq
    <3>3. own' \in [Project -> Seq(Id' \cup {None})]
        BY <1>2, <2>1, <3>7
    <3>8. secured' \in [Project -> [Type -> BOOLEAN]]
        BY <1>5 DEF Begin, TypeOK
    <3>6. 1 \in Nat \ {0}
        OBVIOUS
    <3>4. next' \in [Project -> Nat \ {0}]
        BY <1>5, <3>6 DEF Begin, TypeOK
    <3>5. pc' \in [Project -> {"idle", "start", "ready", "failed"}]
        BY <1>5 DEF Begin, TypeOK
    <3> QED
        BY <3>1, <3>2, <3>3, <3>4, <3>5, <3>8
  <2> QED
      BY <1>2, <1>3, <1>5, <2>5 DEF Begin, TypeOK
<1>6. ASSUME NEW p \in Project, Separator(p) PROVE TypeOK'
    BY <1>2, <1>3, <1>6 DEF Separator, flags, TypeOK
<1>7. ASSUME NEW p \in Project, AtDatabase(p), SetFlags(p, list[p][next[p]])
      PROVE  /\ label' \in [Project -> Label] /\ port' \in [Project -> [Type -> Port \cup {0}]]
             /\ secured' \in [Project -> [Type -> BOOLEAN]]
  <2> DEFINE c == list[p][next[p]]
  <2>1. c \in Arg /\ c.type # "-"
      BY <1>7 DEF AtDatabase, TypeOK
  <2>2. /\ c.type \in Type /\ c.label \in SUBSET Label /\ c.port \in SUBSET (Port \cup {0})
        /\ c.secured \in SUBSET BOOLEAN
      BY <2>1 DEF Arg
  <2>3. /\ label[p] \in Label /\ port[p] \in [Type -> Port \cup {0}]
        /\ port[p][c.type] \in Port \cup {0}
        /\ secured[p] \in [Type -> BOOLEAN] /\ secured[p][c.type] \in BOOLEAN
      BY <2>2 DEF TypeOK
  <2>4. Flag(c.label, label[p]) \in Label /\ Flag(c.port, port[p][c.type]) \in Port \cup {0}
      BY <2>2, <2>3, FlagType
  <2>5. Flag(c.secured, secured[p][c.type]) \in BOOLEAN
      BY <2>2, <2>3 DEF Flag
  <2>6. label' \in [Project -> Label] /\ port' \in [Project -> [Type -> Port \cup {0}]]
      BY <1>7, <2>2, <2>3, <2>4 DEF SetFlags, TypeOK
  <2>7. secured' \in [Project -> [Type -> BOOLEAN]]
    <3>1. PICK b \in BOOLEAN : b = Flag(c.secured, secured[p][c.type])
        BY <2>5
    <3>2. secured' = [secured EXCEPT ![p][c.type] = b]
        BY <1>7, <3>1 DEF SetFlags
    <3> QED
        BY <3>1, <3>2 DEF TypeOK
  <2> QED
      BY <2>6, <2>7
<1>8. ASSUME NEW p \in Project, StartDatabase(p) PROVE TypeOK'
  <2>1. PICK i \in Instance : Run(i)
      BY <1>8, WantedType DEF StartDatabase
  <2>2. Len(inst) + 1 \in Id'
      BY <2>1, RunEffect DEF TypeOK
  <2>6. next[p] \in 1..Len(list[p]) /\ next[p] \in Nat
      BY <1>8 DEF StartDatabase, AtDatabase, TypeOK
  <2>7. [own[p] EXCEPT ![next[p]] = Len(inst) + 1] \in Seq(Id' \cup {None})
    <3>1. own[p] \in Seq(Id' \cup {None}) /\ Len(inst) + 1 \in Id' \cup {None}
        BY <1>2, <2>2
    <3> QED
        BY <3>1, UpdatedSeq
  <2>3. own' \in [Project -> Seq(Id' \cup {None})]
      BY <1>2, <1>8, <2>7 DEF StartDatabase
  <2>4. next' \in [Project -> Nat \ {0}]
      BY <1>8 DEF StartDatabase, TypeOK
  <2>5. /\ label' \in [Project -> Label] /\ port' \in [Project -> [Type -> Port \cup {0}]]
        /\ secured' \in [Project -> [Type -> BOOLEAN]]
      BY <1>7, <1>8 DEF StartDatabase
  <2> QED
      BY <1>2, <1>3, <1>8, <2>3, <2>4, <2>5 DEF StartDatabase, TypeOK
<1>9. ASSUME NEW p \in Project, StartFails(p) PROVE TypeOK'
  <2>1. /\ label' \in [Project -> Label] /\ port' \in [Project -> [Type -> Port \cup {0}]]
        /\ secured' \in [Project -> [Type -> BOOLEAN]]
      BY <1>7, <1>9 DEF StartFails
  <2> QED
      BY <1>2, <1>3, <1>9, <2>1 DEF StartFails, TypeOK
<1>a. ASSUME NEW p \in Project, StartServer(p) PROVE TypeOK'
  <2>1. Id' = Id
      BY <1>a DEF StartServer, Id
  <2>2. \A t \in Type : FindInstance(t, label[p]) \in Id' \cup {None}
      BY <2>1, FoundType DEF TypeOK
  <2>3. known' \in [Project -> [Type -> Id' \cup {None}]]
    <3>1. CASE UNCHANGED known
        BY <1>2, <3>1
    <3>2. CASE known' = [known EXCEPT ![p] = [t \in Type |-> FindInstance(t, label[p])]]
        BY <1>2, <2>2, <3>2
    <3> QED
        BY <1>a, <3>1, <3>2 DEF StartServer
  <2>4. seen' \in [Project -> SUBSET Id']
      BY <1>2, <1>3, <1>a DEF StartServer
  <2> QED
      BY <1>2, <1>3, <1>a, <2>3, <2>4 DEF StartServer, flags, TypeOK
<1>b. ASSUME NEW r \in Request, CreateDB(r) \/ Connect(r) \/ RemoveDB(r) PROVE TypeOK'
  <2>1. req' \in [Request -> RequestState]
    <3>1. up \subseteq Nat
        BY DEF TypeOK, Id
    <3>a. req[r] \in RequestState
        BY DEF TypeOK
    <3>2. CASE CreateDB(r)
      <4>1. PICK s \in Server, t \in Type, e \in Port \cup {0} :
              req' = [req EXCEPT ![r] = applyInstance(s, t, e)]
          BY <3>2 DEF CreateDB
      <4>2. applyInstance(s, t, e) \in RequestState
          BY AppliedType
      <4> QED
          BY <4>1, <4>2 DEF TypeOK
    <3>3. CASE Connect(r)
      <4>1. CASE req' = [req EXCEPT ![r].pc = "failed"]
        <5> DEFINE q == [req[r] EXCEPT !.pc = "failed"]
        <5>1. q \in RequestState
            BY <3>a DEF RequestState, ReqPC
        <5>2. req' = [req EXCEPT ![r] = q]
            BY <4>1 DEF TypeOK
        <5> QED
            BY <5>1, <5>2 DEF TypeOK
      <4>2. ASSUME NEW i \in up, req' = [req EXCEPT ![r].pc = "held", ![r].at = i]
            PROVE  req' \in [Request -> RequestState]
        <5> DEFINE q == [req[r] EXCEPT !.pc = "held", !.at = i]
        <5>1. q \in RequestState
            BY <3>1, <3>a, <4>2 DEF RequestState, ReqPC
        <5>2. req' = [req EXCEPT ![r] = q]
            BY <4>2 DEF TypeOK
        <5> QED
            BY <5>1, <5>2 DEF TypeOK
      <4> QED
          BY <3>3, <4>1, <4>2 DEF Connect
    <3>4. CASE RemoveDB(r)
      <4>1. PICK i \in up : req' = [req EXCEPT ![r].pc = "removed", ![r].droppedAt = i]
          BY <3>4 DEF RemoveDB
      <4> DEFINE q == [req[r] EXCEPT !.pc = "removed", !.droppedAt = i]
      <4>2. q \in RequestState
          BY <3>1, <3>a DEF RequestState, ReqPC
      <4>3. req' = [req EXCEPT ![r] = q]
          BY <4>1 DEF TypeOK
      <4> QED
          BY <4>2, <4>3 DEF TypeOK
    <3> QED
        BY <1>b, <3>2, <3>3, <3>4
  <2> QED
      BY <1>2, <1>3, <1>b, <2>1 DEF CreateDB, Connect, RemoveDB, flags, TypeOK
<1> QED
    BY <1>4, <1>5, <1>6, <1>8, <1>9, <1>a, <1>b DEF Next, Testing

(* Every state of Discovery is well typed: nothing refers to an instance   *)
(* that was never started.                                                 *)
THEOREM TypeCorrect == Spec => []TypeOK
BY InitTypeOK, NextTypeOK, PTL DEF Spec

-----------------------------------------------------------------------------
(* The inductive invariant *)

(* Argument k of the testing command of p has an instance of its own. *)
Started(p, k) ==
    /\ own[p][k] \in Id
    /\ inst[own[p][k]].described
    /\ AsAsked(own[p][k], list[p][k])

(* What the testing command of p has started, and what its server knows. *)
ProjInv(p) ==
    /\ Len(own[p]) = Len(list[p])
    /\ pc[p] = "ready" => next[p] > Len(list[p])
    /\ pc[p] \in {"start", "ready"} => \A k \in Databases(p) : k < next[p] => Started(p, k)
    /\ \A k, m \in DOMAIN own[p] : own[p][k] = own[p][m] /\ own[p][k] # None => k = m
    /\ pc[p] = "ready" =>
        \A t \in Type :
            /\ known[p][t] # None => Fits(known[p][t], t, label[p])
            /\ \A i : OnlyOne(p, t, i) => known[p][t] = i

(* What was found for a request, where it connects and what it reached. *)
ReqInv(r) ==
    LET q == req[r] IN
    q.pc # "idle" =>
        /\ q.server \in Project => pc[q.server] = "ready"
        /\ q.server \in Project => q.via = known[q.server][q.type]
        /\ q.via \in Id \cup {None}
        /\ q.via # None =>
            /\ inst[q.via].type = q.type
            /\ ServerLabel(q.server) \in {"", inst[q.via].label}
            /\ ~q.explicit /\ inst[q.via].described => q.port = inst[q.via].port
        /\ Served(r) =>
            /\ q.at \in Id /\ inst[q.at].port = q.port
            /\ ~q.explicit /\ q.via \in up /\ inst[q.via].described => q.at = q.via
        /\ q.pc = "removed" /\ q.at \in up => q.droppedAt = q.at

Inv ==
    /\ TypeOK
    /\ UniquePorts
    /\ \A p \in Project : ProjInv(p)
    /\ \A r \in Request : ReqInv(r)

LEMMA InitInv == Init => Inv
<1> SUFFICES ASSUME Init PROVE Inv
    OBVIOUS
<1>1. TypeOK
    BY InitTypeOK
<1>2. UniquePorts
    BY DEF Init, UniquePorts
<1>3. ASSUME NEW p \in Project PROVE ProjInv(p)
  <2>1. own[p] = <<>> /\ list[p] = <<>> /\ pc[p] = "idle"
      BY DEF Init
  <2> QED
      BY <2>1 DEF ProjInv
<1>4. \A r \in Request : ReqInv(r)
    BY DEF Init, ReqInv, NoRequest
<1> QED
    BY <1>1, <1>2, <1>3, <1>4 DEF Inv

LEMMA UniqueAfterRun ==
    ASSUME TypeOK, UniquePorts, NEW i \in Instance, Run(i)
    PROVE  UniquePorts'
<1>1. /\ up \subseteq Id /\ inst \in Seq(Instance)
    BY DEF TypeOK
<1> DEFINE n == Len(inst) + 1
<1>2. /\ up' = up \cup {n} /\ n \notin Id
      /\ \A j \in Id : inst'[j] = inst[j]
      /\ inst'[n] = i
      /\ \A j \in up : inst[j].port # i.port
    BY <1>1, RunEffect
<1> HIDE DEF n
<1> QED
    BY <1>1, <1>2 DEF UniquePorts

LEMMA NextUnique ==
    ASSUME TypeOK, UniquePorts, [Next]_vars
    PROVE  UniquePorts'
<1>1. CASE UNCHANGED <<inst, up>>
    BY <1>1 DEF UniquePorts
<1>2. CASE \E i \in Instance : Run(i)
    BY <1>2, UniqueAfterRun
<1>3. CASE Stop
    BY <1>3 DEF Stop, UniquePorts
<1>4. CASE StartOther
    BY <1>2, <1>4, DiscoveryAssumption DEF StartOther
<1>5. ASSUME NEW p \in Project, Testing(p) PROVE UniquePorts'
    BY <1>1, <1>2, <1>5, WantedType
    DEF Testing, Begin, Separator, StartDatabase, StartFails, StartServer
<1>6. ASSUME NEW r \in Request, CreateDB(r) \/ Connect(r) \/ RemoveDB(r) PROVE UniquePorts'
    BY <1>1, <1>6 DEF CreateDB, Connect, RemoveDB
<1> QED
    BY <1>1, <1>3, <1>4, <1>5, <1>6 DEF Next, vars

(* What was started for an argument stays. *)
LEMMA StartedStays ==
    ASSUME Growth, NEW p \in Project, NEW k, Started(p, k),
           list'[p] = list[p], own'[p][k] = own[p][k]
    PROVE  Started(p, k)'
<1>1. own[p][k] \in Id' /\ inst'[own[p][k]] = inst[own[p][k]]
    BY DEF Started, Growth
<1>2. inst'[own[p][k]].described /\ own'[p][k] \in Id'
    BY <1>1 DEF Started
<1>3. AsAsked(own[p][k], list[p][k])'
    BY <1>1 DEF Started, AsAsked
<1> QED
    BY <1>2, <1>3 DEF Started

(* A project that takes no step stays as it is, whatever else happens. *)
LEMMA ProjStable ==
    ASSUME TypeOK, Growth, NEW p \in Project, ProjInv(p),
           pc'[p] = pc[p], list'[p] = list[p], next'[p] = next[p], label'[p] = label[p],
           own'[p] = own[p], seen'[p] = seen[p], known'[p] = known[p]
    PROVE  ProjInv(p)'
<1>1. /\ seen[p] \subseteq Id
      /\ \A t \in Type : known[p][t] \in Id \cup {None}
      /\ \A j \in Id : inst'[j] = inst[j]
    BY DEF TypeOK, Growth
<1>2. \A k : Started(p, k) => Started(p, k)'
    BY StartedStays
<1>3. Databases(p)' = Databases(p)
    BY DEF Databases
<1>4. \A t, l : \A j \in Id : Fits(j, t, l)' <=> Fits(j, t, l)
    BY <1>1 DEF Fits
<1>5. ASSUME NEW t \in Type, NEW i PROVE OnlyOne(p, t, i)' <=> OnlyOne(p, t, i)
    BY <1>1 DEF OnlyOne, Fits
<1>6. ASSUME pc'[p] \in {"start", "ready"}, NEW k \in Databases(p)', k < next'[p]
      PROVE  Started(p, k)'
    BY <1>2, <1>3, <1>6 DEF ProjInv
<1>7. ASSUME pc'[p] = "ready", NEW t \in Type
      PROVE  /\ known'[p][t] # None => Fits(known[p][t], t, label[p])'
             /\ \A i : OnlyOne(p, t, i)' => known'[p][t] = i
  <2>1. /\ known[p][t] # None => Fits(known[p][t], t, label[p])
        /\ \A i : OnlyOne(p, t, i) => known[p][t] = i
      BY <1>7 DEF ProjInv
  <2>2. known[p][t] # None => Fits(known[p][t], t, label[p])'
    <3>1. known[p][t] # None => inst'[known[p][t]] = inst[known[p][t]]
        BY <1>1
    <3> QED
        BY <2>1, <3>1 DEF Fits
  <2> QED
      BY <1>5, <2>1, <2>2
<1>8. /\ Len(own'[p]) = Len(list'[p])
      /\ pc'[p] = "ready" => next'[p] > Len(list'[p])
      /\ \A k, m \in DOMAIN own'[p] : own'[p][k] = own'[p][m] /\ own'[p][k] # None => k = m
    BY DEF ProjInv
<1> QED
    BY <1>6, <1>7, <1>8 DEF ProjInv, None

LEMMA NextProjInv ==
    ASSUME Inv, [Next]_vars, NEW p \in Project
    PROVE  ProjInv(p)'
<1>1. TypeOK /\ ProjInv(p) /\ Growth
    BY NextGrowth DEF Inv
<1>2. CASE ~\E o \in Project : Testing(o)
  <2>1. UNCHANGED <<pc, list, next, label, own, seen, known>>
      BY <1>2 DEF Next, vars, flags, StartOther, Stop, CreateDB, Connect, RemoveDB
  <2> QED
      BY <1>1, <2>1, ProjStable
<1>3. ASSUME NEW o \in Project, Testing(o), o # p PROVE ProjInv(p)'
  <2>1. /\ pc'[p] = pc[p] /\ list'[p] = list[p] /\ next'[p] = next[p] /\ label'[p] = label[p]
        /\ own'[p] = own[p] /\ seen'[p] = seen[p] /\ known'[p] = known[p]
      BY <1>1, <1>3 DEF Testing, Begin, Separator, StartDatabase, StartFails, StartServer,
         SetFlags, flags, TypeOK
  <2> QED
      BY <1>1, <2>1, ProjStable
<1>4. CASE Begin(p)
  <2>1. PICK c \in CommandLines[p] :
          /\ list' = [list EXCEPT ![p] = c.args]
          /\ own' = [own EXCEPT ![p] = [k \in 1..Len(c.args) |-> None]]
      BY <1>4 DEF Begin
  <2>2. list'[p] = c.args /\ own'[p] = [k \in 1..Len(c.args) |-> None]
      BY <1>1, <2>1 DEF TypeOK
  <2>3. pc'[p] = "start" /\ next'[p] = 1
      BY <1>1, <1>4 DEF Begin, TypeOK
  <2>4. list'[p] \in Seq(Arg)
      BY <1>1, NextTypeOK DEF TypeOK
  <2>5. c.args \in Seq(Arg) /\ Len(c.args) \in Nat
      BY <2>2, <2>4, LenProperties
  <2>6. Len(own'[p]) = Len(list'[p])
      BY <2>2, <2>5, ConstantSeq
  <2>7. \A k \in DOMAIN own'[p] : own'[p][k] = None
      BY <2>2
  <2>8. \A k \in Databases(p)' : ~(k < next'[p])
      BY <2>3, <2>4 DEF Databases
  <2> QED
      BY <2>3, <2>6, <2>7, <2>8 DEF ProjInv, None
<1>5. CASE Separator(p)
  <2>1. /\ pc'[p] = "start" /\ pc[p] = "start" /\ next'[p] = next[p] + 1
        /\ list' = list /\ own' = own /\ inst' = inst
        /\ list[p][next[p]].type = "-" /\ next[p] \in Nat /\ list[p] \in Seq(Arg)
      BY <1>1, <1>5 DEF Separator, TypeOK
  <2>2. ASSUME NEW k \in Databases(p)', k < next'[p] PROVE Started(p, k)'
    <3>1. k \in Databases(p) /\ k # next[p] /\ k \in Nat
        BY <2>1, <2>2 DEF Databases
    <3>2. k < next[p]
        BY <2>1, <2>2, <3>1
    <3>3. Started(p, k)
        BY <1>1, <2>1, <3>1, <3>2 DEF ProjInv
    <3> QED
        BY <1>1, <2>1, <3>3, StartedStays
  <2> QED
      BY <1>1, <2>1, <2>2 DEF ProjInv
<1>6. CASE StartDatabase(p)
  <2> DEFINE c == list[p][next[p]]  n == Len(inst) + 1
  <2>1. PICK i \in Wanted(p, c) : Run(i)
      BY <1>6 DEF StartDatabase
  <2>2. i \in Instance /\ inst'[n] = i /\ n \in Id' /\ n \notin Id
      BY <1>1, <2>1, WantedType, RunEffect DEF TypeOK
  <2>3. /\ pc'[p] = "start" /\ pc[p] = "start" /\ next'[p] = next[p] + 1
        /\ list' = list /\ next[p] \in 1..Len(list[p]) /\ next[p] \in Nat
        /\ list[p] \in Seq(Arg) /\ own[p] \in Seq(Id \cup {None})
        /\ own'[p] = [own[p] EXCEPT ![next[p]] = n]
      BY <1>1, <1>6 DEF StartDatabase, AtDatabase, TypeOK
  <2>4. n # None /\ DOMAIN own[p] = 1..Len(list[p])
      BY <1>1, <2>2, <2>3 DEF ProjInv, Id, None
  <2>5. /\ own'[p][next[p]] = n /\ DOMAIN own'[p] = DOMAIN own[p]
        /\ Len(own'[p]) = Len(list[p])
        /\ \A k \in DOMAIN own[p] : k # next[p] => own'[p][k] = own[p][k]
      BY <1>1, <2>3, <2>4, ExceptSeq DEF ProjInv
  <2>6. /\ inst'[n].described /\ inst'[n].type = c.type
        /\ c.label = {} \/ inst'[n].label \in c.label
        /\ c.port = {} \/ 0 \in c.port \/ inst'[n].port \in c.port
        /\ c.secured = {} \/ inst'[n].secured \in c.secured
    <3>1. /\ i.type = c.type /\ i.label = Flag(c.label, label[p]) /\ i.described
          /\ Flag(c.port, port[p][c.type]) \in {0, i.port}
          /\ i.secured = Flag(c.secured, secured[p][c.type])
        BY <2>1 DEF Wanted
    <3>2. \A g, v : g # {} => Flag(g, v) \in g
        BY DEF Flag
    <3> HIDE DEF c
    <3>3. c.label = {} \/ i.label \in c.label
        BY <3>1, <3>2, Zenon
    <3>4. c.port = {} \/ 0 \in c.port \/ i.port \in c.port
      <4>1. c.port # {} => Flag(c.port, port[p][c.type]) \in c.port
          BY <3>2, Zenon
      <4>2. Flag(c.port, port[p][c.type]) = 0 \/ Flag(c.port, port[p][c.type]) = i.port
          BY <3>1
      <4> QED
          BY <4>1, <4>2, Zenon
    <3>5. c.secured = {} \/ i.secured \in c.secured
      <4>1. c.secured # {} => Flag(c.secured, secured[p][c.type]) \in c.secured
          BY <3>2, Zenon
      <4>2. i.secured = Flag(c.secured, secured[p][c.type])
          BY <3>1
      <4> QED
          BY <4>1, <4>2
    <3> QED
        BY <2>2, <3>1, <3>3, <3>4, <3>5, Zenon
  <2> HIDE DEF n
  <2>7. ASSUME NEW k \in Databases(p)', k < next'[p] PROVE Started(p, k)'
    <3>1. k \in Databases(p) /\ k \in DOMAIN own[p] /\ k \in Nat
        BY <2>3, <2>4, <2>7 DEF Databases
    <3>2. CASE k = next[p]
      <4>1. own'[p][k] = n /\ list'[p][k] = c
          BY <2>3, <2>5, <3>2
      <4> HIDE DEF c
      <4>2. AsAsked(own[p][k], list[p][k])'
          BY <2>6, <4>1, Zenon DEF AsAsked
      <4>3. own'[p][k] \in Id' /\ inst'[own'[p][k]].described
          BY <2>2, <2>6, <4>1, Zenon
      <4> QED
          BY <4>2, <4>3 DEF Started
    <3>3. CASE k # next[p]
      <4>1. k < next[p]
          BY <2>3, <2>7, <3>1, <3>3
      <4>2. Started(p, k) /\ own'[p][k] = own[p][k]
          BY <1>1, <2>3, <2>5, <3>1, <3>3, <4>1 DEF ProjInv
      <4> QED
          BY <1>1, <2>3, <4>2, StartedStays
    <3> QED
        BY <3>2, <3>3
  <2>8. \A k, m \in DOMAIN own'[p] : own'[p][k] = own'[p][m] /\ own'[p][k] # None => k = m
    <3>1. \A k \in DOMAIN own[p] : own[p][k] # n
        BY <2>2, <2>3, <2>4
    <3> QED
        BY <1>1, <2>5, <3>1 DEF ProjInv
  <2> QED
      BY <2>3, <2>5, <2>7, <2>8 DEF ProjInv
<1>7. CASE StartFails(p)
  <2>1. pc'[p] = "failed" /\ own' = own /\ list' = list
      BY <1>1, <1>7 DEF StartFails, TypeOK
  <2> QED
      BY <1>1, <2>1 DEF ProjInv
<1>8. CASE StartServer(p)
  <2>1. /\ inst' = inst /\ up' = up /\ list' = list /\ next' = next /\ label' = label
        /\ own' = own /\ pc[p] = "start" /\ next[p] > Len(list[p])
      BY <1>8 DEF StartServer, flags
  <2>2. CASE pc' = [pc EXCEPT ![p] = "failed"]
      BY <1>1, <2>1, <2>2 DEF ProjInv, TypeOK
  <2>3. CASE /\ known' = [known EXCEPT ![p] = [t \in Type |-> FindInstance(t, label[p])]]
             /\ seen' = [seen EXCEPT ![p] = up]
             /\ pc' = [pc EXCEPT ![p] = "ready"]
    <3>1. /\ pc'[p] = "ready" /\ seen'[p] = up
          /\ \A t \in Type : known'[p][t] = FindInstance(t, label[p])
        BY <1>1, <2>3 DEF TypeOK
    <3>2. ASSUME NEW t \in Type, known'[p][t] # None
          PROVE  Fits(known'[p][t], t, label[p])
      <4>1. known'[p][t] = FindInstance(t, label[p])
          BY <3>1
      <4> QED
          BY <3>2, <4>1, FoundFits
    <3>3. ASSUME NEW t \in Type, NEW i, OnlyOne(p, t, i)' PROVE known'[p][t] = i
      <4>1. {j \in up : Fits(j, t, label[p])} = {i}
          BY <2>1, <3>1, <3>3 DEF OnlyOne, Fits
      <4>2. List(InstanceLabels(t, label[p])) = {i} /\ i \in up
          BY <4>1 DEF List, InstanceLabels, Fits
      <4> QED
          BY <3>1, <4>2 DEF FindInstance
    <3>4. ASSUME NEW t \in Type, known'[p][t] # None PROVE Fits(known[p][t], t, label[p])'
        BY <2>1, <3>2, <3>4 DEF Fits
    <3>5. \A k \in Databases(p)' : k < next'[p] => Started(p, k)'
        BY <1>1, <2>1, StartedStays DEF ProjInv, Databases
    <3> QED
        BY <1>1, <2>1, <3>1, <3>3, <3>4, <3>5 DEF ProjInv, None
  <2> QED
      BY <1>8, <2>2, <2>3 DEF StartServer
<1> QED
    BY <1>2, <1>3, <1>4, <1>5, <1>6, <1>7, <1>8 DEF Testing

(* A server that is up is not started again and keeps its label and what   *)
(* it was told.                                                            *)
LEMMA ReadyStays ==
    ASSUME TypeOK, [Next]_vars, NEW s \in Project, pc[s] = "ready"
    PROVE  pc'[s] = "ready" /\ label'[s] = label[s] /\ known'[s] = known[s]
<1>1. CASE ~\E o \in Project : Testing(o)
    BY <1>1 DEF Next, vars, flags, StartOther, Stop, CreateDB, Connect, RemoveDB
<1>2. ASSUME NEW o \in Project, Testing(o)
      PROVE  pc'[s] = "ready" /\ label'[s] = label[s] /\ known'[s] = known[s]
  <2>1. o # s
      BY <1>2 DEF Testing, Begin, Separator, StartDatabase, StartFails, StartServer, AtDatabase
  <2> QED
      BY <1>2, <2>1 DEF Testing, Begin, Separator, StartDatabase, StartFails, StartServer,
         SetFlags, flags, TypeOK
<1> QED
    BY <1>1, <1>2

(* What is said of a request, of its record q and of the state around it.  *)
Looked(q) ==
    /\ q.server \in Project => pc[q.server] = "ready"
    /\ q.server \in Project => q.via = known[q.server][q.type]
    /\ q.via \in Id \cup {None}
    /\ q.via # None =>
        /\ Fits(q.via, q.type, ServerLabel(q.server))
        /\ ~q.explicit /\ inst[q.via].described => q.port = inst[q.via].port

Placed(q) ==
    /\ q.at \in Id /\ inst[q.at].port = q.port
    /\ ~q.explicit /\ q.via \in up /\ inst[q.via].described => q.at = q.via

Right(q) ==
    q.pc # "idle" =>
        /\ Looked(q)
        /\ q.pc \in {"held", "removed"} => Placed(q)
        /\ q.pc = "removed" /\ q.at \in up => q.droppedAt = q.at

LEMMA LookedStays ==
    ASSUME Inv, [Next]_vars, NEW q \in RequestState, Looked(q)
    PROVE  Looked(q)'
<1>1. TypeOK /\ Growth
    BY NextGrowth DEF Inv
<1>2. Id \subseteq Id' /\ \A j \in Id : inst'[j] = inst[j]
    BY <1>1 DEF Growth
<1>3. q.server \in Server
    BY DEF RequestState
<1>4. ServerLabel(q.server)' = ServerLabel(q.server)
  <2>1. CASE q.server \in Project
    <3>1. pc[q.server] = "ready"
        BY <2>1 DEF Looked
    <3>2. label'[q.server] = label[q.server]
        BY <1>1, <2>1, <3>1, ReadyStays
    <3> QED
        BY <2>1, <3>2 DEF ServerLabel
  <2>2. CASE q.server \notin Project
      BY <2>2 DEF ServerLabel
  <2> QED
      BY <2>1, <2>2
<1>5. q.server \in Project =>
        /\ pc'[q.server] = "ready"
        /\ q.via = known'[q.server][q.type]
    BY <1>1, ReadyStays DEF Looked
<1>6. q.via # None => inst'[q.via] = inst[q.via]
    BY <1>2 DEF Looked
<1>7. q.via \in Id' \cup {None}
    BY <1>2 DEF Looked
<1>8. q.via # None =>
        /\ inst'[q.via].type = q.type
        /\ ServerLabel(q.server) \in {"", inst'[q.via].label}
        /\ ~q.explicit /\ inst'[q.via].described => q.port = inst'[q.via].port
    BY <1>6 DEF Looked, Fits
<1> QED
    BY <1>4, <1>5, <1>7, <1>8 DEF Looked, Fits, None

LEMMA PlacedStays ==
    ASSUME TypeOK, Growth, NEW q, q.via \in Id \cup {None}, Placed(q)
    PROVE  Placed(q)'
<1>1. /\ Id \subseteq Id' /\ \A j \in Id : inst'[j] = inst[j]
      /\ up' \cap Id \subseteq up /\ up' \subseteq Id' /\ None \notin Id'
    BY DEF Growth, Id, None
<1> QED
    BY <1>1 DEF Placed

(* A record that is right before a step is right after it. *)
LEMMA RightStays ==
    ASSUME Inv, [Next]_vars, NEW q \in RequestState, Right(q)
    PROVE  Right(q)'
<1>1. TypeOK /\ Growth
    BY NextGrowth DEF Inv
<1>2. CASE q.pc = "idle"
    BY <1>2 DEF Right
<1>3. CASE q.pc # "idle"
  <2>1. Looked(q) /\ q.via \in Id \cup {None}
      BY <1>3 DEF Right, Looked
  <2>2. Looked(q)'
      BY <2>1, LookedStays
  <2>3. q.pc \in {"held", "removed"} => Placed(q) /\ Placed(q)'
      BY <1>1, <1>3, <2>1, PlacedStays DEF Right
  <2>4. q.pc = "removed" => q.at \in Id
      BY <2>3 DEF Placed
  <2>5. q.pc = "removed" /\ q.at \in up' => q.droppedAt = q.at
      BY <1>1, <1>3, <2>4 DEF Right, Growth
  <2> QED
      BY <2>2, <2>3, <2>5 DEF Right
<1> QED
    BY <1>2, <1>3

(* What a lookup finds, for a server that is up. *)
LEMMA AppliedLooked ==
    ASSUME Inv, NEW s \in Server, NEW t \in Type, NEW e \in Port \cup {0},
           s \in Project => pc[s] = "ready"
    PROVE  Right(applyInstance(s, t, e))
<1> DEFINE q == applyInstance(s, t, e)
           via == instanceFor(s, t)
<1>1. /\ q.pc = "connect" /\ q.server = s /\ q.type = t /\ q.via = via
      /\ q.explicit = (e # 0)
      /\ e = 0 /\ via # None /\ inst[via].described => q.port = inst[via].port
    BY DEF applyInstance
<1>2. via \in Id \cup {None}
    BY FoundType DEF instanceFor, Inv, TypeOK, Server
<1>3. ASSUME via # None PROVE Fits(via, t, ServerLabel(s))
  <2>1. CASE s \in Project
    <3>1. ProjInv(s) /\ via = known[s][t]
        BY <2>1 DEF Inv, instanceFor
    <3>2. inst[via].type = t /\ label[s] \in {"", inst[via].label}
        BY <1>3, <2>1, <3>1 DEF ProjInv, Fits
    <3> QED
        BY <2>1, <3>2 DEF Fits, ServerLabel
  <2>2. CASE s \notin Project
    <3>1. via = FindInstance(t, ServerLabel(s))
        BY <2>2 DEF instanceFor
    <3> HIDE DEF via
    <3> QED
        BY <1>3, <3>1, FoundFits
  <2> QED
      BY <2>1, <2>2
<1> HIDE DEF q, via
<1>4. Looked(q)
  <2>1. s \in Project => via = known[s][t]
      BY DEF via, instanceFor
  <2> QED
      BY <1>1, <1>2, <1>3, <2>1 DEF Looked
<1>5. Right(q)
    BY <1>1, <1>4 DEF Right
<1> QED
    BY <1>5 DEF q

LEMMA RightIsReqInv ==
    ASSUME NEW r \in Request
    PROVE  ReqInv(r) <=> Right(req[r])
BY DEF ReqInv, Right, Looked, Placed, Fits, Served

LEMMA NextReqInv ==
    ASSUME Inv, [Next]_vars, NEW r \in Request
    PROVE  ReqInv(r)'
<1>1. TypeOK /\ TypeOK' /\ UniquePorts /\ up \subseteq Id /\ req[r] \in RequestState
    BY NextTypeOK DEF Inv, TypeOK
<1>2. PICK q \in RequestState : q = req[r]
    BY <1>1
<1>3. PICK x \in RequestState : x = req'[r]
    BY <1>1 DEF TypeOK
<1>4. Right(q)
    BY <1>2, RightIsReqInv DEF Inv
<1>5. x = q => Right(x)
    BY <1>4
<1>6. ASSUME CreateDB(r) PROVE Right(x)
  <2>1. PICK s \in Server, t \in Type, e \in Port \cup {0} :
          /\ s \in Project => pc[s] = "ready"
          /\ req' = [req EXCEPT ![r] = applyInstance(s, t, e)]
      BY <1>6 DEF CreateDB
  <2>2. x = applyInstance(s, t, e)
      BY <1>1, <1>3, <2>1 DEF TypeOK
  <2>3. Right(applyInstance(s, t, e))
      BY <2>1, AppliedLooked
  <2> QED
      BY <2>2, <2>3
<1>7. ASSUME Connect(r) PROVE Right(x)
  <2>1. Looked(q) /\ q.pc = "connect"
      BY <1>2, <1>4, <1>7 DEF Connect, Right
  <2>2. CASE req' = [req EXCEPT ![r].pc = "failed"]
    <3>1. /\ x.pc = "failed" /\ x.server = q.server /\ x.type = q.type /\ x.via = q.via
          /\ x.explicit = q.explicit /\ x.port = q.port
        BY <1>1, <1>2, <1>3, <2>2 DEF TypeOK, RequestState
    <3> QED
        BY <2>1, <3>1 DEF Right, Looked
  <2>3. ASSUME NEW i \in up, Reaches(q, i), req' = [req EXCEPT ![r].pc = "held", ![r].at = i]
        PROVE  Right(x)
    <3>1. /\ x.pc = "held" /\ x.server = q.server /\ x.type = q.type /\ x.via = q.via
          /\ x.explicit = q.explicit /\ x.port = q.port /\ x.at = i
        BY <1>1, <1>2, <1>3, <2>3 DEF TypeOK, RequestState
    <3>2. Looked(x)
        BY <2>1, <3>1 DEF Looked
    <3>3. i \in Id /\ inst[i].port = q.port
        BY <1>1, <2>3 DEF Reaches
    <3>4. None \notin up
        BY <1>1 DEF Id, None
    <3>5. ASSUME ~q.explicit, q.via \in up, inst[q.via].described PROVE i = q.via
      <4>1. inst[q.via].port = q.port
          BY <2>1, <3>4, <3>5 DEF Looked
      <4> QED
          BY <1>1, <3>3, <3>5, <4>1 DEF UniquePorts
    <3>6. Placed(x)
        BY <3>1, <3>3, <3>5 DEF Placed
    <3> QED
        BY <3>1, <3>2, <3>6 DEF Right
  <2> QED
      BY <1>2, <1>7, <2>2, <2>3 DEF Connect
<1>8. ASSUME RemoveDB(r) PROVE Right(x)
  <2>1. Looked(q) /\ Placed(q) /\ q.pc = "held"
      BY <1>2, <1>4, <1>8 DEF RemoveDB, Right
  <2>2. PICK i \in up : /\ Reaches(q, i)
                        /\ req' = [req EXCEPT ![r].pc = "removed", ![r].droppedAt = i]
      BY <1>2, <1>8 DEF RemoveDB
  <2>3. /\ x.pc = "removed" /\ x.server = q.server /\ x.type = q.type /\ x.via = q.via
        /\ x.explicit = q.explicit /\ x.port = q.port /\ x.at = q.at /\ x.droppedAt = i
      BY <1>1, <1>2, <1>3, <2>2 DEF TypeOK, RequestState
  <2>4. Looked(x) /\ Placed(x)
      BY <2>1, <2>3 DEF Looked, Placed
  <2>5. q.at \in up => i = q.at
      BY <1>1, <2>1, <2>2 DEF UniquePorts, Reaches, Placed
  <2> QED
      BY <2>3, <2>4, <2>5 DEF Right
<1>9. ASSUME NEW o \in Request, o # r, CreateDB(o) \/ Connect(o) \/ RemoveDB(o) PROVE x = q
    BY <1>1, <1>2, <1>3, <1>9 DEF CreateDB, Connect, RemoveDB, TypeOK
<1>a. UNCHANGED req => x = q
    BY <1>2, <1>3
<1>b. ASSUME NEW p \in Project, Testing(p) PROVE UNCHANGED req
    BY <1>b DEF Testing, Begin, Separator, StartDatabase, StartFails, StartServer
<1>c. Right(x)
    BY <1>5, <1>6, <1>7, <1>8, <1>9, <1>a, <1>b DEF Next, vars, StartOther, Stop
<1>d. Right(x)'
    BY <1>c, RightStays
<1>e. ReqInv(r)' <=> Right(x)'
    BY <1>3 DEF ReqInv, Right, Looked, Placed, Fits, Served
<1> QED
    BY <1>d, <1>e

LEMMA NextInv == Inv /\ [Next]_vars => Inv'
<1> SUFFICES ASSUME Inv, [Next]_vars PROVE Inv'
    OBVIOUS
<1>1. TypeOK' /\ UniquePorts'
    BY NextTypeOK, NextUnique DEF Inv
<1>2. \A p \in Project : ProjInv(p)'
    BY NextProjInv
<1>3. \A r \in Request : ReqInv(r)'
    BY NextReqInv
<1> QED
    BY <1>1, <1>2, <1>3 DEF Inv

LEMMA SpecInv == Spec => []Inv
BY InitInv, NextInv, PTL DEF Spec

-----------------------------------------------------------------------------
(* Theorems *)

(* A request that names no port is served by the instance that was found   *)
(* for it, however long ago, while that runs and has its port noted        *)
(* (instanceFor and applyInstance in apiserver/server.go).                 *)
THEOREM RequestsReachWhatWasFound == Spec => []ReachedAsFound
<1>1. ASSUME Inv, NEW r \in Request, Served(r), ~req[r].explicit, req[r].via # None
      PROVE  /\ inst[req[r].via].type = req[r].type
             /\ ServerLabel(req[r].server) \in {"", inst[req[r].via].label}
             /\ req[r].via \in up /\ inst[req[r].via].described => req[r].at = req[r].via
  <2>1. ReqInv(r) /\ req[r].pc # "idle"
      BY <1>1 DEF Inv, Served
  <2> QED
      BY <1>1, <2>1 DEF ReqInv
<1>2. Inv => ReachedAsFound
    BY <1>1 DEF ReachedAsFound
<1> QED
    BY <1>2, SpecInv, PTL

(* dbctl testing that succeeded has started an instance of its own for     *)
(* every database of its command line, as it was asked for, and a request  *)
(* to its server that names no port is served by it, if it was the only    *)
(* one for its type when the server was started and still runs             *)
(* (GetStartTestingCmd in cmd/testing/start.go).                           *)
THEOREM TestingKnowsItsOwn == Spec => []TestingUsesItsOwn
<1>1. ASSUME Inv, NEW p \in Project, pc[p] = "ready", NEW k \in Databases(p)
      PROVE  Started(p, k) /\ own[p][k] # None
  <2>1. ProjInv(p) /\ list[p] \in Seq(Arg) /\ next[p] \in Nat
      BY <1>1 DEF Inv, TypeOK
  <2>2. next[p] > Len(list[p])
      BY <1>1, <2>1 DEF ProjInv
  <2>3. k \in 1..Len(list[p]) /\ Len(list[p]) \in Nat
      BY <2>1 DEF Databases
  <2>4. k < next[p]
      BY <2>1, <2>2, <2>3
  <2>5. Started(p, k)
      BY <1>1, <2>1, <2>4 DEF ProjInv
  <2> QED
      BY <2>5 DEF Started, Id, None
<1>2. ASSUME Inv, NEW p \in Project, pc[p] = "ready", NEW k \in Databases(p),
             NEW m \in Databases(p), own[p][m] = own[p][k]
      PROVE  m = k
  <2>1. ProjInv(p) /\ own[p] \in Seq(Id \cup {None}) /\ list[p] \in Seq(Arg)
      BY <1>2 DEF Inv, TypeOK
  <2>2. k \in DOMAIN own[p] /\ m \in DOMAIN own[p]
      BY <2>1 DEF ProjInv, Databases
  <2> QED
      BY <1>1, <1>2, <2>1, <2>2 DEF ProjInv
<1>3. ASSUME Inv, NEW p \in Project, pc[p] = "ready", NEW k \in Databases(p), NEW r \in Request,
             Served(r), ~req[r].explicit, req[r].server = p,
             OnlyOne(p, req[r].type, own[p][k]), own[p][k] \in up
      PROVE  req[r].at = own[p][k]
  <2>1. ReqInv(r) /\ req[r].pc # "idle" /\ req[r].type \in Type /\ ProjInv(p)
      BY <1>3 DEF Inv, TypeOK, RequestState, Served
  <2>2. req[r].via = known[p][req[r].type]
      BY <1>3, <2>1 DEF ReqInv
  <2>3. req[r].via = own[p][k]
      BY <1>3, <2>1, <2>2 DEF ProjInv
  <2>4. inst[own[p][k]].described
      BY <1>1, <1>3 DEF Started
  <2> QED
      BY <1>3, <2>1, <2>3, <2>4 DEF ReqInv
<1>4. Inv => TestingUsesItsOwn
  <2> SUFFICES ASSUME Inv, NEW p \in Project, pc[p] = "ready", NEW k \in Databases(p)
               PROVE  /\ own[p][k] # None /\ AsAsked(own[p][k], list[p][k])
                      /\ \A m \in Databases(p) : own[p][m] = own[p][k] => m = k
                      /\ \A r \in Request :
                            /\ Served(r) /\ ~req[r].explicit /\ req[r].server = p
                            /\ OnlyOne(p, req[r].type, own[p][k]) /\ own[p][k] \in up
                            => req[r].at = own[p][k]
      BY DEF TestingUsesItsOwn
  <2>1. own[p][k] # None /\ AsAsked(own[p][k], list[p][k])
      BY <1>1 DEF Started
  <2> QED
      BY <1>2, <1>3, <2>1
<1> QED
    BY <1>4, SpecInv, PTL

(* A database is dropped from the instance it was created on, if that      *)
(* still runs (removePostgresDB, removeRedisDB and removeMongoDBDB take    *)
(* the place from the uri).                                                *)
THEOREM DroppedWhereCreated == Spec => []RemovedWhereCreated
<1>1. Inv => RemovedWhereCreated
    BY DEF Inv, ReqInv, RemovedWhereCreated
<1> QED
    BY <1>1, SpecInv, PTL
=============================================================================
