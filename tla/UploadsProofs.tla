---------------------------- MODULE UploadsProofs ----------------------------
(***************************************************************************)
(* Proofs about Uploads, for any number of requests, any calls, files and  *)
(* names, and any number of ends of the server process: the temporary      *)
(* directories first, then what the variables are, then the files on their *)
(* way, with what UploadNamesProofs says of the operators on names.        *)
(***************************************************************************)
EXTENDS UploadNamesProofs

(* The part of the state the directories depend on. *)
Ctl ==
    /\ pc \in [Request -> PC]
    /\ tmp \in [Request -> [Key -> TempDir \cup {None}]]
    /\ made \subseteq TempDir

(* Before its handler a request has no directory; what a handler has is    *)
(* there and its own; what is there belongs to a handler or was left.      *)
Unused == \A r \in Request : \A k \in Key : pc[r] \in {"idle", "walk", "send"} => tmp[r][k] = None

Held == \A r \in Request : \A k \in Key :
    pc[r] \in Handling /\ tmp[r][k] # None => tmp[r][k] \in made \ left

Owned == \A r, s \in Request : \A k, l \in Key :
    pc[r] \in Handling /\ pc[s] \in Handling /\ tmp[r][k] # None /\ tmp[r][k] = tmp[s][l]
        => r = s /\ k = l

Claimed == \A d \in made \ left : \E r \in Request :
    pc[r] \in Handling /\ \E k \in Key : tmp[r][k] = d

Inv == Ctl /\ left \subseteq made /\ Unused /\ Held /\ Owned /\ Claimed

LEMMA InitInv == Init => Inv
<1> SUFFICES ASSUME Init PROVE Inv
    OBVIOUS
<1>1. /\ pc = [r \in Request |-> "idle"] /\ made = {} /\ left = {}
      /\ tmp = [r \in Request |-> [k \in Key |-> None]]
    BY DEF Init
<1>2. Ctl
    BY <1>1 DEF Ctl, PC
<1> QED
    BY <1>1, <1>2 DEF Inv, Unused, Held, Owned, Claimed, Handling

(* Steps that make and remove nothing, before a handler or within one. *)
LEMMA Quiet ==
    ASSUME Inv, NEW r \in Request, NEW l \in PC, UNCHANGED <<tmp, made, left>>, Goto(r, l),
           \/ pc[r] \in {"idle", "walk", "send"}
           \/ pc[r] \in Handling /\ l \in Handling
    PROVE  Inv'
<1>1. /\ pc' = [pc EXCEPT ![r] = l] /\ pc \in [Request -> PC]
      /\ tmp' = tmp /\ made' = made /\ left' = left
    BY DEF Goto, Inv, Ctl
<1>2. /\ pc'[r] = l
      /\ \A s \in Request : s # r => pc'[s] = pc[s]
    BY <1>1
<1>3. Ctl' /\ left' \subseteq made'
    BY <1>1 DEF Inv, Ctl
<1>4. CASE pc[r] \in {"idle", "walk", "send"}
  <2>1. \A k \in Key : tmp[r][k] = None
      BY <1>4 DEF Inv, Unused
  <2>a. pc[r] \notin Handling
      BY <1>4 DEF Handling
  <2>2. Unused' /\ Held'
      BY <1>1, <1>2, <2>1 DEF Inv, Unused, Held
  <2>3. Owned'
      BY <1>1, <1>2, <2>1 DEF Inv, Owned
  <2>4. Claimed'
      BY <1>1, <1>2, <2>a DEF Inv, Claimed
  <2> QED
      BY <1>3, <2>2, <2>3, <2>4 DEF Inv
<1>5. CASE pc[r] \in Handling /\ l \in Handling
  <2>1. /\ \A s \in Request : pc'[s] \in Handling <=> pc[s] \in Handling
        /\ \A s \in Request : pc'[s] \in {"idle", "walk", "send"} => pc[s] = pc'[s]
      BY <1>2, <1>5 DEF Handling
  <2>2. Unused' /\ Held'
      BY <1>1, <2>1 DEF Inv, Unused, Held
  <2>3. Owned'
      BY <1>1, <2>1 DEF Inv, Owned
  <2>4. Claimed'
      BY <1>1, <2>1 DEF Inv, Claimed
  <2> QED
      BY <1>3, <2>2, <2>3, <2>4 DEF Inv
<1> QED
    BY <1>4, <1>5

(* A handler that ends removes its directories and no other. *)
LEMMA EndInv ==
    ASSUME Inv, NEW r \in Request, pc[r] \in Handling,
           NEW l \in {"done", "failed", "refused"}, End(r, l), UNCHANGED <<tmp, left>>
    PROVE  Inv'
<1>1. /\ pc' = [pc EXCEPT ![r] = l] /\ pc \in [Request -> PC]
      /\ tmp' = tmp /\ left' = left
      /\ made' = made \ {tmp[r][k] : k \in Key}
    BY DEF End, Goto, Inv, Ctl
<1>2. /\ pc'[r] = l
      /\ \A s \in Request : s # r => pc'[s] = pc[s]
    BY <1>1
<1>3. l \in PC /\ l \notin Handling /\ l \notin {"idle", "walk", "send"}
    BY DEF PC, Handling
<1>4. Ctl'
    BY <1>1, <1>3 DEF Inv, Ctl
<1>5. None \notin made
    BY UploadsAssumption DEF Inv, Ctl
<1>6. \A k \in Key : tmp[r][k] \notin left
    BY <1>5 DEF Inv, Held
<1>7. left' \subseteq made'
    BY <1>1, <1>6 DEF Inv
<1>8. Unused'
    BY <1>1, <1>2, <1>3 DEF Inv, Unused
<1>9. ASSUME NEW s \in Request, NEW k \in Key, pc'[s] \in Handling, tmp'[s][k] # None
      PROVE  tmp'[s][k] \in made' \ left'
  <2>1. s # r /\ pc[s] \in Handling
      BY <1>2, <1>3, <1>9
  <2>2. tmp[s][k] \in made \ left
      BY <1>1, <1>9, <2>1 DEF Inv, Held
  <2>3. \A j \in Key : tmp[r][j] # tmp[s][k]
      BY <1>1, <1>9, <2>1 DEF Inv, Owned
  <2> QED
      BY <1>1, <2>2, <2>3
<1>a. Held'
    BY <1>9 DEF Held
<1>b. Owned'
    BY <1>1, <1>2, <1>3 DEF Inv, Owned
<1>c. ASSUME NEW d \in made' \ left'
      PROVE  \E s \in Request : pc'[s] \in Handling /\ \E k \in Key : tmp'[s][k] = d
  <2>1. PICK s \in Request : pc[s] \in Handling /\ \E k \in Key : tmp[s][k] = d
      BY <1>1, <1>c DEF Inv, Claimed
  <2>2. s # r
      BY <1>1, <1>c, <2>1
  <2> QED
      BY <1>1, <1>2, <2>1, <2>2
<1>d. Claimed'
    BY <1>c DEF Claimed
<1> QED
    BY <1>4, <1>7, <1>8, <1>a, <1>b, <1>d DEF Inv

(* os.MkdirTemp gives a directory nobody has. *)
LEMMA MkdirInv ==
    ASSUME Inv, NEW r \in Request, NEW k \in Key, MkdirTemp(r, k)
    PROVE  Inv'
<1>1. PICK d \in TempDir \ made :
        made' = made \cup {d} /\ tmp' = [tmp EXCEPT ![r][k] = d]
    BY DEF MkdirTemp
<1>2. /\ pc[r] = "temp" /\ tmp[r][k] = None /\ left' = left
      /\ pc' = [pc EXCEPT ![r] = IF k = "fixtures" THEN "unpack" ELSE "temp"]
    BY DEF MkdirTemp, Goto
<1>t. pc \in [Request -> PC] /\ tmp \in [Request -> [Key -> TempDir \cup {None}]]
    BY DEF Inv, Ctl
<1>3. /\ pc[r] \in Handling /\ pc'[r] \in Handling /\ pc'[r] \in PC
      /\ pc'[r] \notin {"idle", "walk", "send"}
      /\ \A s \in Request : s # r => pc'[s] = pc[s]
    BY <1>2, <1>t DEF Handling, PC
<1>4. /\ tmp'[r][k] = d
      /\ \A s \in Request, j \in Key : s # r \/ j # k => tmp'[s][j] = tmp[s][j]
    BY <1>1, <1>t
<1>5. Ctl'
  <2>1. tmp' \in [Request -> [Key -> TempDir \cup {None}]]
      BY <1>1, <1>t
  <2>2. pc' \in [Request -> PC]
      BY <1>2, <1>t DEF PC, Handling
  <2> QED
      BY <1>1, <2>1, <2>2 DEF Inv, Ctl
<1>6. left' \subseteq made' /\ d \notin left /\ d \notin made /\ d # None
    BY <1>1, <1>2, UploadsAssumption DEF Inv
<1>7. Unused'
    BY <1>3, <1>4 DEF Inv, Unused
<1>8. ASSUME NEW s \in Request, NEW j \in Key, pc'[s] \in Handling, tmp'[s][j] # None
      PROVE  tmp'[s][j] \in made' \ left'
  <2>1. CASE s = r /\ j = k
      BY <1>1, <1>2, <1>4, <1>6, <2>1
  <2>2. CASE s # r \/ j # k
    <3>1. pc[s] \in Handling /\ tmp[s][j] = tmp'[s][j]
        BY <1>3, <1>4, <1>8, <2>2
    <3> QED
        BY <1>1, <1>2, <1>8, <3>1 DEF Inv, Held
  <2> QED
      BY <2>1, <2>2
<1>9. ASSUME NEW s \in Request, NEW j \in Key, s # r \/ j # k, pc[s] \in Handling
      PROVE  tmp[s][j] # d
    BY <1>6, <1>9 DEF Inv, Held
<1>a. Owned'
  <2> SUFFICES ASSUME NEW s \in Request, NEW u \in Request, NEW i \in Key, NEW j \in Key,
                      pc'[s] \in Handling, pc'[u] \in Handling,
                      tmp'[s][i] # None, tmp'[s][i] = tmp'[u][j]
               PROVE  s = u /\ i = j
      BY DEF Owned
  <2>1. pc[s] \in Handling /\ pc[u] \in Handling
      BY <1>3
  <2>2. CASE (s # r \/ i # k) /\ (u # r \/ j # k)
      BY <1>4, <2>1, <2>2 DEF Inv, Owned
  <2>3. CASE s = r /\ i = k
      BY <1>4, <1>9, <2>1, <2>3
  <2>4. CASE u = r /\ j = k
      BY <1>4, <1>9, <2>1, <2>4
  <2> QED
      BY <2>2, <2>3, <2>4
<1>b. ASSUME NEW e \in made' \ left'
      PROVE  \E s \in Request : pc'[s] \in Handling /\ \E j \in Key : tmp'[s][j] = e
  <2>1. CASE e = d
      BY <1>3, <1>4, <2>1
  <2>2. CASE e # d
    <3>1. PICK s \in Request : pc[s] \in Handling /\ \E j \in Key : tmp[s][j] = e
        BY <1>1, <1>2, <1>b, <2>2 DEF Inv, Claimed
    <3>2. PICK j \in Key : tmp[s][j] = e
        BY <3>1
    <3>3. e # None
        BY <1>1, <1>6, <1>b, UploadsAssumption DEF Inv, Ctl
    <3>4. s # r \/ j # k
        BY <1>2, <3>2, <3>3
    <3>5. tmp'[s][j] = e
        BY <1>4, <3>2, <3>4
    <3>6. pc'[s] \in Handling
        BY <1>3, <3>1
    <3> QED
        BY <3>5, <3>6
  <2> QED
      BY <2>1, <2>2
<1>c. Held' /\ Claimed'
    BY <1>8, <1>b DEF Held, Claimed
<1> QED
    BY <1>5, <1>6, <1>7, <1>a, <1>c DEF Inv

LEMMA NextInv == Inv /\ [Next]_vars => Inv'
<1> SUFFICES ASSUME Inv, [Next]_vars PROVE Inv'
    OBVIOUS
<1>0. {"walk", "send", "refused", "failed", "temp", "admin", "unpack"} \subseteq PC
    BY DEF PC, Handling
<1>1. ASSUME NEW r \in Request, Begin(r) PROVE Inv'
    BY <1>0, <1>1, Quiet DEF Begin
<1>2. ASSUME NEW r \in Request, Walk(r) PROVE Inv'
    BY <1>0, <1>2, Quiet DEF Walk
<1>3. ASSUME NEW r \in Request, CreateDB(r) PROVE Inv'
    BY <1>0, <1>3, Quiet DEF CreateDB
<1>4. ASSUME NEW r \in Request, NEW k \in Key, MkdirTemp(r, k) PROVE Inv'
    BY <1>4, MkdirInv
<1>5. ASSUME NEW r \in Request, writeMultipartFile(r) PROVE Inv'
  <2>1. UNCHANGED <<pc, tmp, made, left>>
      BY <1>5 DEF writeMultipartFile
  <2> QED
      BY <2>1 DEF Inv, Ctl, Unused, Held, Owned, Claimed
<1>6. ASSUME NEW r \in Request, RefuseName(r) PROVE Inv'
    BY <1>6, EndInv DEF RefuseName, Handling
<1>7. ASSUME NEW r \in Request, CallAdmin(r) PROVE Inv'
    BY <1>0, <1>7, Quiet DEF CallAdmin, Handling
<1>8. ASSUME NEW r \in Request, Answer(r) PROVE Inv'
    BY <1>8, EndInv DEF Answer, Handling
<1>9. ASSUME NEW r \in Request, HandlerFails(r) PROVE Inv'
    BY <1>9, EndInv DEF HandlerFails
<1>a. CASE Exit
  <2>1. /\ pc \in [Request -> PC] /\ tmp' = tmp /\ made' = made /\ left' = made
        /\ pc' = [r \in Request |-> IF pc[r] \in Handling THEN "failed" ELSE pc[r]]
      BY <1>a DEF Exit, Inv, Ctl
  <2>2. \A r \in Request : pc'[r] \notin Handling /\ pc'[r] \in PC
      BY <2>1 DEF Handling, PC
  <2>3. \A r \in Request : pc'[r] \in {"idle", "walk", "send"} => pc[r] = pc'[r]
      BY <2>1
  <2>4. pc' \in [Request -> PC]
      BY <1>0, <2>1
  <2>5. Ctl'
      BY <2>1, <2>4 DEF Inv, Ctl
  <2>6. Unused'
      BY <2>1, <2>3 DEF Inv, Unused
  <2> QED
      BY <2>1, <2>2, <2>5, <2>6 DEF Inv, Held, Owned, Claimed
<1>b. CASE UNCHANGED vars
    BY <1>b DEF vars, Inv, Ctl, Unused, Held, Owned, Claimed
<1> QED
    BY <1>1, <1>2, <1>3, <1>4, <1>5, <1>6, <1>7, <1>8, <1>9, <1>a, <1>b DEF Next, Handler

(* Whatever fails, whoever runs concurrently and whenever the process      *)
(* ends: a running handler has its temporary directories to itself, and a  *)
(* handler that is over leaves none (os.MkdirTemp and the deferred         *)
(* os.RemoveAll of CreateDB in apiserver/server.go).                       *)
THEOREM TempDirsArePrivate == Spec => []TempDirsPrivate
<1>1. Spec => []Inv
    BY InitInv, NextInv, PTL DEF Spec
<1>2. Inv => TempDirsPrivate
    BY DEF Inv, Held, Owned, Claimed, TempDirsPrivate
<1> QED
    BY <1>1, <1>2, PTL

-----------------------------------------------------------------------------
(* Types *)

Dirs == \A d \in TempDir : Directory(dir[d])

(* A handler that unpacks has both directories. *)
Ready == \A r \in Request : pc[r] \in {"unpack", "admin"} => \A k \in Key : tmp[r][k] # None

Data ==
    /\ call \in [Request -> Calls]
    /\ parts \in [Request -> Seq(Part)]
    /\ next \in [Request -> Nat \ {0}]
    /\ dir \in [TempDir -> SUBSET File]
    /\ got \in [Request -> [Key -> Seq(File)]]
    /\ exits \in 0..MaxExits
    /\ Dirs /\ Ready

LEMMA InitData == Init => Data
<1> SUFFICES ASSUME Init PROVE Data
    OBVIOUS
<1>1. call \in [Request -> Calls]
    BY UploadsAssumption DEF Init
<1>2. /\ parts \in [Request -> Seq(Part)] /\ next \in [Request -> Nat \ {0}]
      /\ dir \in [TempDir -> SUBSET File] /\ got \in [Request -> [Key -> Seq(File)]]
    BY DEF Init
<1>3. exits \in 0..MaxExits
    BY UploadsAssumption DEF Init
<1>4. Dirs
  <2>1. Directory({})
      BY FS_EmptySet DEF Directory
  <2> QED
      BY <2>1 DEF Init, Dirs
<1>5. Ready
    BY DEF Init, Ready
<1> QED
    BY <1>1, <1>2, <1>3, <1>4, <1>5 DEF Data

(* Steps that neither write a file nor begin to unpack. *)
LEMMA OtherData ==
    ASSUME Data, UNCHANGED <<next, dir, got>>, call' \in [Request -> Calls],
           parts' \in [Request -> Seq(Part)], exits' \in 0..MaxExits,
           \A r \in Request : pc'[r] \in {"unpack", "admin"} => pc[r] = pc'[r] /\ tmp'[r] = tmp[r]
    PROVE  Data'
<1>1. Dirs'
    BY DEF Data, Dirs
<1>2. Ready'
    BY DEF Data, Ready
<1> QED
    BY <1>1, <1>2 DEF Data

LEMMA BodyType ==
    ASSUME NEW c \in Calls
    PROVE  Body(c) \in Seq(Part)
<1>1. CASE c.client # "other"
    BY <1>1, BodyParts
<1>2. CASE c.client = "other"
  <2>1. c.parts \in Seq(Part)
      BY UploadsAssumption DEF Call
  <2> QED
      BY <1>2, <2>1 DEF Body
<1> QED
    BY <1>1, <1>2

LEMMA ParsedType ==
    ASSUME NEW s \in Seq(Part)
    PROVE  ParseMultipartForm(s) \in Seq(Part)
<1>1. Len(s) \in Nat /\ DOMAIN s = 1..Len(s) /\ \A i \in 1..Len(s) : s[i] \in Part
    BY LenProperties
<1>2. ASSUME NEW i \in 1..Len(s) PROVE [s[i] EXCEPT !.name = Base(s[i].name)] \in Part
  <2>1. s[i] \in Part /\ s[i].name \in Name
      BY <1>1 DEF Part
  <2>2. Base(s[i].name) \in Name
      BY <2>1, BaseType
  <2> QED
      BY <2>1, <2>2 DEF Part
<1> QED
    BY <1>1, <1>2 DEF ParseMultipartForm

(* A file is written over the one of the same name. *)
LEMMA WrittenDirectory ==
    ASSUME NEW D, Directory(D), NEW n \in Name, NEW b \in Seq(Nat)
    PROVE  Directory({f \in D : f.name # n} \cup {[name |-> n, body |-> b]})
<1> DEFINE E == {f \in D : f.name # n}
           x == [name |-> n, body |-> b]
<1>1. E \subseteq D /\ x \in File /\ x.name = n /\ \A f \in E : f.name # n
    BY DEF File
<1> HIDE DEF E, x
<1>2. IsFiniteSet(E \cup {x})
    BY <1>1, FS_Subset, FS_AddElement DEF Directory
<1>3. E \cup {x} \subseteq File /\ \A f, g \in E \cup {x} : f.name = g.name => f = g
    BY <1>1 DEF Directory
<1>4. Directory(E \cup {x})
    BY <1>2, <1>3 DEF Directory
<1> QED
    BY <1>4 DEF E, x

(* What the admin code lists in a directory. *)
LEMMA ListingType ==
    ASSUME NEW D, Directory(D)
    PROVE  getFiles(D) \in Seq(File) /\ MigrationFiles(getFiles(D)) \in Seq(File)
<1> DEFINE S == {f \in D : IsSuffix(<<Dot, Sql>>, f.name)}
<1>1. Directory(S)
  <2>1. S \in SUBSET D
      OBVIOUS
  <2> HIDE DEF S
  <2> QED
      BY <2>1, FS_Subset DEF Directory
<1>2. getFiles(D) = Sorted(S)
    BY DEF getFiles
<1> HIDE DEF S
<1>3. getFiles(D) \in Seq(File)
    BY <1>1, <1>2, SortedFiles
<1> QED
    BY <1>3, UpMigrations

LEMMA MkdirData ==
    ASSUME Inv, Data, NEW r \in Request, NEW k \in Key, MkdirTemp(r, k)
    PROVE  Data'
<1>1. PICK d \in TempDir \ made :
        tmp' = [tmp EXCEPT ![r][k] = d] /\ dir' = [dir EXCEPT ![d] = {}]
    BY DEF MkdirTemp
<1>2. /\ UNCHANGED <<call, parts, next, got, exits>>
      /\ pc' = [pc EXCEPT ![r] = IF k = "fixtures" THEN "unpack" ELSE "temp"]
      /\ k = "fixtures" => tmp[r]["migrations"] # None
    BY DEF MkdirTemp, Goto
<1>3. pc \in [Request -> PC] /\ tmp \in [Request -> [Key -> TempDir \cup {None}]]
    BY DEF Inv, Ctl
<1>4. Directory({})
    BY FS_EmptySet DEF Directory
<1>5. dir' \in [TempDir -> SUBSET File] /\ Dirs'
    BY <1>1, <1>4 DEF Data, Dirs
<1>6. d # None
    BY <1>1, UploadsAssumption
<1>7. Ready'
  <2> SUFFICES ASSUME NEW s \in Request, pc'[s] \in {"unpack", "admin"}, NEW j \in Key
               PROVE  tmp'[s][j] # None
      BY DEF Ready
  <2>1. CASE s # r
      BY <1>1, <1>2, <1>3, <2>1 DEF Data, Ready
  <2>2. CASE s = r
    <3>1. k = "fixtures" /\ (j = k \/ j = "migrations")
        BY <1>2, <1>3, <2>2 DEF Key
    <3>2. tmp'[r][k] = d /\ (j # k => tmp'[r][j] = tmp[r][j])
        BY <1>1, <1>3
    <3> QED
        BY <1>2, <1>6, <2>2, <3>1, <3>2
  <2> QED
      BY <2>1, <2>2
<1> QED
    BY <1>2, <1>5, <1>7 DEF Data

LEMMA WriteData ==
    ASSUME Inv, Data, NEW r \in Request, writeMultipartFile(r)
    PROVE  Data'
<1> DEFINE p == parts[r][next[r]]
           d == tmp[r][p.key]
<1>1. /\ pc[r] = "unpack" /\ next[r] <= Len(parts[r])
      /\ next' = [next EXCEPT ![r] = next[r] + 1]
      /\ UNCHANGED <<pc, call, parts, tmp, got, exits>>
    BY DEF writeMultipartFile
<1>2. PICK n \in uploadPath(p.name) :
          dir' = [dir EXCEPT ![d] = {f \in dir[d] : f.name # n} \cup {[name |-> n, body |-> p.body]}]
    BY DEF writeMultipartFile
<1>3. p \in Part
  <2>1. parts[r] \in Seq(Part) /\ next[r] \in 1..Len(parts[r])
      BY <1>1 DEF Data
  <2> QED
      BY <2>1, ElementOfSeq
<1>4. p.key \in Key /\ p.name \in Name /\ p.body \in Seq(Nat)
    BY <1>3 DEF Part
<1>5. d \in TempDir
    BY <1>1, <1>4 DEF Inv, Ctl, Data, Ready
<1>6. n \in Name
    BY <1>4, UploadPathType
<1> DEFINE D == {f \in dir[d] : f.name # n} \cup {[name |-> n, body |-> p.body]}
<1>7. Directory(D)
  <2>1. Directory(dir[d])
      BY <1>5 DEF Data, Dirs
  <2> QED
      BY <1>4, <1>6, <2>1, WrittenDirectory
<1>8. dir' = [dir EXCEPT ![d] = D]
    BY <1>2
<1> HIDE DEF D, d, p
<1>9. D \subseteq File
    BY <1>7 DEF Directory
<1>a. dir' \in [TempDir -> SUBSET File] /\ Dirs'
    BY <1>5, <1>7, <1>8, <1>9 DEF Data, Dirs
<1>b. next' \in [Request -> Nat \ {0}]
    BY <1>1 DEF Data
<1>c. Ready'
    BY <1>1 DEF Data, Ready
<1> QED
    BY <1>1, <1>a, <1>b, <1>c DEF Data

LEMMA CallAdminData ==
    ASSUME Inv, Data, NEW r \in Request, CallAdmin(r)
    PROVE  Data'
<1> DEFINE m == tmp[r]["migrations"]
           x == tmp[r]["fixtures"]
           g == [migrations |-> MigrationFiles(getFiles(dir[m])), fixtures |-> getFiles(dir[x])]
<1>1. /\ pc[r] = "unpack" /\ pc' = [pc EXCEPT ![r] = "admin"] /\ got' = [got EXCEPT ![r] = g]
      /\ UNCHANGED <<call, parts, next, tmp, dir, exits>>
    BY DEF CallAdmin, Goto
<1>2. m \in TempDir /\ x \in TempDir
    BY <1>1 DEF Inv, Ctl, Data, Ready, Key
<1>3. Directory(dir[m]) /\ Directory(dir[x])
    BY <1>2 DEF Data, Dirs
<1>4. MigrationFiles(getFiles(dir[m])) \in Seq(File) /\ getFiles(dir[x]) \in Seq(File)
    BY <1>3, ListingType
<1>5. g \in [Key -> Seq(File)]
    BY <1>4 DEF Key
<1> HIDE DEF g, m, x
<1>6. got' \in [Request -> [Key -> Seq(File)]]
    BY <1>1, <1>5 DEF Data
<1>7. Ready'
    BY <1>1 DEF Inv, Ctl, Data, Ready
<1>8. Dirs'
    BY <1>1 DEF Data, Dirs
<1> QED
    BY <1>1, <1>6, <1>7, <1>8 DEF Data

LEMMA NextData == Inv /\ Data /\ [Next]_vars => Data'
<1> SUFFICES ASSUME Inv, Data, [Next]_vars PROVE Data'
    OBVIOUS
<1>0. /\ pc \in [Request -> PC] /\ call \in [Request -> Calls]
      /\ parts \in [Request -> Seq(Part)] /\ exits \in 0..MaxExits
    BY DEF Inv, Ctl, Data
<1>1. ASSUME NEW r \in Request, Begin(r) PROVE Data'
  <2>1. call' \in [Request -> Calls]
      BY <1>0, <1>1 DEF Begin
  <2>2. /\ UNCHANGED <<parts, next, tmp, dir, got, exits>>
        /\ pc' = [pc EXCEPT ![r] = "walk"]
      BY <1>1 DEF Begin, Goto
  <2> QED
      BY <1>0, <2>1, <2>2, OtherData
<1>2. ASSUME NEW r \in Request, Walk(r) PROVE Data'
  <2>1. /\ UNCHANGED <<call, next, tmp, dir, got, exits>>
        /\ parts' = parts \/ parts' = [parts EXCEPT ![r] = Body(call[r])]
        /\ \E l \in {"send", "refused", "failed"} : pc' = [pc EXCEPT ![r] = l]
      BY <1>2 DEF Walk, Goto
  <2>2. Body(call[r]) \in Seq(Part)
      BY <1>0, BodyType
  <2>3. parts' \in [Request -> Seq(Part)]
      BY <1>0, <2>1, <2>2
  <2> QED
      BY <1>0, <2>1, <2>3, OtherData
<1>3. ASSUME NEW r \in Request, CreateDB(r) PROVE Data'
  <2> DEFINE b == ParseMultipartForm(parts[r])
  <2>1. /\ UNCHANGED <<call, next, tmp, dir, got, exits>>
        /\ parts' = parts \/ parts' = [parts EXCEPT ![r] = b]
        /\ \E l \in {"temp", "refused", "failed"} : pc' = [pc EXCEPT ![r] = l]
      BY <1>3 DEF CreateDB, Goto
  <2>2. b \in Seq(Part)
      BY <1>0, ParsedType
  <2> HIDE DEF b
  <2>3. parts' \in [Request -> Seq(Part)]
      BY <1>0, <2>1, <2>2
  <2> QED
      BY <1>0, <2>1, <2>3, OtherData
<1>4. ASSUME NEW r \in Request, NEW k \in Key, MkdirTemp(r, k) PROVE Data'
    BY <1>4, MkdirData
<1>5. ASSUME NEW r \in Request, writeMultipartFile(r) PROVE Data'
    BY <1>5, WriteData
<1>6. ASSUME NEW r \in Request, RefuseName(r) \/ Answer(r) \/ HandlerFails(r) PROVE Data'
  <2>1. /\ UNCHANGED <<call, parts, next, tmp, dir, got, exits>>
        /\ \E l \in {"refused", "done", "failed"} : pc' = [pc EXCEPT ![r] = l]
      BY <1>6 DEF RefuseName, Answer, HandlerFails, End, Goto
  <2> QED
      BY <1>0, <2>1, OtherData
<1>7. ASSUME NEW r \in Request, CallAdmin(r) PROVE Data'
    BY <1>7, CallAdminData
<1>8. CASE Exit
  <2>1. /\ UNCHANGED <<call, parts, next, tmp, dir, got>>
        /\ exits < MaxExits /\ exits' = exits + 1
        /\ pc' = [r \in Request |-> IF pc[r] \in Handling THEN "failed" ELSE pc[r]]
      BY <1>8 DEF Exit
  <2>2. exits' \in 0..MaxExits
      BY <1>0, <2>1, UploadsAssumption
  <2> QED
      BY <1>0, <2>1, <2>2, OtherData
<1>9. CASE UNCHANGED vars
    BY <1>9 DEF vars, Data, Dirs, Ready
<1> QED
    BY <1>1, <1>2, <1>3, <1>4, <1>5, <1>6, <1>7, <1>8, <1>9 DEF Next, Handler

(* The variables have their types, whatever the clients send: every name   *)
(* a handler derives is a name, and every directory it lists is sorted     *)
(* into a list of files (uploadPath and CreateDB in apiserver/server.go).  *)
THEOREM TypeCorrect == Spec => []TypeOK
<1>1. Spec => []Inv
    BY InitInv, NextInv, PTL DEF Spec
<1>2. Spec => []Data
    BY <1>1, InitData, NextData, PTL DEF Spec
<1>3. Inv /\ Data => TypeOK
    BY DEF Inv, Ctl, Data, TypeOK
<1> QED
    BY <1>1, <1>2, <1>3, PTL

-----------------------------------------------------------------------------
(* Files *)

(* A call whose directories a client walks and sends. *)
Plain(c) == c.client # "other" /\ \A k \in Key : c[k].kind = "dir"

(* The files of key k among the parts before the n-th. *)
Unpacked(c, k, n) ==
    {f \in Sent(c, k) : \E i \in DOMAIN Body(c) : i < n /\ Body(c)[i] = addFileToWriter(k, f)}

LEMMA UnpackedNone ==
    ASSUME NEW c \in Calls, NEW k \in Key
    PROVE  Unpacked(c, k, 1) = {}
<1>1. Body(c) \in Seq(Part)
    BY BodyType
<1>2. \A i \in DOMAIN Body(c) : ~(i < 1)
    BY <1>1, LenProperties
<1> QED
    BY <1>2 DEF Unpacked

LEMMA UnpackedAll ==
    ASSUME NEW c \in Calls, c.client # "other", NEW k \in Key, NEW n \in Nat, n > Len(Body(c))
    PROVE  Unpacked(c, k, n) = Sent(c, k)
<1> DEFINE b == Body(c)
<1>1. /\ b \in Seq(Part) /\ n > Len(b)
      /\ \A f \in Sent(c, k) : \E i \in DOMAIN b : b[i] = addFileToWriter(k, f)
    BY BodyParts
<1> HIDE DEF b
<1>2. \A i \in DOMAIN b : i < n
    BY <1>1, LenProperties
<1>3. \A f \in Sent(c, k) : \E i \in DOMAIN b : i < n /\ b[i] = addFileToWriter(k, f)
    BY <1>1, <1>2
<1> QED
    BY <1>3 DEF Unpacked, b

(* One part more is one file more, of its own key. *)
LEMMA UnpackedStep ==
    ASSUME NEW c \in Calls, c.client # "other", NEW n \in 1..Len(Body(c)),
           NEW l \in Key, NEW g \in Sent(c, l), Body(c)[n] = addFileToWriter(l, g),
           NEW k \in Key
    PROVE  /\ k = l => Unpacked(c, k, n + 1) = Unpacked(c, k, n) \cup {g}
           /\ k # l => Unpacked(c, k, n + 1) = Unpacked(c, k, n)
<1> DEFINE b == Body(c)
<1>1. b \in Seq(Part) /\ n \in 1..Len(b) /\ b[n] = addFileToWriter(l, g)
    BY BodyParts
<1> HIDE DEF b
<1>2. n \in DOMAIN b /\ \A i \in DOMAIN b : i < n + 1 <=> i < n \/ i = n
    BY <1>1, LenProperties
<1>3. ASSUME NEW f \in Sent(c, k)
      PROVE  b[n] = addFileToWriter(k, f) <=> k = l /\ f = g
    BY <1>1, PartIsOneFile
<1>4. ASSUME NEW f \in Sent(c, k)
      PROVE  (\E i \in DOMAIN b : i < n + 1 /\ b[i] = addFileToWriter(k, f))
             <=> (\E i \in DOMAIN b : i < n /\ b[i] = addFileToWriter(k, f)) \/ (k = l /\ f = g)
    BY <1>2, <1>3
<1> QED
    BY <1>4 DEF Unpacked, b

(* What a request says of itself: at which part it is; that its parts are  *)
(* what its client walked; that a directory is empty when it is made, and  *)
(* holds the files of the parts so far; and the two properties.            *)
Begun(r) == pc[r] \in {"idle", "walk", "send", "temp"} => next[r] = 1

SentAsWalked(r) ==
    call[r].client # "other" /\ pc[r] \in {"send"} \cup Handling => parts[r] = Body(call[r])

Fresh(r) == \A k \in Key : pc[r] = "temp" /\ tmp[r][k] # None => dir[tmp[r][k]] = {}

Filled(r) == \A k \in Key :
    pc[r] = "unpack" /\ Plain(call[r]) => dir[tmp[r][k]] = Unpacked(call[r], k, next[r])

Seen(r) ==
    pc[r] \in {"admin", "done"} /\ Plain(call[r]) =>
        /\ got[r]["migrations"] = MigrationFiles(getFiles(
                {f \in call[r].migrations.files : f.name \in call[r].pattern}))
        /\ got[r]["fixtures"] = getFiles(call[r].fixtures.files)

Excuse(c) == \E k \in Key :
    c[k].kind = "file" \/ \E f \in c[k].files : IsPrefix(<<Dot, Dot>>, f.name)

Accepted(r) ==
    pc[r] = "refused" /\ call[r].form /\ call[r].client # "other" => Excuse(call[r])

Way(r) == Begun(r) /\ SentAsWalked(r) /\ Fresh(r) /\ Filled(r) /\ Seen(r) /\ Accepted(r)

Files == \A r \in Request : Way(r)

LEMMA InitFiles == Init => Files
<1> SUFFICES ASSUME Init, NEW r \in Request PROVE Way(r)
    BY DEF Files
<1>1. pc[r] = "idle" /\ next[r] = 1
    BY DEF Init
<1> QED
    BY <1>1 DEF Way, Begun, SentAsWalked, Fresh, Filled, Seen, Accepted, Handling

(* A request is not disturbed by what leaves its part of the state alone. *)
LEMMA Undisturbed ==
    ASSUME NEW s \in Request, Way(s), pc'[s] = pc[s], call'[s] = call[s], parts'[s] = parts[s],
           next'[s] = next[s], tmp'[s] = tmp[s], got'[s] = got[s],
           \A k \in Key : pc[s] \in {"temp", "unpack"} /\ tmp[s][k] # None
                            => dir'[tmp[s][k]] = dir[tmp[s][k]],
           Ready
    PROVE  Way(s)'
<1>1. Begun(s)' /\ SentAsWalked(s)' /\ Accepted(s)'
    BY DEF Way, Begun, SentAsWalked, Accepted
<1>2. Fresh(s)'
    BY DEF Way, Fresh
<1>3. Filled(s)'
    BY DEF Way, Filled, Ready
<1>4. Seen(s)'
    BY DEF Way, Seen
<1> QED
    BY <1>1, <1>2, <1>3, <1>4 DEF Way

(* A request that failed has nothing left to say. *)
LEMMA FailedWay ==
    ASSUME NEW r \in Request, pc'[r] = "failed"
    PROVE  Way(r)'
    BY DEF Way, Begun, SentAsWalked, Fresh, Filled, Seen, Accepted, Handling

(* The steps of one request that write no file leave the others alone. *)
LEMMA OneWay ==
    ASSUME Files, Ready, NEW r \in Request, NEW l, pc \in [Request -> PC],
           pc' = [pc EXCEPT ![r] = l],
           \A s \in Request : s # r =>
                call'[s] = call[s] /\ parts'[s] = parts[s] /\ got'[s] = got[s],
           UNCHANGED <<next, tmp, dir>>, Way(r)'
    PROVE  Files'
<1> SUFFICES ASSUME NEW s \in Request, s # r PROVE Way(s)'
    BY DEF Files
<1>1. pc'[s] = pc[s] /\ Way(s)
    BY DEF Files
<1> QED
    BY <1>1, Undisturbed

LEMMA BeginFiles ==
    ASSUME Inv, Data, Files, NEW r \in Request, Begin(r)
    PROVE  Files'
<1>1. /\ pc[r] = "idle" /\ pc' = [pc EXCEPT ![r] = "walk"]
      /\ UNCHANGED <<parts, next, tmp, dir, got>>
      /\ \A s \in Request : s # r => call'[s] = call[s]
    BY DEF Begin, Goto, Data
<1>2. pc \in [Request -> PC] /\ Ready
    BY DEF Inv, Ctl, Data
<1>3. pc'[r] = "walk" /\ next'[r] = 1
    BY <1>1, <1>2 DEF Files, Way, Begun
<1>4. Way(r)'
    BY <1>3 DEF Way, Begun, SentAsWalked, Fresh, Filled, Seen, Accepted, Handling
<1> QED
    BY <1>1, <1>2, <1>4, OneWay

LEMMA WalkFiles ==
    ASSUME Inv, Data, Files, NEW r \in Request, Walk(r)
    PROVE  Files'
<1>1. /\ pc[r] = "walk" /\ UNCHANGED <<call, next, tmp, dir, got>>
      /\ \/ pc' = [pc EXCEPT ![r] = "send"] /\ parts' = [parts EXCEPT ![r] = Body(call[r])]
         \/ pc' = [pc EXCEPT ![r] = "refused"] /\ parts' = parts /\ NotDirectory(call[r])
         \/ pc' = [pc EXCEPT ![r] = "failed"] /\ parts' = parts
    BY DEF Walk, Goto
<1>2. pc \in [Request -> PC] /\ parts \in [Request -> Seq(Part)] /\ Ready
    BY DEF Inv, Ctl, Data
<1>3. next'[r] = 1
    BY <1>1 DEF Files, Way, Begun
<1>4. CASE pc' = [pc EXCEPT ![r] = "send"] /\ parts' = [parts EXCEPT ![r] = Body(call[r])]
  <2>1. pc'[r] = "send" /\ parts'[r] = Body(call'[r])
      BY <1>1, <1>2, <1>4
  <2>2. Way(r)'
      BY <1>3, <2>1 DEF Way, Begun, SentAsWalked, Fresh, Filled, Seen, Accepted
  <2> QED
      BY <1>1, <1>2, <1>4, <2>2, OneWay
<1>5. CASE pc' = [pc EXCEPT ![r] = "refused"] /\ parts' = parts /\ NotDirectory(call[r])
  <2>1. pc'[r] = "refused" /\ Excuse(call'[r])
      BY <1>1, <1>2, <1>5 DEF NotDirectory, Excuse
  <2>2. Way(r)'
      BY <2>1 DEF Way, Begun, SentAsWalked, Fresh, Filled, Seen, Accepted, Handling
  <2> QED
      BY <1>1, <1>2, <1>5, <2>2, OneWay
<1>6. CASE pc' = [pc EXCEPT ![r] = "failed"] /\ parts' = parts
    BY <1>1, <1>2, <1>6, FailedWay, OneWay
<1> QED
    BY <1>1, <1>4, <1>5, <1>6

LEMMA CreateFiles ==
    ASSUME Inv, Data, Files, NEW r \in Request, CreateDB(r)
    PROVE  Files'
<1>1. /\ pc[r] = "send" /\ UNCHANGED <<call, next, tmp, dir, got>>
      /\ \/ /\ pc' = [pc EXCEPT ![r] = "temp"]
            /\ parts' = [parts EXCEPT ![r] = ParseMultipartForm(parts[r])]
         \/ pc' = [pc EXCEPT ![r] = "refused"] /\ parts' = parts /\ ~call[r].form
         \/ pc' = [pc EXCEPT ![r] = "failed"] /\ parts' = parts
    BY DEF CreateDB, Goto
<1>2. /\ pc \in [Request -> PC] /\ parts \in [Request -> Seq(Part)] /\ Ready
      /\ call[r] \in Calls
    BY DEF Inv, Ctl, Data
<1>3. /\ next'[r] = 1 /\ \A k \in Key : tmp'[r][k] = None
      /\ call[r].client # "other" => parts[r] = Body(call[r])
    BY <1>1 DEF Files, Way, Begun, SentAsWalked, Inv, Unused
<1>4. CASE /\ pc' = [pc EXCEPT ![r] = "temp"]
           /\ parts' = [parts EXCEPT ![r] = ParseMultipartForm(parts[r])]
  <2>1. pc'[r] = "temp" /\ parts'[r] = ParseMultipartForm(parts[r])
      BY <1>2, <1>4
  <2>2. call'[r].client # "other" => parts'[r] = Body(call'[r])
      BY <1>1, <1>2, <1>3, <2>1, ParsedBody
  <2>3. Way(r)'
      BY <1>3, <2>1, <2>2 DEF Way, Begun, SentAsWalked, Fresh, Filled, Seen, Accepted
  <2> QED
      BY <1>1, <1>2, <1>4, <2>3, OneWay
<1>5. CASE pc' = [pc EXCEPT ![r] = "refused"] /\ parts' = parts /\ ~call[r].form
  <2>1. pc'[r] = "refused" /\ ~call'[r].form
      BY <1>1, <1>2, <1>5
  <2>2. Way(r)'
      BY <2>1 DEF Way, Begun, SentAsWalked, Fresh, Filled, Seen, Accepted, Handling
  <2> QED
      BY <1>1, <1>2, <1>5, <2>2, OneWay
<1>6. CASE pc' = [pc EXCEPT ![r] = "failed"] /\ parts' = parts
    BY <1>1, <1>2, <1>6, FailedWay, OneWay
<1> QED
    BY <1>1, <1>4, <1>5, <1>6

(* A directory that is made now is nobody else's: what the others have     *)
(* written stays as it is, and the new one is empty.                       *)
LEMMA MkdirFiles ==
    ASSUME Inv, Data, Files, NEW r \in Request, NEW k \in Key, MkdirTemp(r, k)
    PROVE  Files'
<1>1. PICK d \in TempDir \ made :
        tmp' = [tmp EXCEPT ![r][k] = d] /\ dir' = [dir EXCEPT ![d] = {}]
    BY DEF MkdirTemp
<1>2. /\ UNCHANGED <<call, parts, next, got>> /\ pc[r] = "temp" /\ tmp[r][k] = None
      /\ pc' = [pc EXCEPT ![r] = IF k = "fixtures" THEN "unpack" ELSE "temp"]
      /\ k = "fixtures" => tmp[r]["migrations"] # None
    BY DEF MkdirTemp, Goto
<1>3. /\ pc \in [Request -> PC] /\ tmp \in [Request -> [Key -> TempDir \cup {None}]]
      /\ dir \in [TempDir -> SUBSET File] /\ call[r] \in Calls /\ Ready
    BY DEF Inv, Ctl, Data
<1>4. \A s \in Request : \A j \in Key : pc[s] \in Handling /\ tmp[s][j] # None =>
          dir'[tmp[s][j]] = dir[tmp[s][j]]
  <2> SUFFICES ASSUME NEW s \in Request, NEW j \in Key, pc[s] \in Handling, tmp[s][j] # None
               PROVE  dir'[tmp[s][j]] = dir[tmp[s][j]]
      OBVIOUS
  <2>1. tmp[s][j] \in made /\ tmp[s][j] # d
      BY <1>1 DEF Inv, Held
  <2>2. tmp[s][j] \in TempDir
      BY <1>3
  <2> QED
      BY <1>1, <1>3, <2>1, <2>2
<1>5. ASSUME NEW s \in Request, s # r PROVE Way(s)'
  <2>1. pc'[s] = pc[s] /\ tmp'[s] = tmp[s] /\ Way(s)
      BY <1>1, <1>2, <1>3, <1>5 DEF Files
  <2>2. \A j \in Key : pc[s] \in {"temp", "unpack"} /\ tmp[s][j] # None
                          => dir'[tmp[s][j]] = dir[tmp[s][j]]
      BY <1>4 DEF Handling
  <2> QED
      BY <1>2, <1>3, <2>1, <2>2, Undisturbed
<1>6. Way(r)'
  <2>1. /\ pc'[r] = IF k = "fixtures" THEN "unpack" ELSE "temp"
        /\ tmp'[r][k] = d /\ dir'[d] = {}
        /\ \A j \in Key : j # k => tmp'[r][j] = tmp[r][j]
      BY <1>1, <1>2, <1>3
  <2>2. /\ next'[r] = 1
        /\ call'[r].client # "other" => parts'[r] = Body(call'[r])
        /\ \A j \in Key : tmp[r][j] # None => dir[tmp[r][j]] = {}
      BY <1>2 DEF Files, Way, Begun, SentAsWalked, Fresh, Handling
  <2>3. \A j \in Key : tmp'[r][j] # None => dir'[tmp'[r][j]] = {}
      BY <1>2, <1>4, <2>1, <2>2 DEF Handling
  <2>4. pc'[r] = "unpack" => \A j \in Key : tmp'[r][j] # None
    <3>1. d # None
        BY UploadsAssumption
    <3> QED
        BY <1>2, <2>1, <3>1 DEF Key
  <2>5. Filled(r)'
    <3>1. \A j \in Key : Unpacked(call'[r], j, next'[r]) = {}
        BY <1>2, <1>3, <2>2, UnpackedNone
    <3> QED
        BY <2>3, <2>4, <3>1 DEF Filled
  <2>6. Begun(r)' /\ SentAsWalked(r)' /\ Fresh(r)'
      BY <2>2, <2>3 DEF Begun, SentAsWalked, Fresh
  <2>7. Seen(r)' /\ Accepted(r)'
      BY <2>1 DEF Seen, Accepted
  <2> QED
      BY <2>5, <2>6, <2>7 DEF Way
<1> QED
    BY <1>5, <1>6 DEF Files

(* The part at hand is a file the client sent, under its own name. *)
LEMMA PartAtHand ==
    ASSUME Data, Files, NEW r \in Request, pc[r] = "unpack", next[r] <= Len(parts[r]),
           Plain(call[r])
    PROVE  /\ parts[r] = Body(call[r]) /\ next[r] \in 1..Len(Body(call[r]))
           /\ \E l \in Key : \E g \in Sent(call[r], l) :
                 /\ parts[r][next[r]] = addFileToWriter(l, g)
                 /\ parts[r][next[r]].key = l /\ parts[r][next[r]].body = g.body
                 /\ uploadPath(parts[r][next[r]].name) \subseteq {g.name}
                 /\ uploadPath(parts[r][next[r]].name) = {} => IsPrefix(<<Dot, Dot>>, g.name)
                 /\ g \in call[r][l].files
<1> DEFINE c == call[r]
           n == next[r]
           b == Body(c)
<1>1. c \in Calls /\ c.client # "other" /\ n \in Nat \ {0} /\ \A k \in Key : c[k].kind = "dir"
    BY DEF Data, Plain
<1>2. parts[r] = b
    BY <1>1 DEF Files, Way, SentAsWalked, Handling
<1>3. /\ b \in Seq(Part)
      /\ \A i \in DOMAIN b : \E l \in Key : \E g \in Sent(c, l) : b[i] = addFileToWriter(l, g)
    BY <1>1, BodyParts
<1> HIDE DEF c, b, n
<1>4. n \in 1..Len(b) /\ n \in DOMAIN b
  <2>1. n <= Len(b)
      BY <1>2 DEF n
  <2> QED
      BY <1>1, <1>3, <2>1, LenProperties
<1>5. PICK l \in Key : \E g \in Sent(c, l) : b[n] = addFileToWriter(l, g)
    BY <1>3, <1>4
<1>6. PICK g \in Sent(c, l) : b[n] = addFileToWriter(l, g)
    BY <1>5
<1>7. g \in c[l].files /\ g.name \in Name /\ Proper(g.name)
    BY <1>1, SentOfDirectory
<1>8. b[n].key = l /\ b[n].body = g.body /\ b[n].name = PathEscape(g.name)
    BY <1>6 DEF addFileToWriter
<1>9. /\ uploadPath(b[n].name) \subseteq {g.name}
      /\ uploadPath(b[n].name) = {} => IsPrefix(<<Dot, Dot>>, g.name)
    BY <1>7, <1>8, UploadPathOfWalked
<1> QED
    BY <1>2, <1>4, <1>6, <1>7, <1>8, <1>9 DEF b, c, n

(* A file is added to those of the same key: none of them has its name. *)
LEMMA Added ==
    ASSUME NEW c \in Calls, NEW k \in Key, NEW D \in SUBSET Sent(c, k), NEW g \in Sent(c, k)
    PROVE  {f \in D : f.name # g.name} \cup {[name |-> g.name, body |-> g.body]} = D \cup {g}
<1>1. Directory(Sent(c, k))
    BY SentFiles
<1>2. g \in File /\ \A f \in D : f.name = g.name => f = g
    BY <1>1 DEF Directory
<1>3. [name |-> g.name, body |-> g.body] = g
    BY <1>2 DEF File
<1> QED
    BY <1>2, <1>3

LEMMA WriteFiles ==
    ASSUME Inv, Data, Files, NEW r \in Request, writeMultipartFile(r)
    PROVE  Files'
<1> DEFINE p == parts[r][next[r]]
           d == tmp[r][p.key]
<1>1. /\ pc[r] = "unpack" /\ next[r] <= Len(parts[r])
      /\ next' = [next EXCEPT ![r] = next[r] + 1]
      /\ UNCHANGED <<pc, call, parts, tmp, got>>
    BY DEF writeMultipartFile
<1>2. PICK n \in uploadPath(p.name) :
          dir' = [dir EXCEPT ![d] = {f \in dir[d] : f.name # n} \cup {[name |-> n, body |-> p.body]}]
    BY DEF writeMultipartFile
<1>3. /\ next \in [Request -> Nat \ {0}] /\ tmp \in [Request -> [Key -> TempDir \cup {None}]]
      /\ dir \in [TempDir -> SUBSET File] /\ call[r] \in Calls /\ Ready
    BY DEF Inv, Ctl, Data
<1>4. p.key \in Key
  <2>1. parts[r] \in Seq(Part) /\ next[r] \in 1..Len(parts[r])
      BY <1>1 DEF Data
  <2>2. p \in Part
      BY <2>1, ElementOfSeq
  <2> QED
      BY <2>2 DEF Part
<1>5. d # None /\ d \in TempDir
    BY <1>1, <1>3, <1>4 DEF Ready
<1>6. \A s \in Request : \A k \in Key :
          pc[s] \in Handling /\ tmp[s][k] # None /\ (s # r \/ k # p.key)
              => dir'[tmp[s][k]] = dir[tmp[s][k]]
  <2> SUFFICES ASSUME NEW s \in Request, NEW k \in Key, pc[s] \in Handling, tmp[s][k] # None,
                      s # r \/ k # p.key
               PROVE  dir'[tmp[s][k]] = dir[tmp[s][k]]
      OBVIOUS
  <2>1. tmp[s][k] # d
      BY <1>1, <1>4, <1>5 DEF Inv, Owned, Handling
  <2> QED
      BY <1>2, <1>3, <2>1
<1>7. ASSUME NEW s \in Request, s # r PROVE Way(s)'
  <2>1. next'[s] = next[s] /\ Way(s)
      BY <1>1, <1>3, <1>7 DEF Files
  <2>2. \A k \in Key : pc[s] \in {"temp", "unpack"} /\ tmp[s][k] # None
                          => dir'[tmp[s][k]] = dir[tmp[s][k]]
      BY <1>6, <1>7 DEF Handling
  <2> QED
      BY <1>1, <1>3, <2>1, <2>2, Undisturbed
<1>8. Way(r) /\ pc'[r] = "unpack"
    BY <1>1 DEF Files
<1>9. ASSUME Plain(call[r]), NEW k \in Key
      PROVE  dir'[tmp[r][k]] = Unpacked(call[r], k, next[r] + 1)
  <2>1. parts[r] = Body(call[r]) /\ next[r] \in 1..Len(Body(call[r])) /\ call[r].client # "other"
      BY <1>1, <1>9, PartAtHand DEF Plain
  <2>2. PICK l \in Key : \E g \in Sent(call[r], l) :
            /\ p = addFileToWriter(l, g) /\ p.key = l /\ p.body = g.body
            /\ uploadPath(p.name) \subseteq {g.name}
      BY <1>1, <1>9, PartAtHand
  <2>3. PICK g \in Sent(call[r], l) :
            /\ p = addFileToWriter(l, g) /\ p.key = l /\ p.body = g.body
            /\ uploadPath(p.name) \subseteq {g.name}
      BY <2>2
  <2>4. \A j \in Key : dir[tmp[r][j]] = Unpacked(call[r], j, next[r])
      BY <1>1, <1>8, <1>9 DEF Way, Filled
  <2>5. /\ k = l => Unpacked(call[r], k, next[r] + 1) = Unpacked(call[r], k, next[r]) \cup {g}
        /\ k # l => Unpacked(call[r], k, next[r] + 1) = Unpacked(call[r], k, next[r])
        /\ Unpacked(call[r], k, next[r]) \in SUBSET Sent(call[r], k)
    <3>1. Body(call[r])[next[r]] = addFileToWriter(l, g)
        BY <2>1, <2>3
    <3>2. Unpacked(call[r], k, next[r]) \in SUBSET Sent(call[r], k)
        BY DEF Unpacked
    <3>3. call[r] \in Calls
        BY <1>3
    <3>4. \E c \in Calls : \E i \in 1..Len(Body(c)) : c = call[r] /\ i = next[r]
        BY <2>1, <3>3
    <3>5. PICK c \in Calls : \E i \in 1..Len(Body(c)) : c = call[r] /\ i = next[r]
        BY <3>4
    <3>6. PICK i \in 1..Len(Body(c)) : c = call[r] /\ i = next[r]
        BY <3>5
    <3>7. c.client # "other" /\ Body(c)[i] = addFileToWriter(l, g) /\ g \in Sent(c, l)
        BY <2>1, <3>1, <3>6
    <3>8. /\ k = l => Unpacked(c, k, i + 1) = Unpacked(c, k, i) \cup {g}
          /\ k # l => Unpacked(c, k, i + 1) = Unpacked(c, k, i)
        BY <3>7, UnpackedStep
    <3> QED
        BY <3>2, <3>6, <3>8
  <2>6. CASE k # l
    <3>1. tmp[r][k] # None
        BY <1>1, <1>3 DEF Ready
    <3>2. dir'[tmp[r][k]] = dir[tmp[r][k]]
        BY <1>1, <1>6, <2>3, <2>6, <3>1 DEF Handling
    <3> QED
        BY <2>4, <2>5, <2>6, <3>2
  <2>7. CASE k = l
    <3>1. n = g.name /\ p.body = g.body /\ d = tmp[r][k]
        BY <1>2, <2>3, <2>7
    <3>2. dir'[d] = {f \in dir[d] : f.name # n} \cup {[name |-> n, body |-> p.body]}
        BY <1>2, <1>3, <1>5
    <3> HIDE DEF d, p
    <3>3. dir'[d] = {f \in dir[d] : f.name # g.name} \cup {[name |-> g.name, body |-> g.body]}
        BY <3>1, <3>2
    <3>4. dir[d] \in SUBSET Sent(call[r], k) /\ dir[d] = Unpacked(call[r], k, next[r])
        BY <2>4, <2>5, <3>1
    <3>5. dir'[d] = dir[d] \cup {g}
        BY <1>3, <2>7, <3>3, <3>4, Added
    <3> QED
        BY <2>5, <2>7, <3>1, <3>4, <3>5
  <2> QED
      BY <2>6, <2>7
<1>a. Filled(r)'
  <2>1. next'[r] = next[r] + 1
      BY <1>1, <1>3
  <2> QED
      BY <1>1, <1>9, <2>1 DEF Filled
<1>b. Begun(r)' /\ Fresh(r)' /\ Seen(r)' /\ Accepted(r)'
    BY <1>8 DEF Begun, Fresh, Seen, Accepted
<1>c. SentAsWalked(r)'
    BY <1>1, <1>8 DEF Way, SentAsWalked
<1>d. Way(r)'
    BY <1>a, <1>b, <1>c DEF Way
<1> QED
    BY <1>7, <1>d DEF Files

LEMMA RefuseFiles ==
    ASSUME Inv, Data, Files, NEW r \in Request, RefuseName(r)
    PROVE  Files'
<1>1. /\ pc[r] = "unpack" /\ next[r] <= Len(parts[r]) /\ pc' = [pc EXCEPT ![r] = "refused"]
      /\ uploadPath(parts[r][next[r]].name) = {}
      /\ UNCHANGED <<call, parts, next, tmp, dir, got>>
    BY DEF RefuseName, End, Goto
<1>2. pc \in [Request -> PC] /\ Ready /\ call[r] \in Calls
    BY DEF Inv, Ctl, Data
<1>3. pc'[r] = "refused"
    BY <1>1, <1>2
<1>4. ASSUME call[r].client # "other" PROVE Excuse(call[r])
  <2>1. CASE Plain(call[r])
      BY <1>1, <2>1, PartAtHand DEF Excuse
  <2>2. CASE ~Plain(call[r])
      BY <1>2, <1>4, <2>2, CallFields DEF Plain, Excuse
  <2> QED
      BY <2>1, <2>2
<1>5. Way(r)'
    BY <1>1, <1>3, <1>4 DEF Way, Begun, SentAsWalked, Fresh, Filled, Seen, Accepted, Handling
<1> QED
    BY <1>1, <1>2, <1>5, OneWay

LEMMA AdminFiles ==
    ASSUME Inv, Data, Files, NEW r \in Request, CallAdmin(r)
    PROVE  Files'
<1> DEFINE c == call[r]
           m == dir[tmp[r]["migrations"]]
           x == dir[tmp[r]["fixtures"]]
<1>1. /\ pc[r] = "unpack" /\ next[r] > Len(parts[r]) /\ pc' = [pc EXCEPT ![r] = "admin"]
      /\ got' = [got EXCEPT ![r] =
                    [migrations |-> MigrationFiles(getFiles(m)), fixtures |-> getFiles(x)]]
      /\ UNCHANGED <<call, parts, next, tmp, dir>>
    BY DEF CallAdmin, Goto
<1>2. /\ pc \in [Request -> PC] /\ Ready /\ c \in Calls /\ next[r] \in Nat
      /\ got \in [Request -> [Key -> Seq(File)]]
    BY DEF Inv, Ctl, Data
<1>3. Way(r) /\ pc'[r] = "admin"
    BY <1>1, <1>2 DEF Files
<1>4. ASSUME Plain(c), NEW k \in Key
      PROVE  dir[tmp[r][k]] = {f \in c[k].files : k = "migrations" => f.name \in c.pattern}
  <2>1. c.client # "other" /\ c[k].kind = "dir"
      BY <1>4 DEF Plain
  <2>2. next[r] > Len(Body(c))
      BY <1>1, <1>3, <2>1 DEF Way, SentAsWalked, Handling
  <2>3. dir[tmp[r][k]] = Unpacked(c, k, next[r])
      BY <1>1, <1>3, <1>4 DEF Way, Filled
  <2>4. dir[tmp[r][k]] = Sent(c, k)
      BY <1>2, <2>1, <2>2, <2>3, UnpackedAll
  <2> QED
      BY <1>2, <2>1, <2>4, SentOfDirectory
<1>5. ASSUME Plain(c)
      PROVE  m = {f \in c.migrations.files : f.name \in c.pattern} /\ x = c.fixtures.files
    BY <1>4, <1>5 DEF Key
<1>6. /\ got'[r]["migrations"] = MigrationFiles(getFiles(m))
      /\ got'[r]["fixtures"] = getFiles(x)
    BY <1>1, <1>2
<1> HIDE DEF m, x
<1>7. Seen(r)'
    BY <1>1, <1>5, <1>6 DEF Seen
<1>8. Begun(r)' /\ Fresh(r)' /\ Filled(r)' /\ Accepted(r)'
    BY <1>3 DEF Begun, Fresh, Filled, Accepted
<1>9. SentAsWalked(r)'
    BY <1>1, <1>3 DEF Way, SentAsWalked, Handling
<1>a. Way(r)'
    BY <1>7, <1>8, <1>9 DEF Way
<1> QED
    BY <1>1, <1>2, <1>a, OneWay

LEMMA NextFiles == Inv /\ Data /\ Files /\ [Next]_vars => Files'
<1> SUFFICES ASSUME Inv, Data, Files, [Next]_vars PROVE Files'
    OBVIOUS
<1>0. pc \in [Request -> PC] /\ Ready
    BY DEF Inv, Ctl, Data
<1>1. ASSUME NEW r \in Request, Begin(r) PROVE Files'
    BY <1>1, BeginFiles
<1>2. ASSUME NEW r \in Request, Walk(r) PROVE Files'
    BY <1>2, WalkFiles
<1>3. ASSUME NEW r \in Request, CreateDB(r) PROVE Files'
    BY <1>3, CreateFiles
<1>4. ASSUME NEW r \in Request, NEW k \in Key, MkdirTemp(r, k) PROVE Files'
    BY <1>4, MkdirFiles
<1>5. ASSUME NEW r \in Request, writeMultipartFile(r) PROVE Files'
    BY <1>5, WriteFiles
<1>6. ASSUME NEW r \in Request, RefuseName(r) PROVE Files'
    BY <1>6, RefuseFiles
<1>7. ASSUME NEW r \in Request, CallAdmin(r) PROVE Files'
    BY <1>7, AdminFiles
<1>8. ASSUME NEW r \in Request, Answer(r) PROVE Files'
  <2>1. /\ pc[r] = "admin" /\ pc' = [pc EXCEPT ![r] = "done"]
        /\ UNCHANGED <<call, parts, next, tmp, dir, got>>
      BY <1>8 DEF Answer, End, Goto
  <2>2. pc'[r] = "done" /\ Seen(r)
      BY <1>0, <2>1 DEF Files, Way
  <2>3. Way(r)'
      BY <2>1, <2>2 DEF Way, Begun, SentAsWalked, Fresh, Filled, Seen, Accepted, Handling
  <2> QED
      BY <1>0, <2>1, <2>3, OneWay
<1>9. ASSUME NEW r \in Request, HandlerFails(r) PROVE Files'
  <2>1. pc' = [pc EXCEPT ![r] = "failed"] /\ UNCHANGED <<call, parts, next, tmp, dir, got>>
      BY <1>9 DEF HandlerFails, End, Goto
  <2> QED
      BY <1>0, <2>1, FailedWay, OneWay
<1>a. CASE Exit
  <2>1. /\ UNCHANGED <<call, parts, next, tmp, dir, got>>
        /\ pc' = [r \in Request |-> IF pc[r] \in Handling THEN "failed" ELSE pc[r]]
      BY <1>a DEF Exit
  <2>2. ASSUME NEW s \in Request PROVE Way(s)'
    <3>1. CASE pc[s] \in Handling
        BY <2>1, <3>1, FailedWay
    <3>2. CASE pc[s] \notin Handling
      <4>1. pc'[s] = pc[s] /\ Way(s)
          BY <2>1, <3>2 DEF Files
      <4> QED
          BY <1>0, <2>1, <4>1, Undisturbed
    <3> QED
        BY <3>1, <3>2
  <2> QED
      BY <2>2 DEF Files
<1>b. CASE UNCHANGED vars
  <2>1. ASSUME NEW s \in Request PROVE Way(s)'
    <3>1. Way(s) /\ UNCHANGED <<pc, call, parts, next, tmp, dir, got>>
        BY <1>b DEF vars, Files
    <3> QED
        BY <1>0, <3>1, Undisturbed
  <2> QED
      BY <2>1 DEF Files
<1> QED
    BY <1>1, <1>2, <1>3, <1>4, <1>5, <1>6, <1>7, <1>8, <1>9, <1>a, <1>b DEF Next, Handler

LEMMA AlwaysFiles == Spec => []Files
<1>1. Spec => []Inv
    BY InitInv, NextInv, PTL DEF Spec
<1>2. Spec => []Data
    BY <1>1, InitData, NextData, PTL DEF Spec
<1> QED
    BY <1>1, <1>2, InitFiles, NextFiles, PTL DEF Spec

(* What the admin code lists is the SQL files of the directory, in order. *)
LEMMA Listed ==
    ASSUME NEW D, Directory(D)
    PROVE  /\ Lists(getFiles(D), {f \in D : IsSql(f)})
           /\ Lists(MigrationFiles(getFiles(D)),
                    {f \in D : IsSql(f) /\ ~IsSuffix(<<Down, Dot, Sql>>, f.name)})
<1> DEFINE S == {f \in D : IsSuffix(<<Dot, Sql>>, f.name)}
           ups == MigrationFiles(getFiles(D))
<1>1. Directory(S)
  <2>1. S \in SUBSET D
      OBVIOUS
  <2> HIDE DEF S
  <2> QED
      BY <2>1, FS_Subset DEF Directory
<1>2. getFiles(D) = Sorted(S) /\ S = {f \in D : IsSql(f)}
    BY DEF getFiles, IsSql
<1> HIDE DEF S
<1>3. Lists(getFiles(D), {f \in D : IsSql(f)})
  <2>1. Ascending(Sorted(S)) /\ {Sorted(S)[i] : i \in DOMAIN Sorted(S)} = S
      BY <1>1, SortedFiles
  <2>2. Lists(Sorted(S), S)
      BY <2>1 DEF Lists
  <2> QED
      BY <1>2, <2>2
<1>4. /\ Ascending(ups)
      /\ {ups[i] : i \in DOMAIN ups}
           = {f \in D : IsSuffix(<<Dot, Sql>>, f.name) /\ ~IsDown(f)}
    BY MigrationsInOrder
<1>5. {f \in D : IsSuffix(<<Dot, Sql>>, f.name) /\ ~IsDown(f)}
        = {f \in D : IsSql(f) /\ ~IsSuffix(<<Down, Dot, Sql>>, f.name)}
    BY DEF IsSql, IsDown
<1> HIDE DEF ups
<1>6. Lists(ups, {f \in D : IsSql(f) /\ ~IsSuffix(<<Down, Dot, Sql>>, f.name)})
    BY <1>4, <1>5 DEF Lists
<1> QED
    BY <1>3, <1>6 DEF ups

(* What SeenAsLocal says of one request. *)
SeenOf(r) ==
    LET c == call[r] IN
    /\ Lists(got[r]["migrations"],
             {f \in c.migrations.files :
                 /\ f.name \in c.pattern /\ IsSql(f)
                 /\ ~IsSuffix(<<Down, Dot, Sql>>, f.name)})
    /\ Lists(got[r]["fixtures"], {f \in c.fixtures.files : IsSql(f)})

(* For any files and names, any number of requests at once, whatever fails *)
(* and whenever the process ends: the admin call of a client's request     *)
(* works with the files, and in the order, that dbctl start would take     *)
(* from the client's directory (getFilesList and addFileToWriter of        *)
(* client.go, uploadPath and writeMultipartFile of apiserver/server.go).   *)
THEOREM FilesSeenAsLocal == Spec => []SeenAsLocal
<1>1. Data /\ Files => SeenAsLocal
  <2> SUFFICES ASSUME Data, Files, NEW r \in Request,
                      pc[r] \in {"admin", "done"}, Plain(call[r])
               PROVE  SeenOf(r)
      BY DEF SeenAsLocal, SeenOf, Plain
  <2> DEFINE c == call[r]
             m == {f \in c.migrations.files : f.name \in c.pattern}
             x == c.fixtures.files
  <2>1. c \in Calls /\ c.migrations.kind = "dir" /\ c.fixtures.kind = "dir"
      BY DEF Data, Plain, Key
  <2>2. /\ got[r]["migrations"] = MigrationFiles(getFiles(m))
        /\ got[r]["fixtures"] = getFiles(x)
      BY DEF Files, Way, Seen
  <2>3. m = Sent(c, "migrations") /\ x = Sent(c, "fixtures")
      BY <2>1 DEF Sent, Walked
  <2>4. Directory(m) /\ Directory(x)
      BY <2>1, <2>3, SentFiles DEF Key
  <2>5. {f \in m : IsSql(f) /\ ~IsSuffix(<<Down, Dot, Sql>>, f.name)}
            = {f \in c.migrations.files :
                  /\ f.name \in c.pattern /\ IsSql(f)
                  /\ ~IsSuffix(<<Down, Dot, Sql>>, f.name)}
      OBVIOUS
  <2> HIDE DEF m, x
  <2>6. /\ Lists(got[r]["migrations"],
                 {f \in m : IsSql(f) /\ ~IsSuffix(<<Down, Dot, Sql>>, f.name)})
        /\ Lists(got[r]["fixtures"], {f \in x : IsSql(f)})
      BY <2>2, <2>4, Listed
  <2> QED
      BY <2>5, <2>6 DEF SeenOf, x
<1>2. Spec => []Inv
    BY InitInv, NextInv, PTL DEF Spec
<1>3. Spec => []Data
    BY <1>2, InitData, NextData, PTL DEF Spec
<1> QED
    BY <1>1, <1>3, AlwaysFiles, PTL

(* A well formed request of a client is refused only for a path that is no *)
(* directory, or for a name that begins with ".." (uploadPath of           *)
(* apiserver/server.go).                                                   *)
THEOREM WalkedFilesAccepted == Spec => []AcceptedAsWalked
<1>1. Files => AcceptedAsWalked
    BY DEF Files, Way, Accepted, Excuse, AcceptedAsWalked
<1> QED
    BY <1>1, AlwaysFiles, PTL

Within == \A d \in TempDir : \A f \in dir[d] : Proper(f.name)

LEMMA NextWithin == Inv /\ Data /\ Within /\ [Next]_vars => Within'
<1> SUFFICES ASSUME Inv, Data, Within, [Next]_vars PROVE Within'
    OBVIOUS
<1>0. dir \in [TempDir -> SUBSET File]
    BY DEF Data
<1>1. ASSUME NEW r \in Request, NEW k \in Key, MkdirTemp(r, k) PROVE Within'
  <2>1. PICK d \in TempDir : dir' = [dir EXCEPT ![d] = {}]
      BY <1>1 DEF MkdirTemp
  <2> QED
      BY <1>0, <2>1 DEF Within
<1>2. ASSUME NEW r \in Request, writeMultipartFile(r) PROVE Within'
  <2> DEFINE p == parts[r][next[r]]
             d == tmp[r][p.key]
  <2>1. PICK n \in uploadPath(p.name) :
            dir' = [dir EXCEPT ![d] = {f \in dir[d] : f.name # n} \cup {[name |-> n, body |-> p.body]}]
      BY <1>2 DEF writeMultipartFile
  <2>2. p.name \in Name
    <3>0. next[r] <= Len(parts[r])
        BY <1>2 DEF writeMultipartFile
    <3>1. parts[r] \in Seq(Part) /\ next[r] \in 1..Len(parts[r])
        BY <3>0 DEF Data
    <3>2. p \in Part
        BY <3>1, ElementOfSeq
    <3> QED
        BY <3>2 DEF Part
  <2>3. Proper(n)
      BY <2>2, UploadPathProper
  <2> HIDE DEF p, d
  <2> QED
      BY <1>0, <2>1, <2>3 DEF Within
<1>3. CASE UNCHANGED dir
    BY <1>3 DEF Within
<1>4. ASSUME NEW r \in Request,
             Begin(r) \/ Walk(r) \/ CreateDB(r) \/ RefuseName(r) \/ CallAdmin(r) \/ Answer(r)
                \/ HandlerFails(r)
      PROVE  UNCHANGED dir
    BY <1>4 DEF Begin, Walk, CreateDB, RefuseName, CallAdmin, Answer, HandlerFails
<1>5. CASE Exit
    BY <1>3, <1>5 DEF Exit
<1>6. CASE UNCHANGED vars
    BY <1>3, <1>6 DEF vars
<1> QED
    BY <1>1, <1>2, <1>3, <1>4, <1>5, <1>6 DEF Next, Handler

(* For parts of any name, sent by any client: what a handler has written   *)
(* is below its temporary directory (uploadPath and writeMultipartFile of  *)
(* apiserver/server.go).                                                   *)
THEOREM UploadsStayWithin == Spec => []WrittenWithin
<1>1. Spec => []Inv
    BY InitInv, NextInv, PTL DEF Spec
<1>2. Spec => []Data
    BY <1>1, InitData, NextData, PTL DEF Spec
<1>3. Init => Within
    BY DEF Init, Within
<1>4. Inv /\ Within => WrittenWithin
    BY DEF Inv, Ctl, Within, WrittenWithin
<1> QED
    BY <1>1, <1>2, <1>3, <1>4, NextWithin, PTL DEF Spec
=============================================================================
