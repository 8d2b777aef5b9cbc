------------------------------- MODULE Uploads -------------------------------
(***************************************************************************)
(* The way of migration and fixture files from the directory of a client   *)
(* to the admin call of the api server: the client walks its directory and *)
(* puts the files into a multipart body, the handler of /create unpacks    *)
(* them into two temporary directories, which the admin code lists again.  *)
(*                                                                         *)
(* Requests run concurrently, every step can fail, and the server process  *)
(* can end in the middle of its handlers; what it leaves in /tmp is there  *)
(* when it is started again.                                               *)
(*                                                                         *)
(* Names are the sequences of tokens of Migrations.  Clients are the Go    *)
(* client, the Python client and others, which name their parts as they    *)
(* like.  Multipart parsing and the file system are external.              *)
(***************************************************************************)
EXTENDS Migrations, SequencesExt

CONSTANTS
    Request,            \* the requests
    Calls,              \* what the clients may ask for
    TempDir,            \* the names os.MkdirTemp may come up with
    None,               \* no directory
    MaxExits            \* bound: how often the server process ends

Name == Seq(Nat)
File == [name : Name, body : Seq(Nat)]
Key == {"migrations", "fixtures"}
Part == [key : Key, name : Name, body : Seq(Nat)]

(* A path that was given: a directory with its files, or a single file. *)
Source == [kind : {"dir", "file"}, files : SUBSET File]

(* form: the type and the port are valid.  pattern: the names the regex    *)
(* matches, of migrations only.  parts: what other clients send, without   *)
(* the parts that have no file name, which are form values and no files.   *)
Call == [client : {"go", "python", "other"}, form : BOOLEAN, migrations : Source,
         fixtures : Source, pattern : SUBSET Name, parts : Seq(Part)]

ASSUME UploadsAssumption ==
    /\ Calls \subseteq Call /\ Calls # {}
    /\ \A c \in Calls : \A i \in DOMAIN c.parts : c.parts[i].name # <<>>
    /\ None \notin TempDir
    /\ MaxExits \in Nat

VARIABLES
    pc,                 \* pc[r], where request r is
    call,               \* call[r], what its client asked for
    parts,              \* parts[r], the parts of its body
    next,               \* next[r], the next part to unpack
    tmp,                \* tmp[r][k], its directory for the files of key k
    made,               \* the temporary directories that exist
    dir,                \* dir[d], the files in directory d
    got,                \* got[r][k], the files the admin call works with
    left,               \* the directories of processes that ended
    exits               \* how often the server process ended

vars == <<pc, call, parts, next, tmp, made, dir, got, left, exits>>

Handling == {"temp", "unpack", "admin"}
PC == {"idle", "walk", "send", "done", "failed", "refused"} \cup Handling

TypeOK ==
    /\ pc \in [Request -> PC]
    /\ call \in [Request -> Calls]
    /\ parts \in [Request -> Seq(Part)]
    /\ next \in [Request -> Nat \ {0}]
    /\ tmp \in [Request -> [Key -> TempDir \cup {None}]]
    /\ made \subseteq TempDir
    /\ dir \in [TempDir -> SUBSET File]
    /\ got \in [Request -> [Key -> Seq(File)]]
    /\ left \subseteq TempDir
    /\ exits \in 0..MaxExits

Goto(r, l) == pc' = [pc EXCEPT ![r] = l]

-----------------------------------------------------------------------------
(* Names *)

(* The pieces of a name between its separators, token by token. *)
ElementsStep(es, t) ==
    IF t = Slash THEN Append(es, <<>>) ELSE [es EXCEPT ![Len(es)] = Append(@, t)]

Elements(n) ==
    LET es[i \in 0..Len(n)] ==
            IF i = 0 THEN << <<>> >> ELSE ElementsStep(es[i - 1], n[i])
    IN  es[Len(n)]

Join(es) == IF es = <<>> THEN <<>>
            ELSE Tail(FlattenSeq([k \in DOMAIN es |-> <<Slash>> \o es[k]]))

(* Mutant: only the separators are escaped. *)
PathEscapeSlashes(n) ==
    FlattenSeq([i \in DOMAIN n |-> IF n[i] = Slash THEN <<Percent, Hex2F>> ELSE <<n[i]>>])

escape(t) == CASE t = Slash -> <<Percent, Hex2F>>
               [] t = Percent -> <<Percent, Hex25>>
               [] OTHER -> <<t>>

PathEscape(n) == FlattenSeq([i \in DOMAIN n |-> escape(n[i])])

(* The codes of the tokens that mean something to the server: any other    *)
(* code stands for a letter, which is like any other token.                *)
Codes == {Hex25, Hex2E, Hex2F}
decoded(h) == CASE h = Hex2F -> Slash [] h = Hex2E -> Dot [] OTHER -> Percent

(* What the token at i contributes to the decoded name. *)
unescape(n, i) ==
    CASE n[i] = Percent -> <<decoded(n[i + 1])>>
      [] i > 1 /\ n[i - 1] = Percent -> <<>>
      [] OTHER -> <<n[i]>>

Encoded(n) ==
    \A i \in DOMAIN n : n[i] = Percent => i < Len(n) /\ n[i + 1] \in Codes

(* A name that is not a valid encoding is taken as it is. *)
PathUnescape(n) ==
    IF Encoded(n) THEN FlattenSeq([i \in DOMAIN n |-> unescape(n, i)]) ELSE n

(* Multipart parsing reduces a name to its last element. *)
Base(n) ==
    LET kept == {i \in DOMAIN n : n[i] # Slash}
        cuts == {i \in DOMAIN n : n[i] = Slash /\ i < Max(kept)}
    IN  IF n = <<>> THEN <<Dot>>
        ELSE IF kept = {} THEN <<Slash>>
        ELSE SubSeq(n, Max(cuts \cup {0}) + 1, Max(kept))

(* One element more for the result of Clean. *)
CleanStep(rooted, out, e) ==
    LET up == <<Dot, Dot>> IN
    CASE e \in {<<>>, <<Dot>>} -> out
      [] e = up /\ out # <<>> /\ Last(out) # up -> Front(out)
      [] e = up /\ out = <<>> /\ rooted -> out
      [] OTHER -> Append(out, e)

Clean(n) ==
    LET rooted == IsPrefix(<<Slash>>, n)
        es == Elements(n)
        out[i \in 0..Len(es)] ==
            IF i = 0 THEN <<>> ELSE CleanStep(rooted, out[i - 1], es[i])
        name == Join(out[Len(es)])
    IN  IF rooted THEN <<Slash>> \o name
        ELSE IF out[Len(es)] = <<>> THEN <<Dot>> ELSE name

(* Mutant: strings.Contains(name, ".."). *)
uploadPathContains(filename) ==
    LET name == Clean(PathUnescape(filename))
    IN  IF \/ name = <<Dot>>
           \/ IsPrefix(<<Slash>>, name)
           \/ \E i \in 2..Len(name) : name[i - 1] = Dot /\ name[i] = Dot
        THEN {} ELSE {name}

(* Mutant: the name is checked before it is cleaned, and used as it came. *)
uploadPathUncleaned(filename) ==
    LET name == PathUnescape(filename)
    IN  IF name = <<Dot>> \/ IsPrefix(<<Slash>>, name) \/ IsPrefix(<<Dot, Dot>>, name)
        THEN {} ELSE {name}

(* The path below the directory, none if the name is refused. *)
uploadPath(filename) ==
    LET name == Clean(PathUnescape(filename))
    IN  IF name = <<Dot>> \/ IsPrefix(<<Slash>>, name) \/ IsPrefix(<<Dot, Dot>>, name)
        THEN {} ELSE {name}

-----------------------------------------------------------------------------
(* Clients *)

(* The walk gives paths relative to where it began: "." for a single file. *)
Walked(source) ==
    IF source.kind = "dir" THEN source.files
    ELSE {[f EXCEPT !.name = <<Dot>>] : f \in source.files}

(* A walk finds finitely many files, their names differ, and no element of *)
(* a name is empty, "." or "..".                                           *)
Proper(n) == \A k \in DOMAIN Elements(n) : Elements(n)[k] \notin {<<>>, <<Dot>>, <<Dot, Dot>>}

ASSUME WalkAssumption ==
    \A c \in Calls : \A k \in Key :
        /\ IsFiniteSet(c[k].files)
        /\ \A f, g \in Walked(c[k]) : f.name = g.name => f = g
        /\ \A f \in c[k].files : Proper(f.name)

getFilesList(source, pattern) == Sorted({f \in Walked(source) : f.name \in pattern})

addFileToWriter(key, f) == [key |-> key, name |-> PathEscape(f.name), body |-> f.body]

Body(c) ==
    LET files(k) == getFilesList(c[k], IF k = "migrations" THEN c.pattern
                                       ELSE {f.name : f \in Walked(c[k])})
        add(k) == [i \in DOMAIN files(k) |-> addFileToWriter(k, files(k)[i])]
    IN  IF c.client = "other" THEN c.parts ELSE add("migrations") \o add("fixtures")

Begin(r) ==
    /\ pc[r] = "idle"
    /\ \E c \in Calls : call' = [call EXCEPT ![r] = c]
    /\ Goto(r, "walk")
    /\ UNCHANGED <<parts, next, tmp, made, dir, got, left, exits>>

(* Only the Python client insists on directories. *)
NotDirectory(c) == c.client = "python" /\ \E k \in Key : c[k].kind = "file"

Walk(r) ==
    /\ pc[r] = "walk"
    /\ \/ /\ ~NotDirectory(call[r])
          /\ parts' = [parts EXCEPT ![r] = Body(call[r])]
          /\ Goto(r, "send")
       \/ /\ NotDirectory(call[r])
          /\ Goto(r, "refused")
          /\ UNCHANGED parts
       \/ /\ Goto(r, "failed")          \* a file or directory cannot be read
          /\ UNCHANGED parts
    /\ UNCHANGED <<call, next, tmp, made, dir, got, left, exits>>

-----------------------------------------------------------------------------
(* The handler of /create *)

(* Mutant: the directory of the fixtures is not removed. *)
EndKeepingFixtures(r, l) ==
    /\ Goto(r, l)
    /\ made' = made \ {tmp[r]["migrations"]}

(* The deferred calls of os.RemoveAll. *)
End(r, l) ==
    /\ Goto(r, l)
    /\ made' = made \ {tmp[r][k] : k \in Key}

ParseMultipartForm(body) ==
    [i \in DOMAIN body |-> [body[i] EXCEPT !.name = Base(body[i].name)]]

CreateDB(r) ==
    /\ pc[r] = "send"
    /\ \/ /\ call[r].form
          /\ parts' = [parts EXCEPT ![r] = ParseMultipartForm(@)]
          /\ Goto(r, "temp")
       \/ ~call[r].form /\ Goto(r, "refused") /\ UNCHANGED parts
       \/ Goto(r, "failed") /\ UNCHANGED parts          \* the server is not reached
    /\ UNCHANGED <<call, next, tmp, made, dir, got, left, exits>>

(* Mutant: the error is dropped, and with it the directory. *)
MkdirTempUnchecked(r, k) ==
    /\ pc[r] = "temp" /\ tmp[r][k] = None
    /\ k = "fixtures" => tmp[r]["migrations"] # None
    /\ \E d \in (TempDir \ made) \cup {""} :
        /\ made' = made \cup ({d} \ {""})
        /\ tmp' = [tmp EXCEPT ![r][k] = d]
        /\ IF d = "" THEN UNCHANGED dir ELSE dir' = [dir EXCEPT ![d] = {}]
    /\ Goto(r, IF k = "fixtures" THEN "unpack" ELSE "temp")
    /\ UNCHANGED <<call, parts, next, got, left, exits>>

(* A new directory: the one for migrations first. *)
MkdirTemp(r, k) ==
    /\ pc[r] = "temp" /\ tmp[r][k] = None
    /\ k = "fixtures" => tmp[r]["migrations"] # None
    /\ \E d \in TempDir \ made :
        /\ made' = made \cup {d}
        /\ tmp' = [tmp EXCEPT ![r][k] = d]
        /\ dir' = [dir EXCEPT ![d] = {}]
    /\ Goto(r, IF k = "fixtures" THEN "unpack" ELSE "temp")
    /\ UNCHANGED <<call, parts, next, got, left, exits>>

(* A name cannot be both a file and a directory. *)
Blocked(files, n) ==
    \E f \in files : IsPrefix(f.name \o <<Slash>>, n) \/ IsPrefix(n \o <<Slash>>, f.name)

(* The parts of one key are unpacked before those of the other, into       *)
(* different directories: the order between the keys makes no difference.  *)
writeMultipartFile(r) ==
    /\ pc[r] = "unpack" /\ next[r] <= Len(parts[r])
    /\ LET p == parts[r][next[r]]
           d == tmp[r][p.key]
       IN  \E n \in uploadPath(p.name) :
            /\ ~Blocked(dir[d], n)
            /\ dir' = [dir EXCEPT ![d] =
                          {f \in @ : f.name # n} \cup {[name |-> n, body |-> p.body]}]
    /\ next' = [next EXCEPT ![r] = @ + 1]
    /\ UNCHANGED <<pc, call, parts, tmp, made, got, left, exits>>

RefuseName(r) ==
    /\ pc[r] = "unpack" /\ next[r] <= Len(parts[r])
    /\ uploadPath(parts[r][next[r]].name) = {}
    /\ End(r, "refused")
    /\ UNCHANGED <<call, parts, next, tmp, dir, got, left, exits>>

(* The admin code lists the directories (getFiles, MigrationFiles). *)
CallAdmin(r) ==
    /\ pc[r] = "unpack" /\ next[r] > Len(parts[r])
    /\ got' = [got EXCEPT ![r] =
                  [migrations |-> MigrationFiles(getFiles(dir[tmp[r]["migrations"]])),
                   fixtures |-> getFiles(dir[tmp[r]["fixtures"]])]]
    /\ Goto(r, "admin")
    /\ UNCHANGED <<call, parts, next, tmp, made, dir, left, exits>>

Answer(r) ==
    /\ pc[r] = "admin"
    /\ End(r, "done")
    /\ UNCHANGED <<call, parts, next, tmp, dir, got, left, exits>>

(* A directory or a file cannot be made, or the admin call fails. *)
HandlerFails(r) ==
    /\ pc[r] \in Handling
    /\ End(r, "failed")
    /\ UNCHANGED <<call, parts, next, tmp, dir, got, left, exits>>

(* The process ends, and with it its handlers; nobody removes their files. *)
Exit ==
    /\ exits < MaxExits
    /\ exits' = exits + 1
    /\ left' = made
    /\ pc' = [r \in Request |-> IF pc[r] \in Handling THEN "failed" ELSE pc[r]]
    /\ UNCHANGED <<call, parts, next, tmp, made, dir, got>>

-----------------------------------------------------------------------------
Init ==
    /\ pc = [r \in Request |-> "idle"]
    /\ call = [r \in Request |-> CHOOSE c \in Calls : TRUE]
    /\ parts = [r \in Request |-> <<>>]
    /\ next = [r \in Request |-> 1]
    /\ tmp = [r \in Request |-> [k \in Key |-> None]]
    /\ made = {}
    /\ dir = [d \in TempDir |-> {}]
    /\ got = [r \in Request |-> [k \in Key |-> <<>>]]
    /\ left = {}
    /\ exits = 0

Handler(r) ==
    \/ CreateDB(r)
    \/ \E k \in Key : MkdirTemp(r, k)
    \/ writeMultipartFile(r) \/ RefuseName(r)
    \/ CallAdmin(r) \/ Answer(r) \/ HandlerFails(r)

Next ==
    \/ \E r \in Request : Begin(r) \/ Walk(r) \/ Handler(r)
    \/ Exit

Spec == Init /\ [][Next]_vars

-----------------------------------------------------------------------------
(* Properties *)

Ascending(s) == \A i, j \in DOMAIN s : i < j => Before(s[i].name, s[j].name)

(* Exactly the given files, in the order of their names. *)
Lists(s, files) == Ascending(s) /\ {s[i] : i \in DOMAIN s} = files

IsSql(f) == IsSuffix(<<Dot, Sql>>, f.name)

(* The admin call works with the very files that dbctl start would take    *)
(* from the directory of the client, in the order of their names: its SQL  *)
(* files, of the migrations those the regex matches and whose names do not *)
(* end in down.sql.  This is so also for nested directories and odd names  *)
(* ("files in subdirectories keep both their place and their order",       *)
(* client.go): nothing is lost on the way, and nothing of another request  *)
(* or of an earlier process is mixed in.                                   *)
SeenAsLocal ==
    \A r \in Request :
        LET c == call[r] IN
        /\ pc[r] \in {"admin", "done"}
        /\ c.client # "other"
        /\ \A k \in Key : c[k].kind = "dir"
        => /\ Lists(got[r]["migrations"],
                    {f \in c.migrations.files :
                        /\ f.name \in c.pattern /\ IsSql(f)
                        /\ ~IsSuffix(<<Down, Dot, Sql>>, f.name)})
           /\ Lists(got[r]["fixtures"], {f \in c.fixtures.files : IsSql(f)})

(* While a handler runs its temporary directories exist and nobody else    *)
(* uses them; when it is over, however it ended, they are gone, unless the *)
(* process ended in the middle (the deferred os.RemoveAll of CreateDB).    *)
TempDirsPrivate ==
    /\ \A r, s \in Request : \A k, l \in Key :
        pc[r] \in Handling /\ pc[s] \in Handling /\ tmp[r][k] # None
            => /\ tmp[r][k] \in made \ left
               /\ tmp[r][k] = tmp[s][l] => r = s /\ k = l
    /\ \A d \in made \ left : \E r \in Request :
        pc[r] \in Handling /\ \E k \in Key : tmp[r][k] = d

(* Whatever the parts of a request are called, its files are below its     *)
(* directory: no element of a path is empty, "." or ".." ("never let an    *)
(* upload write outside the directory it belongs to", uploadPath).         *)
WrittenWithin == \A d \in made : \A f \in dir[d] : Proper(f.name)

(* What a client finds in a directory is accepted: a well formed request   *)
(* of one of the clients is refused only for a path that is no directory   *)
(* or a name that begins with "..", which uploadPath takes for a way out.  *)
AcceptedAsWalked ==
    \A r \in Request :
        LET c == call[r] IN
        pc[r] = "refused" /\ c.form /\ c.client # "other" =>
            \E k \in Key :
                \/ c[k].kind = "file"
                \/ \E f \in c[k].files : IsPrefix(<<Dot, Dot>>, f.name)
=============================================================================
