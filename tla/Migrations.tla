----------------------------- MODULE Migrations -----------------------------
(***************************************************************************)
(* The files a request uploads and what the postgres side derives from     *)
(* them: the sorted list of SQL files (getFiles), the list without the     *)
(* down migrations (MigrationFiles) and the name of the template database  *)
(* that caches them (templateName).  Everything here is a pure function of *)
(* a directory; PgAdmin uses the results.                                  *)
(*                                                                         *)
(* A directory is a set of files.  A file is a record of its name relative *)
(* to the directory and its body, both sequences of tokens.  Tokens are    *)
(* numbered in the byte order of the text they stand for, so that          *)
(* sort.Strings is the lexicographic order of the numbers.  Letter case,   *)
(* which the code folds, is abstracted away.                               *)
(***************************************************************************)
EXTENDS Naturals, SequencesExt

Percent == 0                \* "%"
Dot == 1                    \* "."
Slash == 2                  \* "/"
Hex25 == 3                  \* "25", the code of Percent
Hex2E == 4                  \* "2E", the code of Dot
Hex2F == 5                  \* "2F", the code of Slash
Down == 6                   \* "down"
Sql == 7                    \* "sql"
(* Tokens above Sql are any other piece of a name or of a body that does   *)
(* not begin with two hexadecimal digits.                                  *)

(* The order of sort.Strings on two names. *)
Before(a, b) ==
    \E i \in 1..Len(b) :
        /\ i <= Len(a) + 1
        /\ \A j \in 1..(i - 1) : a[j] = b[j]
        /\ i <= Len(a) => a[i] < b[i]

(* sort.Strings: the files in the order of their names, which differ. *)
Sorted(files) ==
    CHOOSE s \in [1..Cardinality(files) -> files] :
        \A i, j \in DOMAIN s : i < j => Before(s[i].name, s[j].name)

(* The walk keeps regular files whose extension is .sql, sorted by path.   *)
(* A path that is a single file is taken as it is, whatever its name, and  *)
(* is not here: the handlers always pass the directories they unpacked     *)
(* into, and PgAdmin takes the lists of dbctl start as constants.          *)
getFiles(dir) == Sorted({f \in dir : IsSuffix(<<Dot, Sql>>, f.name)})

IsDown(f) == IsSuffix(<<Down, Dot, Sql>>, f.name)

(* Up migrations only: a down migration would undo the schema. *)
MigrationFiles(files) ==
    LET kept[i \in 0..Len(files)] ==
            IF i = 0 THEN <<>>
            ELSE IF IsDown(files[i]) THEN kept[i - 1]
            ELSE Append(kept[i - 1], files[i])
    IN  kept[Len(files)]

(* What is fed to the hash: every relative name followed by its body.     *)
(* SHA-256 itself is taken to be injective on what it is fed.              *)
digest(files) == FlattenSeq([i \in DOMAIN files |-> files[i].name \o files[i].body])

templateName(files) == <<"dbctl_tpl", digest(files)>>
=============================================================================
