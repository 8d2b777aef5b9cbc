----------------------------- MODULE MCUploads -----------------------------
(***************************************************************************)
(* Directories with nested files, down migrations, a file that is no SQL,  *)
(* names with a percent sign, with what looks like an escaped separator    *)
(* and with dots, a name that is refused, and a path that is a file.       *)
(***************************************************************************)
EXTENDS Uploads, TLC

F(n, b) == [name |-> n, body |-> <<b>>]
A == F(<<17, Dot, Sql>>, 20)
ADown == F(<<17, Dot, Down, Dot, Sql>>, 21)
Nested == F(<<17, Slash, 18, Dot, Sql>>, 22)              \* a/b.sql
Literal == F(<<17, Percent, Hex2F, 18, Dot, Sql>>, 23)    \* a%2Fb.sql
Odd == F(<<17, Percent, Dot, Dot, Sql>>, 24)             \* a%..sql
Cooldown == F(<<19, Down, Dot, Sql>>, 31)
Readme == F(<<19>>, 25)
Hidden == F(<<Dot, Dot, 17, Slash, 18, Dot, Sql>>, 26)    \* ..a/b.sql

Dir(fs) == [kind |-> "dir", files |-> fs]
Single == [kind |-> "file", files |-> {A}]
Names == {f.name : f \in {A, ADown, Nested, Literal, Odd, Cooldown, Readme, Hidden}} \cup {<<Dot>>}
UpOnly == {A.name, Nested.name}

C(cl, m, p, f) == [client |-> cl, form |-> TRUE, migrations |-> m, fixtures |-> f,
                   pattern |-> p, parts |-> <<>>]
P(n, b) == [key |-> "migrations", name |-> n, body |-> <<b>>]

MCCalls ==
    { C("go", Dir({A, ADown, Nested, Literal}), Names, Dir({})),
      C("python", Dir({Odd, Cooldown, Nested, Readme}), Names, Dir({A})),
      C("go", Dir({A, ADown, Nested}), UpOnly, Dir({Literal})),
      C("go", Dir({A, Hidden}), Names, Dir({})),
      C("go", Single, Names, Dir({})),
      C("go", Single, UpOnly, Dir({})),
      C("python", Dir({}), Names, Single),
      [C("other", Dir({}), Names, Dir({})) EXCEPT !.parts =
          <<P(<<Dot, Percent, Hex2F, 17, Percent, Hex2F, Percent, Hex2F, 18, Dot, Sql>>, 27),
            P(<<18, Slash, 17, Percent, Dot, Sql>>, 28),
            P(<<18, Percent, Hex2F, Percent, Hex2E, Percent, Hex2F, 17, Percent, Hex2E, Sql>>, 32),
            P(<<19, Percent, Hex2F, Dot, Dot, Percent, Hex2F, 17, Dot, Sql>>, 29),
            P(<<17, Percent, Hex2F, 18, Dot, Sql, Percent, Hex2F, 19>>, 30)>>],
      [C("other", Dir({}), Names, Dir({})) EXCEPT !.parts =
          <<P(<<17, Percent, Hex2F, Percent, Hex2E, Dot, Percent, Hex2F, Percent, Hex2E, Percent, Hex2E>>, 33)>>],
      [C("other", Dir({}), Names, Dir({})) EXCEPT !.form = FALSE] }

Symmetry == Permutations(TempDir) \cup Permutations(Request)
=============================================================================
