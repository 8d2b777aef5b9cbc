---------------------------- MODULE MCDiscovery ----------------------------
(***************************************************************************)
(* A project with a label and one that has none or gives each database a   *)
(* label of its own, a server on the host, and instances of others: on the *)
(* default port, with the label of the project, with credentials of its    *)
(* own, and one started by an older dbctl.                                 *)
(***************************************************************************)
EXTENDS Discovery, TLC

CONSTANTS p1, h1

MCType == {"pg", "rs"}
MCDefaultPort == [t \in MCType |-> IF t = "pg" THEN 1 ELSE 2]

Cmd(t, l, p, s) == [type |-> t, label |-> l, port |-> p, secured |-> s]
Dash == Cmd("-", {}, {}, {})

MCCommandLines ==
    p1 :> { [label |-> {"mine"}, args |-> <<Cmd("pg", {}, {0}, {TRUE}), Dash, Cmd("rs", {}, {}, {})>>],
            [label |-> {}, args |-> <<Cmd("pg", {"mine"}, {}, {}), Dash, Dash, Cmd("rs", {"yours"}, {}, {}), Dash>>],
            [label |-> {}, args |-> <<Cmd("pg", {}, {3}, {}), Dash, Cmd("pg", {}, {0}, {})>>] }

(* The same databases again, with the first one on another port. *)
MCRerunLines ==
    p1 :> { [label |-> {}, args |-> <<Cmd("pg", {}, {}, {}), Dash, Cmd("rs", {}, {}, {})>>],
            [label |-> {}, args |-> <<Cmd("pg", {}, {3}, {}), Dash, Cmd("rs", {}, {}, {})>>] }

MCHostLabel == h1 :> "mine"

I(t, l, p, s, d) == [type |-> t, label |-> l, port |-> p, secured |-> s, described |-> d]
MCOthers == {I("pg", "", 1, FALSE, TRUE), I("pg", "mine", 3, TRUE, TRUE),
             I("pg", "yours", 3, FALSE, TRUE), I("pg", "mine", 2, FALSE, FALSE)}
=============================================================================
