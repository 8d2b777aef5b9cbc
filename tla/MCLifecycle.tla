---------------------------- MODULE MCLifecycle ----------------------------
(* Small instances of Lifecycle for TLC. *)
EXTENDS Lifecycle, TLC

CONSTANTS s1, s2

MCStarter == {s1, s2}
MCLabel == {"", "mine", "yours"}

Cmd(kind, label, prt, ui, detach, files) ==
    [kind |-> kind, label |-> label, port |-> prt, ui |-> ui, detach |-> detach,
     files |-> files]

(* Foreground postgres with a UI, detached mongodb with a UI on a port of  *)
(* its own choice, redis, and the api server.                              *)
MCOptions ==
    { Cmd("postgres", "mine", 1, TRUE, FALSE, TRUE),
      Cmd("mongodb", "", 0, TRUE, TRUE, TRUE),
      Cmd("redis", "yours", 2, FALSE, FALSE, TRUE),
      Cmd("apiserver", "mine", 1, FALSE, TRUE, FALSE) }

All == [filters |-> <<[type |-> "", custom |-> ""]>>, byName |-> FALSE, id |-> NoContainer]
Types(l) == [filters |-> <<[type |-> "postgres", custom |-> l], [type |-> "redis", custom |-> l]>>,
             byName |-> FALSE, id |-> NoContainer]
ByLabel(l) == [filters |-> <<[type |-> "", custom |-> l]>>, byName |-> TRUE, id |-> NoContainer]
ByID(c) == [filters |-> <<[type |-> "", custom |-> "none"]>>, byName |-> TRUE, id |-> c]

MCTargets == {Types("yours"), ByLabel("mine"), ByID(<<s1, "ui">>)}
MCLabels == MCLabel \cup {"none"}

(* Instances for single questions. *)
MCLive == {Cmd("postgres", "mine", 1, TRUE, FALSE, TRUE), Cmd("apiserver", "mine", 1, FALSE, TRUE, FALSE)}
MCForegroundPg == {Cmd("postgres", "mine", 1, FALSE, FALSE, TRUE)}
MCAll == {All}
MCNoTargets == {}
MCOne == {s1}
=============================================================================
