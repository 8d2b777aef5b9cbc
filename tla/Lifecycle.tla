------------------------------ MODULE Lifecycle ------------------------------
(***************************************************************************)
(* The life of the containers dbctl manages on one docker daemon.          *)
(*                                                                         *)
(* A starter is one dbctl start {pg, rs, mongo} process or one dbctl       *)
(* api-server -t: it creates and starts a container, waits for the server  *)
(* in it, applies files, may add a web UI, and then detaches or serves     *)
(* until a signal.  A stopper is one dbctl stop process.  All of them call *)
(* the same daemon, their calls interleave, signals arrive at any time and *)
(* up to MaxFaults calls fail for reasons of their own.                    *)
(*                                                                         *)
(* The daemon is external and modelled from how internal/container uses    *)
(* it: a created container is invisible to List and binds no port, a port  *)
(* is bound while its container runs, removing an unknown container fails, *)
(* and a call whose context is done fails.                                 *)
(***************************************************************************)
EXTENDS Naturals, Sequences

CONSTANTS
    Starter,            \* the processes that start containers
    Stopper,            \* the dbctl stop processes
    Label,              \* the labels in use, "" for none
    Port,               \* the host ports
    UIPort,             \* 8081, the port of both web UIs
    Options,            \* the command lines of starters
    Targets,            \* the command lines of stoppers
    MaxFaults           \* how many calls fail on their own

Kind == {"postgres", "redis", "mongodb", "apiserver"}
Option == [kind : Kind, label : Label, port : Port \cup {0}, ui : BOOLEAN,
           detach : BOOLEAN, files : BOOLEAN]

ASSUME OptionAssumption ==
    /\ "" \in Label
    /\ 0 \notin Port
    /\ UIPort \in Port
    /\ MaxFaults \in Nat
    /\ Options \subseteq Option
    /\ Options # {}
    /\ \A o \in Options :
        /\ o.ui => o.kind \in {"postgres", "mongodb"}
        /\ o.kind = "apiserver" => o.detach /\ ~o.files

Container == Starter \X {"db", "ui"}
NoContainer == <<>>                     \* an id or a name docker does not know
Filter == [type : Kind \cup {"pgweb", "mongoexpress", ""}, custom : Label]
Target == [filters : Seq(Filter), byName : BOOLEAN, id : Container \cup {NoContainer}]

ASSUME TargetAssumption == Targets \subseteq Target

VARIABLES
    docker,             \* docker[c], what the daemon knows of container c
    pc,                 \* pc[s], where starter s is
    opt,                \* opt[s], its command line
    port,               \* port[s], cfg.port after startUsingDocker filled it in
    signalled,          \* starters whose context is cancelled
    wait,               \* wait[s], the error of WaitForStart's own context
    sp,                 \* sp[t], where stopper t is
    arg,                \* arg[t], its command line
    step,               \* step[t], the type it is at
    todo,               \* todo[t], what it still has to remove
    before,             \* before[t], what was running when t was called
    faults              \* calls that failed on their own

startVars == <<pc, opt, port, signalled, wait>>
stopVars == <<sp, arg, step, todo, before>>
vars == <<docker, startVars, stopVars, faults>>

Ended == {"done", "failed", "panic"}
PC == {"idle", "create", "start", "wait", "setup", "uicreate", "uistart", "serve",
       "closeui", "closedb", "close", "cleanup"} \cup Ended

TypeOK ==
    /\ docker \in [Container -> {"none", "created", "running", "removed"}]
    /\ pc \in [Starter -> PC]
    /\ opt \in [Starter -> Options]
    /\ port \in [Starter -> Port]
    /\ signalled \subseteq Starter
    /\ wait \in [Starter -> {"live", "canceled", "deadline"}]
    /\ sp \in [Stopper -> {"idle", "list", "remove", "done", "failed"}]
    /\ arg \in [Stopper -> Target]
    /\ step \in [Stopper -> Nat \ {0}]
    /\ todo \in [Stopper -> SUBSET (Container \cup {NoContainer})]
    /\ before \in [Stopper -> SUBSET Container]
    /\ faults \in 0..MaxFaults

-----------------------------------------------------------------------------
(* What the four kinds do differently *)

(* The errors of its context that end the loop waiting for the server; on  *)
(* any other error it tries again.  Redis compares with ==, which the      *)
(* wrapped error of a dial never satisfies.                                *)
pgWaitForStart == {"deadline"}
redisWaitForStart == {}
mongoWaitForStart == {"deadline"}

(* Mutant: only success ends the loop. *)
waitForPortForever == {}

waitForPort == {"deadline", "canceled"}

(* How Start handles the failure of a stage: return the error at once,     *)
(* close the database with the context it was given (close) or with a      *)
(* fresh one (cleanup), or call a closeFunc that is nil (panic).           *)

pgStart == [run |-> "failed", wait |-> "failed", setup |-> "failed", ui |-> "close"]
redisStart == [run |-> "panic", wait |-> "panic", setup |-> "close", ui |-> "failed"]
mongoStart == [run |-> "failed", wait |-> "failed", setup |-> "failed", ui |-> "close"]
RunAPIServerContainer ==
    [run |-> "failed", wait |-> "cleanup", setup |-> "failed", ui |-> "failed"]

GivesUp(s) ==
    CASE opt[s].kind = "postgres" -> pgWaitForStart
      [] opt[s].kind = "redis" -> redisWaitForStart
      [] opt[s].kind = "mongodb" -> mongoWaitForStart
      [] opt[s].kind = "apiserver" -> waitForPort

OnError(s) ==
    CASE opt[s].kind = "postgres" -> pgStart
      [] opt[s].kind = "redis" -> redisStart
      [] opt[s].kind = "mongodb" -> mongoStart
      [] opt[s].kind = "apiserver" -> RunAPIServerContainer

-----------------------------------------------------------------------------
(* Containers, their labels and ports *)

Present(c) == c \in Container /\ docker[c] \in {"created", "running"}

(* The labels and the port of the container.CreateRequest of each caller:  *)
(* the type is a label, and so is the user's label, which UIs do not get.  *)
pgStartUsingDocker(s) ==
    [type |-> "postgres", custom |-> opt[s].label, port |-> port[s]]
redisStartUsingDocker(s) ==
    [type |-> "redis", custom |-> opt[s].label, port |-> port[s]]
mongoStartUsingDocker(s) ==
    [type |-> "mongodb", custom |-> opt[s].label, port |-> port[s]]
apiServerRequest(s) ==
    [type |-> "apiserver", custom |-> opt[s].label, port |-> port[s]]
pgRunUI == [type |-> "pgweb", custom |-> "", port |-> UIPort]
mongoRunUI == [type |-> "mongoexpress", custom |-> "", port |-> UIPort]

CreateRequest(c) ==
    LET s == c[1] IN
    CASE c[2] = "db" /\ opt[s].kind = "postgres" -> pgStartUsingDocker(s)
      [] c[2] = "db" /\ opt[s].kind = "redis" -> redisStartUsingDocker(s)
      [] c[2] = "db" /\ opt[s].kind = "mongodb" -> mongoStartUsingDocker(s)
      [] c[2] = "db" /\ opt[s].kind = "apiserver" -> apiServerRequest(s)
      [] c[2] = "ui" /\ opt[s].kind = "postgres" -> pgRunUI
      [] c[2] = "ui" /\ opt[s].kind # "postgres" -> mongoRunUI

isPortFree(p) == \A c \in Container : docker[c] = "running" => CreateRequest(c).port # p

Matches(f, c) ==
    /\ f.type \in {"", CreateRequest(c).type}
    /\ f.custom \in {"", CreateRequest(c).custom}

(* Mutant: the labels passed in are ignored. *)
ListEverything(f) == {c \in Container : docker[c] = "running"}

(* Only running containers are listed. *)
List(f) == {c \in Container : docker[c] = "running" /\ Matches(f, c)}

Goto(s, l) == pc' = [pc EXCEPT ![s] = l]
Set(c, x) == docker' = [docker EXCEPT ![c] = x]
Fault == faults < MaxFaults /\ faults' = faults + 1

(* A call fails because of cause, or on its own. *)
Fails(cause) == \/ cause /\ UNCHANGED faults
                \/ Fault

-----------------------------------------------------------------------------
(* container.Run, for the database and for its UI *)

CreateAt(role) == IF role = "db" THEN "create" ELSE "uicreate"
StartAt(role) == IF role = "db" THEN "start" ELSE "uistart"
Running(s) == IF opt[s].detach THEN "done" ELSE "serve"

(* Mutant: port 0 is handed to docker. *)
BeginWithPortZero(s) ==
    /\ pc[s] = "idle"
    /\ \E o \in Options :
        /\ opt' = [opt EXCEPT ![s] = o]
        /\ port' = [port EXCEPT ![s] = o.port]
    /\ Goto(s, "create")
    /\ UNCHANGED <<docker, signalled, wait, stopVars, faults>>

(* The process is called; port 0 asks for a port that is free now.        *)
Begin(s) ==
    /\ pc[s] = "idle"
    /\ \E o \in Options : \E p \in Port :
        /\ opt' = [opt EXCEPT ![s] = o]
        /\ port' = [port EXCEPT ![s] = p]
        /\ IF o.port = 0 THEN isPortFree(p) ELSE p = o.port
    /\ Goto(s, "create")
    /\ UNCHANGED <<docker, signalled, wait, stopVars, faults>>

(* PullImage, the port check and ContainerCreate. *)
CreateContainer(s, role) ==
    /\ pc[s] = CreateAt(role)
    /\ s \notin signalled
    /\ isPortFree(CreateRequest(<<s, role>>).port)
    /\ Set(<<s, role>>, "created")
    /\ Goto(s, StartAt(role))
    /\ UNCHANGED <<opt, port, signalled, wait, stopVars, faults>>

(* The daemon binds the port, which somebody else may have taken since. *)
StartContainer(s, role) ==
    /\ pc[s] = StartAt(role)
    /\ s \notin signalled
    /\ docker[<<s, role>>] = "created"
    /\ isPortFree(CreateRequest(<<s, role>>).port)
    /\ Set(<<s, role>>, "running")
    /\ Goto(s, IF role = "db" THEN "wait" ELSE Running(s))
    /\ UNCHANGED <<opt, port, signalled, wait, stopVars, faults>>

(* Either call fails.  The daemon may have done the work all the same: a   *)
(* cancelled call does not tell.  What was created is not removed.         *)
RunFails(s, role) ==
    LET c == <<s, role>>
        creating == pc[s] = CreateAt(role)
        possible == /\ isPortFree(CreateRequest(c).port)
                    /\ creating \/ docker[c] = "created"
    IN  /\ pc[s] \in {CreateAt(role), StartAt(role)}
        /\ Fails(s \in signalled \/ ~possible)
        /\ Goto(s, OnError(s)[IF role = "db" THEN "run" ELSE "ui"])
        /\ \/ UNCHANGED docker
           \/ possible /\ Set(c, IF creating THEN "created" ELSE "running")
        /\ UNCHANGED <<opt, port, signalled, wait, stopVars>>

-----------------------------------------------------------------------------
(* WaitForStart *)

(* The server accepts the connection.  The databases are dialled with the  *)
(* context of the wait, the api server is not.                             *)
Ready(s) ==
    /\ pc[s] = "wait"
    /\ wait[s] = "live" \/ opt[s].kind = "apiserver"
    /\ docker[<<s, "db">>] = "running"
    /\ Goto(s, "setup")
    /\ UNCHANGED <<docker, opt, port, signalled, wait, stopVars, faults>>

(* The 20 seconds are over. *)
Deadline(s) ==
    /\ pc[s] = "wait"
    /\ wait[s] = "live"
    /\ wait' = [wait EXCEPT ![s] = "deadline"]
    /\ UNCHANGED <<docker, pc, opt, port, signalled, stopVars, faults>>

(* An attempt fails with an error that ends the loop. *)
WaitFails(s) ==
    /\ pc[s] = "wait"
    /\ wait[s] \in GivesUp(s)
    /\ Goto(s, OnError(s).wait)
    /\ UNCHANGED <<docker, opt, port, signalled, wait, stopVars, faults>>

(* An attempt fails with any other error. *)
Retry(s) ==
    /\ pc[s] = "wait"
    /\ UNCHANGED vars

-----------------------------------------------------------------------------
(* The rest of Start *)

(* Credentials, migrations and fixtures, where there are any. *)
Setup(s) ==
    /\ pc[s] = "setup"
    /\ opt[s].files => s \notin signalled /\ docker[<<s, "db">>] = "running"
    /\ Goto(s, IF opt[s].ui THEN "uicreate" ELSE Running(s))
    /\ UNCHANGED <<docker, opt, port, signalled, wait, stopVars, faults>>

SetupFails(s) ==
    /\ pc[s] = "setup"
    /\ opt[s].files
    /\ Fails(s \in signalled \/ docker[<<s, "db">>] # "running")
    /\ Goto(s, OnError(s).setup)
    /\ UNCHANGED <<docker, opt, port, signalled, wait, stopVars>>

(* SIGINT, SIGTERM, SIGHUP or SIGQUIT cancels the context of Start and     *)
(* with it the one WaitForStart derived, unless that is over already.      *)
Signal(s) ==
    /\ pc[s] \notin Ended \cup {"idle"}
    /\ s \notin signalled
    /\ signalled' = signalled \cup {s}
    /\ wait' = [wait EXCEPT ![s] = IF @ = "live" THEN "canceled" ELSE @]
    /\ UNCHANGED <<docker, pc, opt, port, stopVars, faults>>

(* <-ctx.Done() *)
Shutdown(s) ==
    /\ pc[s] = "serve"
    /\ s \in signalled
    /\ Goto(s, IF opt[s].ui THEN "closeui" ELSE "closedb")
    /\ UNCHANGED <<docker, opt, port, signalled, wait, stopVars, faults>>

(* Mutant: the UI is forgotten. *)
CloseUIForgotten(s) ==
    /\ pc[s] = "closeui"
    /\ Goto(s, "closedb")
    /\ UNCHANGED <<docker, opt, port, signalled, wait, stopVars, faults>>

CloseUI(s) ==
    /\ pc[s] = "closeui"
    /\ Present(<<s, "ui">>)
    /\ Set(<<s, "ui">>, "removed")
    /\ Goto(s, "closedb")
    /\ UNCHANGED <<opt, port, signalled, wait, stopVars, faults>>

CloseDB(s) ==
    /\ pc[s] = "closedb"
    /\ Present(<<s, "db">>)
    /\ Set(<<s, "db">>, "removed")
    /\ Goto(s, "done")
    /\ UNCHANGED <<opt, port, signalled, wait, stopVars, faults>>

(* Mutant: shutting down waits for a container that is gone. *)
CloseRetries(s, role) ==
    /\ pc[s] = IF role = "db" THEN "closedb" ELSE "closeui"
    /\ Fails(FALSE)
    /\ UNCHANGED <<docker, pc, opt, port, signalled, wait, stopVars>>

(* Removing fails: somebody else removed the container, or the daemon did  *)
(* not answer in time.  The error is returned at once.                     *)
CloseFails(s, role) ==
    /\ pc[s] = IF role = "db" THEN "closedb" ELSE "closeui"
    /\ Fails(~Present(<<s, role>>))
    /\ Goto(s, "failed")
    /\ \/ UNCHANGED docker
       \/ Present(<<s, role>>) /\ Set(<<s, role>>, "removed")
    /\ UNCHANGED <<opt, port, signalled, wait, stopVars>>

(* _ = closeFunc(ctx) after a failure.  With the context of Start it does  *)
(* nothing once that is cancelled.                                         *)
CloseAfterError(s) ==
    /\ pc[s] \in {"close", "cleanup"}
    /\ \/ /\ pc[s] = "cleanup" \/ s \notin signalled
          /\ Present(<<s, "db">>)
          /\ Set(<<s, "db">>, "removed")
          /\ UNCHANGED faults
       \/ /\ Fails((pc[s] = "close" /\ s \in signalled) \/ ~Present(<<s, "db">>))
          /\ UNCHANGED docker
    /\ Goto(s, "failed")
    /\ UNCHANGED <<opt, port, signalled, wait, stopVars>>

-----------------------------------------------------------------------------
(* dbctl stop *)

StopGoto(t, l) == sp' = [sp EXCEPT ![t] = l]

runStop(t) ==
    /\ sp[t] = "idle"
    /\ \E a \in Targets : arg' = [arg EXCEPT ![t] = a]
    /\ before' = [before EXCEPT ![t] = {c \in Container : docker[c] = "running"}]
    /\ StopGoto(t, "list")
    /\ UNCHANGED <<docker, startVars, step, todo, faults>>

(* One type after the other; a lone argument that is neither a type nor    *)
(* all is a label, or an id when nothing carries that label.               *)
StopList(t) ==
    /\ sp[t] = "list"
    /\ step[t] <= Len(arg[t].filters)
    /\ LET found == List(arg[t].filters[step[t]]) IN
        todo' = [todo EXCEPT ![t] =
            IF arg[t].byName /\ found = {} THEN {arg[t].id} ELSE found]
    /\ StopGoto(t, "remove")
    /\ UNCHANGED <<docker, startVars, arg, step, before, faults>>

StopListFails(t) ==
    /\ sp[t] = "list"
    /\ step[t] <= Len(arg[t].filters)
    /\ Fault
    /\ StopGoto(t, "failed")
    /\ UNCHANGED <<docker, startVars, arg, step, todo, before>>

StopRemove(t) ==
    /\ sp[t] = "remove"
    /\ \E c \in todo[t] :
        /\ Present(c)
        /\ Set(c, "removed")
        /\ todo' = [todo EXCEPT ![t] = @ \ {c}]
    /\ UNCHANGED <<startVars, sp, arg, step, before, faults>>

(* Mutant: an error is skipped and the next container tried. *)
StopRemoveGoesOn(t) ==
    /\ sp[t] = "remove"
    /\ \E c \in todo[t] :
        /\ Fails(~Present(c))
        /\ todo' = [todo EXCEPT ![t] = @ \ {c}]
    /\ UNCHANGED <<docker, startVars, sp, arg, step, before>>

(* The first error ends the command, what is left in todo stays. *)
StopRemoveFails(t) ==
    /\ sp[t] = "remove"
    /\ \E c \in todo[t] :
        /\ Fails(~Present(c))
        /\ \/ UNCHANGED docker
           \/ Present(c) /\ Set(c, "removed")
    /\ StopGoto(t, "failed")
    /\ UNCHANGED <<startVars, arg, step, todo, before>>

StopNext(t) ==
    /\ sp[t] = "remove"
    /\ todo[t] = {}
    /\ step' = [step EXCEPT ![t] = @ + 1]
    /\ StopGoto(t, IF step[t] < Len(arg[t].filters) THEN "list" ELSE "done")
    /\ UNCHANGED <<docker, startVars, arg, todo, before, faults>>

-----------------------------------------------------------------------------
Init ==
    /\ docker = [c \in Container |-> "none"]
    /\ pc = [s \in Starter |-> "idle"]
    /\ opt \in [Starter -> {CHOOSE o \in Options : TRUE}]
    /\ port = [s \in Starter |-> UIPort]
    /\ signalled = {}
    /\ wait = [s \in Starter |-> "live"]
    /\ sp = [t \in Stopper |-> "idle"]
    /\ arg = [t \in Stopper |-> [filters |-> <<>>, byName |-> FALSE, id |-> NoContainer]]
    /\ step = [t \in Stopper |-> 1]
    /\ todo = [t \in Stopper |-> {}]
    /\ before = [t \in Stopper |-> {}]
    /\ faults = 0

(* The steps a process takes by itself, as soon as the daemon answers. *)
Run(s) ==
    \/ \E role \in {"db", "ui"} :
        CreateContainer(s, role) \/ StartContainer(s, role) \/ RunFails(s, role)
    \/ WaitFails(s)
    \/ Setup(s) \/ SetupFails(s)
    \/ Shutdown(s)
    \/ CloseUI(s) \/ CloseDB(s)
    \/ \E role \in {"db", "ui"} : CloseFails(s, role)
    \/ CloseAfterError(s)

Stop(t) ==
    StopList(t) \/ StopListFails(t) \/ StopRemove(t) \/ StopRemoveFails(t) \/ StopNext(t)

Next ==
    \/ \E s \in Starter : Begin(s) \/ Run(s) \/ Ready(s) \/ Deadline(s) \/ Retry(s) \/ Signal(s)
    \/ \E t \in Stopper : runStop(t) \/ Stop(t)

(* A process that is called runs, and the daemon answers every call; the   *)
(* timer of WaitForStart goes off.  A server need never become ready, and  *)
(* a signal need never come.                                               *)
Fairness ==
    /\ \A s \in Starter : WF_vars(Run(s)) /\ WF_vars(Deadline(s))
    /\ \A t \in Stopper : WF_vars(Stop(t))

Spec == Init /\ [][Next]_vars /\ Fairness

-----------------------------------------------------------------------------
(* Properties *)

Containers(s) == {<<s, "db">>} \cup IF opt[s].ui THEN {<<s, "ui">>} ELSE {}

(* Stopper t was asked to remove container c. *)
Targeted(t, c) ==
    /\ sp[t] # "idle"
    /\ \/ arg[t].id = c
       \/ \E i \in DOMAIN arg[t].filters : Matches(arg[t].filters[i], c)

(* A start that reported success, detached or serving, has its database    *)
(* and its UI up, until a stop that names their label, type or id takes    *)
(* them: no other command, failure or stop of another project does ("Use   *)
(* --label to keep stop from touching instances that belong to another     *)
(* project", README.md).                                                   *)
UpUntilStopped ==
    \A s \in Starter :
        pc[s] = "serve" \/ (pc[s] = "done" /\ opt[s].detach) =>
            \A c \in Containers(s) :
                docker[c] = "running" \/ \E t \in Stopper : Targeted(t, c)

(* A foreground start that exits with success leaves no container, neither *)
(* the database nor the UI, whatever else happened in the meantime.        *)
ForegroundLeavesNothing ==
    \A s \in Starter : pc[s] = "done" /\ ~opt[s].detach =>
        \A c \in Containers(s) : ~Present(c)

(* A stop that exits with success has removed everything it was asked to   *)
(* remove that was running when it was called, although it lists first and *)
(* removes one by one while others start and stop containers.              *)
StopIsComplete ==
    \A t \in Stopper : sp[t] = "done" =>
        \A c \in before[t] :
            (\E i \in DOMAIN arg[t].filters : Matches(arg[t].filters[i], c)) => ~Present(c)

(* The wait for a server ends with the deadline, if no signal comes; the   *)
(* one for the api server ends in any case ("giving up once the timeout is *)
(* reached rather than retrying forever", waitForPort).  Redis is left     *)
(* out: its loop has no end of its own.                                    *)
BootGivesUp ==
    \A s \in Starter :
        pc[s] = "wait" ~>
            \/ pc[s] # "wait"
            \/ opt[s].kind = "redis"
            \/ s \in signalled /\ opt[s].kind # "apiserver"

(* A signal ends a start that is serving, even if its containers are gone  *)
(* already or cannot be removed.                                           *)
ShutdownEnds == \A s \in Starter : pc[s] = "serve" /\ s \in signalled ~> pc[s] \in Ended

(* A signal ends a start at any time ("by pressing CTRL+C dbctl will       *)
(* shutting down and destroy the database container",                      *)
(* docs/getting-started/postgres.md).                                      *)
SignalEnds == \A s \in Starter : s \in signalled ~> pc[s] \in Ended
=============================================================================
