--------------------------- MODULE LifecycleProofs ---------------------------
(***************************************************************************)
(* What Lifecycle guarantees for any number of starters and stoppers, any  *)
(* labels and ports, and any number of failing calls.                      *)
(***************************************************************************)
EXTENDS Lifecycle, TLAPS

(* The command line of a starter is one of the program's. *)
LEMMA OptTyped ==
    ASSUME NEW o \in Options
    PROVE  /\ o \in Option
           /\ o.kind \in Kind
           /\ o.ui \in BOOLEAN
           /\ o.detach \in BOOLEAN
           /\ o.port # 0 => o.port \in Port
<1>1. o \in Option
  BY OptionAssumption
<1> QED BY <1>1 DEF Option

(* How a stage may fail, for every kind. *)
LEMMA ErrorsHandled ==
    ASSUME TypeOK, NEW s \in Starter
    PROVE  /\ OnError(s)["run"] \in {"failed", "panic"}
           /\ OnError(s).wait \in {"failed", "panic", "cleanup"}
           /\ OnError(s).setup \in {"failed", "close"}
           /\ OnError(s)["ui"] \in {"failed", "close"}
<1>0. opt[s] \in Options
  BY DEF TypeOK
<1>1. opt[s].kind \in Kind
  BY <1>0, OptTyped
<1> QED
  BY <1>1 DEF Kind, OnError, pgStart, redisStart, mongoStart, RunAPIServerContainer

(* The state a program starts in has the right types. *)
LEMMA InitTypes == Init => TypeOK
<1> SUFFICES ASSUME Init PROVE TypeOK
  OBVIOUS
<1>1. opt \in [Starter -> Options]
  <2>1. (CHOOSE o \in Options : TRUE) \in Options
    BY OptionAssumption
  <2> QED BY <2>1 DEF Init
<1>2. arg \in [Stopper -> Target]
  <2>1. <<>> \in Seq(Filter)
    OBVIOUS
  <2>2. [filters |-> <<>>, byName |-> FALSE, id |-> NoContainer] \in Target
    BY <2>1 DEF Target
  <2> QED BY <2>2 DEF Init
<1>3. UIPort \in Port /\ 0 \in 0..MaxFaults
  <2>1. UIPort \in Port
    BY OptionAssumption
  <2>2. MaxFaults \in Nat
    BY OptionAssumption
  <2> QED BY <2>1, <2>2
<1>4. docker \in [Container -> {"none", "created", "running", "removed"}]
  BY DEF Init
<1>5. /\ pc \in [Starter -> PC]
      /\ port \in [Starter -> Port]
      /\ signalled \subseteq Starter
      /\ wait \in [Starter -> {"live", "canceled", "deadline"}]
  BY <1>3 DEF Init, PC
<1>6. /\ sp \in [Stopper -> {"idle", "list", "remove", "done", "failed"}]
      /\ step \in [Stopper -> Nat \ {0}]
      /\ todo \in [Stopper -> SUBSET (Container \cup {NoContainer})]
      /\ before \in [Stopper -> SUBSET Container]
      /\ faults \in 0..MaxFaults
  BY <1>3 DEF Init
<1> QED
  BY <1>1, <1>2, <1>4, <1>5, <1>6 DEF TypeOK

(* The small steps the actions are made of. *)
LEMMA SetTyped ==
    ASSUME TypeOK, NEW c \in Container, NEW x \in {"none", "created", "running", "removed"},
           Set(c, x)
    PROVE  docker' \in [Container -> {"none", "created", "running", "removed"}]
BY DEF TypeOK, Set

(* Control only moves between the places of Start. *)
LEMMA GotoTyped ==
    ASSUME TypeOK, NEW s \in Starter, NEW l \in PC, Goto(s, l)
    PROVE  pc' \in [Starter -> PC]
BY DEF TypeOK, Goto

(* The same for dbctl stop. *)
LEMMA StopGotoTyped ==
    ASSUME TypeOK, NEW t \in Stopper, NEW l \in {"idle", "list", "remove", "done", "failed"},
           StopGoto(t, l)
    PROVE  sp' \in [Stopper -> {"idle", "list", "remove", "done", "failed"}]
BY DEF TypeOK, StopGoto

(* A failing call adds at most one fault, and no more than MaxFaults. *)
LEMMA FaultTyped ==
    ASSUME TypeOK, Fault
    PROVE  faults' \in 0..MaxFaults
<1>1. MaxFaults \in Nat
  BY OptionAssumption
<1> QED BY <1>1 DEF TypeOK, Fault

(* So does a call that fails because of something else. *)
LEMMA FailsTyped ==
    ASSUME TypeOK, NEW cause, Fails(cause)
    PROVE  faults' \in 0..MaxFaults
BY FaultTyped DEF Fails, TypeOK

(* A container of a starter is a container. *)
LEMMA ContainerOf ==
    ASSUME NEW s \in Starter, NEW role \in {"db", "ui"}
    PROVE  <<s, role>> \in Container
BY DEF Container

(* The steps of a starter keep the types. *)
LEMMA StartTypes ==
    ASSUME TypeOK, NEW s \in Starter,
           Begin(s) \/ Run(s) \/ Ready(s) \/ Deadline(s) \/ Signal(s)
    PROVE  TypeOK'
<1> USE DEF startVars, stopVars
<1> DEFINE D == docker' \in [Container -> {"none", "created", "running", "removed"}]
           C == pc' \in [Starter -> PC]
           F == faults' \in 0..MaxFaults
           O == /\ opt' \in [Starter -> Options]
                /\ port' \in [Starter -> Port]
                /\ signalled' \subseteq Starter
                /\ wait' \in [Starter -> {"live", "canceled", "deadline"}]
<1>s. stopVars' = stopVars
  BY DEF Begin, Run, Ready, Deadline, Signal, CreateContainer, StartContainer, RunFails,
         WaitFails, Setup, SetupFails, Shutdown, CloseUI, CloseDB, CloseFails, CloseAfterError
<1>q. ASSUME D, C, F, O PROVE TypeOK'
  BY <1>q, <1>s DEF TypeOK
<1>c. <<s, "db">> \in Container /\ <<s, "ui">> \in Container
  BY ContainerOf
<1>k. /\ UNCHANGED docker => D
      /\ UNCHANGED pc => C
      /\ UNCHANGED faults => F
      /\ UNCHANGED <<opt, port, signalled, wait>> => O
  BY DEF TypeOK
<1> HIDE DEF D, C, F, O
<1>1. CASE Begin(s)
  <2>1. UNCHANGED docker /\ UNCHANGED faults
    BY <1>1 DEF Begin
  <2>2. C
    BY <1>1, GotoTyped DEF Begin, C, PC
  <2>3. O
    <3>1. PICK o \in Options, p \in Port :
            /\ opt' = [opt EXCEPT ![s] = o]
            /\ port' = [port EXCEPT ![s] = p]
      BY <1>1 DEF Begin
    <3> QED BY <3>1, <1>1 DEF Begin, TypeOK, O
  <2> QED BY <2>1, <2>2, <2>3, <1>k, <1>q
<1>2. CASE \E role \in {"db", "ui"} : CreateContainer(s, role)
  <2>1. PICK role \in {"db", "ui"} : CreateContainer(s, role)
    BY <1>2
  <2>2. D
    BY <2>1, SetTyped, ContainerOf DEF CreateContainer, D
  <2>3. C
    BY <2>1, GotoTyped DEF CreateContainer, C, PC, StartAt
  <2>4. F /\ O
    BY <2>1, <1>k DEF CreateContainer
  <2> QED BY <2>2, <2>3, <2>4, <1>q
<1>3. CASE \E role \in {"db", "ui"} : StartContainer(s, role)
  <2>1. PICK role \in {"db", "ui"} : StartContainer(s, role)
    BY <1>3
  <2>2. D
    BY <2>1, SetTyped, ContainerOf DEF StartContainer, D
  <2>3. C
    BY <2>1, GotoTyped DEF StartContainer, C, PC, Ended, Running
  <2>4. F /\ O
    BY <2>1, <1>k DEF StartContainer
  <2> QED BY <2>2, <2>3, <2>4, <1>q
<1>4. CASE \E role \in {"db", "ui"} : RunFails(s, role)
  <2>1. PICK role \in {"db", "ui"} : RunFails(s, role)
    BY <1>4
  <2>2. D
    <3>1. UNCHANGED docker \/ Set(<<s, role>>, "created") \/ Set(<<s, role>>, "running")
      BY <2>1 DEF RunFails
    <3> QED BY <3>1, SetTyped, ContainerOf, <1>k DEF D
  <2>3. C
    <3>1. OnError(s)[IF role = "db" THEN "run" ELSE "ui"] \in {"failed", "panic", "close"}
      BY ErrorsHandled
    <3>2. Goto(s, OnError(s)[IF role = "db" THEN "run" ELSE "ui"])
      BY <2>1 DEF RunFails
    <3> QED BY <3>1, <3>2, GotoTyped DEF C, PC, Ended
  <2>4. F
    BY <2>1, FailsTyped DEF RunFails, F
  <2>5. O
    BY <2>1, <1>k DEF RunFails
  <2> QED BY <2>2, <2>3, <2>4, <2>5, <1>q
<1>5. CASE WaitFails(s)
  <2>1. C
    BY <1>5, ErrorsHandled, GotoTyped DEF WaitFails, C, PC, Ended
  <2> QED BY <2>1, <1>5, <1>k, <1>q DEF WaitFails
<1>6. CASE Setup(s)
  <2>1. C
    BY <1>6, GotoTyped DEF Setup, C, PC, Ended, Running
  <2> QED BY <2>1, <1>6, <1>k, <1>q DEF Setup
<1>7. CASE SetupFails(s)
  <2>1. C
    BY <1>7, ErrorsHandled, GotoTyped DEF SetupFails, C, PC, Ended
  <2>2. F
    BY <1>7, FailsTyped DEF SetupFails, F
  <2> QED BY <2>1, <2>2, <1>7, <1>k, <1>q DEF SetupFails
<1>8. CASE Shutdown(s)
  <2>1. C
    BY <1>8, GotoTyped DEF Shutdown, C, PC, Ended
  <2> QED BY <2>1, <1>8, <1>k, <1>q DEF Shutdown
<1>9. CASE CloseUI(s)
  <2>1. C
    BY <1>9, GotoTyped DEF CloseUI, C, PC
  <2>2. D
    BY <1>9, <1>c, SetTyped DEF CloseUI, D
  <2> QED BY <2>1, <2>2, <1>9, <1>k, <1>q DEF CloseUI
<1>10. CASE CloseDB(s)
  <2>1. C
    BY <1>10, GotoTyped DEF CloseDB, C, PC, Ended
  <2>2. D
    BY <1>10, <1>c, SetTyped DEF CloseDB, D
  <2> QED BY <2>1, <2>2, <1>10, <1>k, <1>q DEF CloseDB
<1>11. CASE \E role \in {"db", "ui"} : CloseFails(s, role)
  <2>1. PICK role \in {"db", "ui"} : CloseFails(s, role)
    BY <1>11
  <2>2. D
    BY <2>1, SetTyped, ContainerOf, <1>k DEF CloseFails, D
  <2>3. C
    BY <2>1, GotoTyped DEF CloseFails, C, PC, Ended
  <2>4. F
    BY <2>1, FailsTyped DEF CloseFails, F
  <2> QED BY <2>1, <2>2, <2>3, <2>4, <1>k, <1>q DEF CloseFails
<1>12. CASE CloseAfterError(s)
  <2>2. D
    BY <1>12, SetTyped, <1>c, <1>k DEF CloseAfterError, D
  <2>3. C
    BY <1>12, GotoTyped DEF CloseAfterError, C, PC, Ended
  <2>4. F
    BY <1>12, FailsTyped, <1>k DEF CloseAfterError, F
  <2> QED BY <1>12, <2>2, <2>3, <2>4, <1>k, <1>q DEF CloseAfterError
<1>13. CASE Ready(s)
  <2>1. C
    BY <1>13, GotoTyped DEF Ready, C, PC
  <2> QED BY <2>1, <1>13, <1>k, <1>q DEF Ready
<1>14. CASE Deadline(s)
  <2>1. O
    BY <1>14 DEF Deadline, O, TypeOK
  <2> QED BY <2>1, <1>14, <1>k, <1>q DEF Deadline
<1>15. CASE Signal(s)
  <2>1. O
    BY <1>15 DEF Signal, O, TypeOK
  <2> QED BY <2>1, <1>15, <1>k, <1>q DEF Signal
<1> QED
  BY <1>1, <1>2, <1>3, <1>4, <1>5, <1>6, <1>7, <1>8, <1>9, <1>10, <1>11, <1>12, <1>13,
     <1>14, <1>15 DEF Run

(* The steps of dbctl stop keep the types. *)
LEMMA StopTypes ==
    ASSUME TypeOK, NEW t \in Stopper, runStop(t) \/ Stop(t)
    PROVE  TypeOK'
<1> DEFINE D == docker' \in [Container -> {"none", "created", "running", "removed"}]
           C == sp' \in [Stopper -> {"idle", "list", "remove", "done", "failed"}]
           F == faults' \in 0..MaxFaults
           T == todo' \in [Stopper -> SUBSET (Container \cup {NoContainer})]
           A == /\ arg' \in [Stopper -> Target]
                /\ step' \in [Stopper -> Nat \ {0}]
                /\ before' \in [Stopper -> SUBSET Container]
<1>s. startVars' = startVars
  BY DEF Stop, runStop, StopList, StopListFails, StopRemove, StopRemoveFails, StopNext
<1>q. ASSUME D, C, F, T, A PROVE TypeOK'
  BY <1>q, <1>s DEF TypeOK, startVars
<1>k. /\ UNCHANGED docker => D
      /\ UNCHANGED sp => C
      /\ UNCHANGED faults => F
      /\ UNCHANGED todo => T
      /\ UNCHANGED <<arg, step, before>> => A
  BY DEF TypeOK
<1>p. ASSUME NEW c, Present(c) PROVE c \in Container
  BY <1>p DEF Present
<1> HIDE DEF D, C, F, T, A
<1>1. CASE runStop(t)
  <2>1. C
    BY <1>1, StopGotoTyped DEF runStop, C
  <2>2. A
    BY <1>1, TargetAssumption DEF runStop, A, TypeOK
  <2> QED BY <2>1, <2>2, <1>1, <1>k, <1>q DEF runStop
<1>2. CASE StopList(t)
  <2>1. C
    BY <1>2, StopGotoTyped DEF StopList, C
  <2>2. T
    <3>1. List(arg[t].filters[step[t]]) \subseteq Container
      BY DEF List
    <3>2. arg[t].id \in Container \cup {NoContainer}
      BY DEF TypeOK, Target
    <3> QED BY <1>2, <3>1, <3>2 DEF StopList, T, TypeOK
  <2> QED BY <2>1, <2>2, <1>2, <1>k, <1>q DEF StopList
<1>3. CASE StopListFails(t)
  <2>1. C
    BY <1>3, StopGotoTyped DEF StopListFails, C
  <2>2. F
    BY <1>3, FaultTyped DEF StopListFails, F
  <2> QED BY <2>1, <2>2, <1>3, <1>k, <1>q DEF StopListFails
<1>4. CASE StopRemove(t)
  <2>1. PICK c \in todo[t] :
            Present(c) /\ Set(c, "removed") /\ todo' = [todo EXCEPT ![t] = @ \ {c}]
    BY <1>4 DEF StopRemove
  <2>2. D
    BY <2>1, <1>p, SetTyped DEF D
  <2>3. T
    BY <2>1 DEF T, TypeOK
  <2> QED BY <2>2, <2>3, <1>4, <1>k, <1>q DEF StopRemove
<1>5. CASE StopRemoveFails(t)
  <2>1. PICK c \in todo[t] :
            Fails(~Present(c)) /\ (UNCHANGED docker \/ (Present(c) /\ Set(c, "removed")))
    BY <1>5 DEF StopRemoveFails
  <2>2. D
    BY <2>1, <1>p, <1>k, SetTyped DEF D
  <2>3. C
    BY <1>5, StopGotoTyped DEF StopRemoveFails, C
  <2>4. F
    BY <2>1, FailsTyped DEF F
  <2> QED BY <2>2, <2>3, <2>4, <1>5, <1>k, <1>q DEF StopRemoveFails
<1>6. CASE StopNext(t)
  <2>1. C
    BY <1>6, StopGotoTyped DEF StopNext, C
  <2>2. A
    BY <1>6 DEF StopNext, A, TypeOK
  <2> QED BY <2>1, <2>2, <1>6, <1>k, <1>q DEF StopNext
<1> QED
  BY <1>1, <1>2, <1>3, <1>4, <1>5, <1>6 DEF Stop

(* Every step keeps the types. *)
LEMMA NextTypes == TypeOK /\ [Next]_vars => TypeOK'
<1> SUFFICES ASSUME TypeOK, [Next]_vars PROVE TypeOK'
  OBVIOUS
<1>1. CASE UNCHANGED vars
  BY <1>1 DEF vars, startVars, stopVars, TypeOK
<1>2. ASSUME NEW s \in Starter, Retry(s) PROVE TypeOK'
  BY <1>2, <1>1 DEF Retry
<1> QED
  BY <1>1, <1>2, StartTypes, StopTypes DEF Next

(* However starters, stoppers, signals and failures interleave, the state  *)
(* keeps its types: Start and stop only reach the places they have, a port *)
(* is never 0, and a stop only ever removes what the daemon knows.         *)
THEOREM TypeCorrect == Spec => []TypeOK
<1>1. Init => TypeOK
  BY InitTypes
<1>2. TypeOK /\ [Next]_vars => TypeOK'
  BY NextTypes
<1> QED
  BY <1>1, <1>2, PTL DEF Spec

-----------------------------------------------------------------------------
(* What a starter knows of its own containers: nothing exists before it is *)
(* created, the UI is gone when the database is closed, and both are when  *)
(* a foreground start ends with success.                                   *)

Fresh(s) ==
    /\ pc[s] \in {"idle", "create"} => docker[<<s, "db">>] = "none"
    /\ pc[s] \in {"idle", "create", "start", "wait", "setup", "uicreate"} =>
        docker[<<s, "ui">>] = "none"

Closed(s) ==
    /\ pc[s] = "closedb" /\ opt[s].ui => ~Present(<<s, "ui">>)
    /\ pc[s] = "done" /\ ~opt[s].detach => \A c \in Containers(s) : ~Present(c)

Owned(s) == Fresh(s) /\ Closed(s)

(* The life of a container goes one way. *)
Forward(c) ==
    \/ docker'[c] = docker[c]
    \/ docker[c] = "none" /\ docker'[c] = "created"
    \/ docker[c] = "created" /\ docker'[c] = "running"
    \/ docker[c] \in {"created", "running"} /\ docker'[c] = "removed"

(* What changing one container, or moving one starter, leaves alone. *)
LEMMA SetAt ==
    ASSUME TypeOK, NEW c \in Container, NEW x, Set(c, x)
    PROVE  docker'[c] = x /\ \A d \in Container \ {c} : docker'[d] = docker[d]
BY DEF TypeOK, Set

(* The same for the control of a starter. *)
LEMMA GotoAt ==
    ASSUME TypeOK, NEW s \in Starter, NEW l, Goto(s, l)
    PROVE  pc'[s] = l /\ \A u \in Starter \ {s} : pc'[u] = pc[u]
BY DEF TypeOK, Goto

(* A starter keeps its hands off the others: their control, their command  *)
(* lines and their containers.                                             *)
LEMMA OthersAlone ==
    ASSUME TypeOK, NEW s \in Starter,
           Begin(s) \/ Run(s) \/ Ready(s) \/ Deadline(s) \/ Signal(s),
           NEW u \in Starter, u # s
    PROVE  /\ pc'[u] = pc[u]
           /\ opt'[u] = opt[u]
           /\ port'[u] = port[u]
           /\ docker'[<<u, "db">>] = docker[<<u, "db">>]
           /\ docker'[<<u, "ui">>] = docker[<<u, "ui">>]
<1>1. pc' = pc \/ \E l : Goto(s, l)
  BY DEF Begin, Run, Ready, Deadline, Signal, CreateContainer, StartContainer, RunFails,
         WaitFails, Setup, SetupFails, Shutdown, CloseUI, CloseDB, CloseFails, CloseAfterError
<1>2. docker' = docker \/ \E role \in {"db", "ui"} : \E x : Set(<<s, role>>, x)
  BY DEF Begin, Run, Ready, Deadline, Signal, CreateContainer, StartContainer, RunFails,
         WaitFails, Setup, SetupFails, Shutdown, CloseUI, CloseDB, CloseFails, CloseAfterError
<1>3. \/ opt' = opt /\ port' = port
      \/ \E o, p : opt' = [opt EXCEPT ![s] = o] /\ port' = [port EXCEPT ![s] = p]
  BY DEF Begin, Run, Ready, Deadline, Signal, CreateContainer, StartContainer, RunFails,
         WaitFails, Setup, SetupFails, Shutdown, CloseUI, CloseDB, CloseFails, CloseAfterError
<1>4. pc'[u] = pc[u]
  BY <1>1, GotoAt
<1>5. opt'[u] = opt[u] /\ port'[u] = port[u]
  BY <1>3 DEF TypeOK
<1>6. ASSUME NEW r \in {"db", "ui"} PROVE docker'[<<u, r>>] = docker[<<u, r>>]
  <2>1. <<u, r>> \in Container /\ \A role \in {"db", "ui"} : <<s, role>> \in Container
    BY ContainerOf
  <2>2. \A role \in {"db", "ui"} : <<u, r>> # <<s, role>>
    OBVIOUS
  <2> QED BY <1>2, <2>1, <2>2, SetAt
<1> QED BY <1>4, <1>5, <1>6

(* A command line is fixed once the process runs. *)
LEMMA OptionFixed ==
    ASSUME TypeOK, NEW s \in Starter,
           Begin(s) \/ Run(s) \/ Ready(s) \/ Deadline(s) \/ Signal(s), pc[s] # "idle"
    PROVE  opt'[s] = opt[s] /\ port'[s] = port[s]
BY DEF Begin, Run, Ready, Deadline, Signal, CreateContainer, StartContainer, RunFails,
       WaitFails, Setup, SetupFails, Shutdown, CloseUI, CloseDB, CloseFails, CloseAfterError

(* A step of a starter keeps what it knows of its containers, and takes    *)
(* none of them back.                                                      *)
LEMMA OwnStep ==
    ASSUME TypeOK, NEW s \in Starter, Owned(s),
           Begin(s) \/ Run(s) \/ Ready(s) \/ Deadline(s) \/ Signal(s)
    PROVE  Owned(s)' /\ Forward(<<s, "db">>) /\ Forward(<<s, "ui">>)
<1> DEFINE db == <<s, "db">>
           ui == <<s, "ui">>
           Same == docker'[db] = docker[db] /\ docker'[ui] = docker[ui]
           Goal == Owned(s)' /\ Forward(db) /\ Forward(ui)
<1>c. db \in Container /\ ui \in Container /\ db # ui
  BY ContainerOf
<1>o. pc[s] # "idle" => opt'[s] = opt[s]
  BY OptionFixed
<1>f. UNCHANGED docker => Same
  OBVIOUS
<1>x. ASSUME Same \/ (Forward(db) /\ Forward(ui)),
             pc'[s] \in {"start", "failed", "panic", "close", "cleanup", "serve", "closeui", "uistart"},
             pc'[s] = "start" => docker'[ui] = "none"
      PROVE  Goal
  BY <1>x, <1>c DEF Owned, Fresh, Closed, Forward
<1>y. ASSUME Same, pc[s] # "idle",
             \/ pc'[s] = pc[s]
             \/ pc'[s] \in {"wait", "setup", "uicreate"} /\ docker[ui] = "none"
             \/ pc'[s] = "done" /\ opt[s].detach
             \/ pc'[s] = "closedb" /\ ~opt[s].ui
      PROVE  Goal
  BY <1>y, <1>c, <1>o DEF Owned, Fresh, Closed, Forward, Containers, Present
<1>1. CASE Begin(s)
  <2>1. pc'[s] = "create" /\ pc[s] = "idle" /\ Same
    BY <1>1, GotoAt DEF Begin
  <2> QED BY <2>1 DEF Owned, Fresh, Closed, Forward
<1>2. CASE CreateContainer(s, "db")
  <2>1. pc[s] = "create" /\ pc'[s] = "start"
    BY <1>2, GotoAt DEF CreateContainer, CreateAt, StartAt
  <2>2. docker'[db] = "created" /\ docker'[ui] = docker[ui]
    BY <1>2, <1>c, SetAt DEF CreateContainer
  <2>3. docker[db] = "none" /\ docker[ui] = "none"
    BY <2>1 DEF Owned, Fresh
  <2>4. Forward(db) /\ Forward(ui)
    BY <2>2, <2>3 DEF Forward
  <2> QED BY <2>1, <2>2, <2>3, <2>4, <1>x
<1>3. CASE CreateContainer(s, "ui")
  <2>1. pc[s] = "uicreate" /\ pc'[s] = "uistart"
    BY <1>3, GotoAt DEF CreateContainer, CreateAt, StartAt
  <2>2. docker'[ui] = "created" /\ docker'[db] = docker[db]
    BY <1>3, <1>c, SetAt DEF CreateContainer
  <2>3. docker[ui] = "none"
    BY <2>1 DEF Owned, Fresh
  <2>4. Forward(db) /\ Forward(ui)
    BY <2>2, <2>3 DEF Forward
  <2> QED BY <2>1, <2>4, <1>x
<1>4. CASE StartContainer(s, "db")
  <2>1. pc[s] = "start" /\ pc'[s] = "wait" /\ docker[db] = "created"
    BY <1>4, GotoAt DEF StartContainer, StartAt
  <2>2. docker'[db] = "running" /\ docker'[ui] = docker[ui]
    BY <1>4, <1>c, SetAt DEF StartContainer
  <2>3. docker[ui] = "none"
    BY <2>1 DEF Owned, Fresh
  <2> QED BY <2>1, <2>2, <2>3 DEF Owned, Fresh, Closed, Forward
<1>5. CASE StartContainer(s, "ui")
  <2>1. pc[s] = "uistart" /\ pc'[s] = Running(s) /\ docker[ui] = "created"
    BY <1>5, GotoAt DEF StartContainer, StartAt
  <2>2. docker'[ui] = "running" /\ docker'[db] = docker[db]
    BY <1>5, <1>c, SetAt DEF StartContainer
  <2>3. opt'[s] = opt[s]
    BY <1>o, <2>1
  <2> QED BY <2>1, <2>2, <2>3 DEF Owned, Fresh, Closed, Forward, Running
<1>6. ASSUME NEW role \in {"db", "ui"}, RunFails(s, role) PROVE Goal
  <2>1. pc'[s] \in {"failed", "panic", "close"}
    <3>1. OnError(s)[IF role = "db" THEN "run" ELSE "ui"] \in {"failed", "panic", "close"}
      BY ErrorsHandled
    <3>2. pc'[s] = OnError(s)[IF role = "db" THEN "run" ELSE "ui"]
      BY <1>6, GotoAt DEF RunFails
    <3> QED BY <3>1, <3>2
  <2>2. pc[s] = CreateAt(role) \/ pc[s] = StartAt(role)
    BY <1>6 DEF RunFails
  <2>3. \/ UNCHANGED docker
        \/ pc[s] = CreateAt(role) /\ Set(<<s, role>>, "created")
        \/ docker[<<s, role>>] = "created" /\ Set(<<s, role>>, "running")
    BY <1>6 DEF RunFails
  <2>4. pc[s] = CreateAt(role) => docker[<<s, role>>] = "none"
    BY DEF Owned, Fresh, CreateAt
  <2>5. Forward(db) /\ Forward(ui)
    BY <2>3, <2>4, <1>c, SetAt DEF Forward
  <2> QED BY <2>1, <2>5, <1>x
<1>7. CASE WaitFails(s)
  <2>1. pc'[s] \in {"failed", "panic", "cleanup"} /\ Same
    BY <1>7, GotoAt, ErrorsHandled DEF WaitFails
  <2> QED BY <2>1, <1>x
<1>8. CASE Setup(s)
  <2>1. pc[s] = "setup" /\ Same /\ pc'[s] = IF opt[s].ui THEN "uicreate" ELSE Running(s)
    BY <1>8, GotoAt DEF Setup
  <2>2. docker[ui] = "none"
    BY <2>1 DEF Owned, Fresh
  <2>3. pc'[s] \in {"uicreate", "serve"} \/ (pc'[s] = "done" /\ opt[s].detach)
    BY <2>1 DEF Running
  <2> QED BY <2>1, <2>2, <2>3, <1>x, <1>y
<1>9. CASE SetupFails(s)
  <2>1. pc'[s] \in {"failed", "close"} /\ Same
    BY <1>9, GotoAt, ErrorsHandled DEF SetupFails
  <2> QED BY <2>1, <1>x
<1>10. CASE Shutdown(s)
  <2>1. Same /\ pc[s] = "serve" /\ pc'[s] = IF opt[s].ui THEN "closeui" ELSE "closedb"
    BY <1>10, GotoAt DEF Shutdown
  <2> QED BY <2>1, <1>x, <1>y, OptTyped DEF TypeOK
<1>11. CASE CloseUI(s)
  <2>1. pc[s] = "closeui" /\ pc'[s] = "closedb" /\ docker[ui] \in {"created", "running"}
    BY <1>11, GotoAt DEF CloseUI, Present
  <2>2. docker'[ui] = "removed" /\ docker'[db] = docker[db]
    BY <1>11, <1>c, SetAt DEF CloseUI
  <2> QED BY <2>1, <2>2 DEF Owned, Fresh, Closed, Forward, Present
<1>12. CASE CloseDB(s)
  <2>1. pc[s] = "closedb" /\ pc'[s] = "done" /\ docker[db] \in {"created", "running"}
    BY <1>12, GotoAt DEF CloseDB, Present
  <2>2. docker'[db] = "removed" /\ docker'[ui] = docker[ui]
    BY <1>12, <1>c, SetAt DEF CloseDB
  <2>3. opt'[s] = opt[s]
    BY <1>o, <2>1
  <2> QED BY <2>1, <2>2, <2>3, <1>c DEF Owned, Fresh, Closed, Forward, Containers, Present
<1>13. ASSUME NEW role \in {"db", "ui"}, CloseFails(s, role) PROVE Goal
  <2>1. pc'[s] = "failed"
    BY <1>13, GotoAt DEF CloseFails
  <2>2. UNCHANGED docker \/ (Present(<<s, role>>) /\ Set(<<s, role>>, "removed"))
    BY <1>13 DEF CloseFails
  <2>3. Forward(db) /\ Forward(ui)
    BY <2>2, <1>c, SetAt DEF Forward, Present
  <2> QED BY <2>1, <2>3, <1>x
<1>14. CASE CloseAfterError(s)
  <2>1. pc'[s] = "failed"
    BY <1>14, GotoAt DEF CloseAfterError
  <2>2. UNCHANGED docker \/ (Present(db) /\ Set(db, "removed"))
    BY <1>14 DEF CloseAfterError
  <2>3. Forward(db) /\ Forward(ui)
    BY <2>2, <1>c, SetAt DEF Forward, Present
  <2> QED BY <2>1, <2>3, <1>x
<1>15. CASE Ready(s)
  <2>1. pc[s] = "wait" /\ pc'[s] = "setup" /\ Same
    BY <1>15, GotoAt DEF Ready
  <2>2. docker[ui] = "none"
    BY <2>1 DEF Owned, Fresh
  <2> QED BY <2>1, <2>2, <1>y
<1>16. CASE Deadline(s) \/ Signal(s)
  <2>1. pc[s] # "idle" /\ pc'[s] = pc[s] /\ Same
    BY <1>16 DEF Deadline, Signal
  <2> QED BY <2>1, <1>y
<1> QED
  BY <1>1, <1>2, <1>3, <1>4, <1>5, <1>6, <1>7, <1>8, <1>9, <1>10, <1>11, <1>12, <1>13,
     <1>14, <1>15, <1>16 DEF Run

(* A stopper only removes, and keeps its hands off the other stoppers. *)
LEMMA StopStep ==
    ASSUME TypeOK, NEW t \in Stopper, runStop(t) \/ Stop(t)
    PROVE  /\ startVars' = startVars
           /\ \A c \in Container :
                \/ docker'[c] = docker[c]
                \/ docker[c] \in {"created", "running"} /\ docker'[c] = "removed" /\ c \in todo[t]
           /\ \A v \in Stopper \ {t} : /\ sp'[v] = sp[v]
                                       /\ arg'[v] = arg[v]
                                       /\ step'[v] = step[v]
                                       /\ todo'[v] = todo[v]
                                       /\ before'[v] = before[v]
<1>1. startVars' = startVars
  BY DEF Stop, runStop, StopList, StopListFails, StopRemove, StopRemoveFails, StopNext
<1>2. docker' = docker \/ \E c \in todo[t] : Present(c) /\ Set(c, "removed")
  BY DEF Stop, runStop, StopList, StopListFails, StopRemove, StopRemoveFails, StopNext
<1>3. ASSUME NEW c \in Container
      PROVE  \/ docker'[c] = docker[c]
             \/ docker[c] \in {"created", "running"} /\ docker'[c] = "removed" /\ c \in todo[t]
  BY <1>2, SetAt DEF Present
<1>4. /\ sp' = sp \/ \E l : sp' = [sp EXCEPT ![t] = l]
      /\ arg' = arg \/ \E a : arg' = [arg EXCEPT ![t] = a]
      /\ step' = step \/ step' = [step EXCEPT ![t] = @ + 1]
      /\ todo' = todo \/ \E a : todo' = [todo EXCEPT ![t] = a]
      /\ before' = before \/ \E a : before' = [before EXCEPT ![t] = a]
  <2>1. CASE runStop(t)
    BY <2>1 DEF runStop, StopGoto
  <2>2. CASE StopList(t)
    BY <2>2 DEF StopList, StopGoto
  <2>3. CASE StopListFails(t)
    BY <2>3 DEF StopListFails, StopGoto
  <2>4. CASE StopRemove(t)
    BY <2>4 DEF StopRemove, StopGoto
  <2>5. CASE StopRemoveFails(t)
    BY <2>5 DEF StopRemoveFails, StopGoto
  <2>6. CASE StopNext(t)
    BY <2>6 DEF StopNext, StopGoto
  <2> QED BY <2>1, <2>2, <2>3, <2>4, <2>5, <2>6 DEF Stop
<1>5. ASSUME NEW v \in Stopper \ {t}
      PROVE  /\ sp'[v] = sp[v]
             /\ arg'[v] = arg[v]
             /\ step'[v] = step[v]
             /\ todo'[v] = todo[v]
             /\ before'[v] = before[v]
  BY <1>4 DEF TypeOK
<1> QED BY <1>1, <1>3, <1>5

(* Only stoppers change what stoppers do. *)
LEMMA StoppersAlone ==
    ASSUME [Next]_vars
    PROVE  stopVars' = stopVars \/ \E t \in Stopper : runStop(t) \/ Stop(t)
<1>1. ASSUME NEW s \in Starter,
             Begin(s) \/ Run(s) \/ Ready(s) \/ Deadline(s) \/ Retry(s) \/ Signal(s)
      PROVE  stopVars' = stopVars
  BY <1>1 DEF Begin, Run, Ready, Deadline, Signal, Retry, CreateContainer, StartContainer,
              RunFails, WaitFails, Setup, SetupFails, Shutdown, CloseUI, CloseDB, CloseFails,
              CloseAfterError, vars, stopVars
<1>2. UNCHANGED vars => stopVars' = stopVars
  BY DEF vars, stopVars
<1> QED BY <1>1, <1>2 DEF Next

(* The labels of a container that exists never change. *)
LEMMA LabelsFixed ==
    ASSUME NEW c \in Container, opt'[c[1]] = opt[c[1]], port'[c[1]] = port[c[1]], NEW f
    PROVE  Matches(f, c)' <=> Matches(f, c)
<1>1. CreateRequest(c)' = CreateRequest(c)
  BY DEF CreateRequest, pgStartUsingDocker, redisStartUsingDocker, mongoStartUsingDocker,
         apiServerRequest, pgRunUI, mongoRunUI
<1> QED BY <1>1 DEF Matches

(* What a step of anybody does to what the starters own. *)
LEMMA NextOwned ==
    ASSUME TypeOK, \A s \in Starter : Owned(s), [Next]_vars
    PROVE  /\ \A s \in Starter : Owned(s)'
           /\ \A c \in Container : Forward(c)
           /\ \A s \in Starter : pc[s] # "idle" => opt'[s] = opt[s] /\ port'[s] = port[s]
<1>0. ASSUME NEW c \in Container PROVE \E s \in Starter : c = <<s, "db">> \/ c = <<s, "ui">>
  BY DEF Container
<1>1. CASE UNCHANGED vars
  BY <1>1 DEF vars, startVars, Owned, Fresh, Closed, Containers, Present, Forward
<1>2. ASSUME NEW s \in Starter,
             Begin(s) \/ Run(s) \/ Ready(s) \/ Deadline(s) \/ Signal(s)
      PROVE  /\ \A u \in Starter : Owned(u)'
             /\ \A c \in Container : Forward(c)
             /\ \A u \in Starter : pc[u] # "idle" => opt'[u] = opt[u] /\ port'[u] = port[u]
  <2>1. ASSUME NEW u \in Starter
        PROVE  /\ Owned(u)' /\ Forward(<<u, "db">>) /\ Forward(<<u, "ui">>)
               /\ pc[u] # "idle" => opt'[u] = opt[u] /\ port'[u] = port[u]
    <3>1. CASE u = s
      BY <3>1, <1>2, OwnStep, OptionFixed
    <3>2. CASE u # s
      <4>1. /\ pc'[u] = pc[u]
            /\ opt'[u] = opt[u]
            /\ port'[u] = port[u]
            /\ docker'[<<u, "db">>] = docker[<<u, "db">>]
            /\ docker'[<<u, "ui">>] = docker[<<u, "ui">>]
        BY <3>2, <1>2, OthersAlone
      <4>2. Owned(u)
        OBVIOUS
      <4> QED BY <4>1, <4>2 DEF Owned, Fresh, Closed, Containers, Present, Forward
    <3> QED BY <3>1, <3>2
  <2> QED BY <2>1, <1>0
<1>3. ASSUME NEW t \in Stopper, runStop(t) \/ Stop(t)
      PROVE  /\ \A u \in Starter : Owned(u)'
             /\ \A c \in Container : Forward(c)
             /\ \A u \in Starter : pc[u] # "idle" => opt'[u] = opt[u] /\ port'[u] = port[u]
  <2>1. UNCHANGED <<pc, opt, port>>
    BY <1>3, StopStep DEF startVars
  <2>2. ASSUME NEW c \in Container
        PROVE  \/ docker'[c] = docker[c]
               \/ docker[c] \in {"created", "running"} /\ docker'[c] = "removed"
    BY <1>3, StopStep
  <2>3. ASSUME NEW u \in Starter PROVE Owned(u)'
    <3>1. Owned(u) /\ <<u, "db">> \in Container /\ <<u, "ui">> \in Container
      BY ContainerOf
    <3>2. docker[<<u, "db">>] = "none" => docker'[<<u, "db">>] = "none"
      BY <3>1, <2>2
    <3>3. docker[<<u, "ui">>] = "none" => docker'[<<u, "ui">>] = "none"
      BY <3>1, <2>2
    <3>4. ~Present(<<u, "db">>) => ~Present(<<u, "db">>)'
      BY <3>1, <2>2 DEF Present
    <3>5. ~Present(<<u, "ui">>) => ~Present(<<u, "ui">>)'
      BY <3>1, <2>2 DEF Present
    <3> QED BY <2>1, <3>1, <3>2, <3>3, <3>4, <3>5 DEF Owned, Fresh, Closed, Containers
  <2> QED BY <2>1, <2>2, <2>3 DEF Forward
<1>4. ASSUME NEW s \in Starter, Retry(s) PROVE UNCHANGED vars
  BY <1>4 DEF Retry
<1> QED
  BY <1>1, <1>2, <1>3, <1>4 DEF Next

-----------------------------------------------------------------------------
(* What a stopper has done so far: a container it found running is running *)
(* or removed for good; the types before step are finished, and what is    *)
(* left of the one at step is in todo.                                     *)

Progress(t) ==
    /\ \A c \in before[t] : docker[c] \in {"running", "removed"}
    /\ sp[t] = "idle" => step[t] = 1
    /\ sp[t] = "done" => step[t] > Len(arg[t].filters)
    /\ sp[t] \in {"list", "remove", "done"} =>
        \A c \in before[t] : \A i \in DOMAIN arg[t].filters :
            Matches(arg[t].filters[i], c) =>
                /\ i < step[t] => docker[c] = "removed"
                /\ sp[t] = "remove" /\ i = step[t] => docker[c] = "removed" \/ c \in todo[t]

(* A container that exists keeps its labels: only a process that has not   *)
(* begun chooses its command line.                                         *)
LEMMA Settled ==
    ASSUME TypeOK, \A s \in Starter : Owned(s), [Next]_vars,
           NEW c \in Container, docker[c] # "none"
    PROVE  \A f : Matches(f, c)' <=> Matches(f, c)
<1>1. PICK s \in Starter : c = <<s, "db">> \/ c = <<s, "ui">>
  BY DEF Container
<1>2. pc[s] # "idle"
  BY <1>1 DEF Owned, Fresh
<1>3. c[1] = s
  BY <1>1
<1>4. opt'[c[1]] = opt[c[1]] /\ port'[c[1]] = port[c[1]]
  BY <1>2, <1>3, NextOwned
<1> QED BY <1>4, LabelsFixed

(* The filters of a stopper are a sequence. *)
LEMMA FiltersTyped ==
    ASSUME TypeOK, NEW t \in Stopper
    PROVE  /\ Len(arg[t].filters) \in Nat
           /\ DOMAIN arg[t].filters = 1..Len(arg[t].filters)
           /\ step[t] \in Nat \ {0}
<1>1. arg[t] \in Target
  BY DEF TypeOK
<1>2. arg[t].filters \in Seq(Filter)
  BY <1>1 DEF Target
<1> QED BY <1>2 DEF TypeOK

(* Steps of the others do not undo what a stopper did: a container that    *)
(* was running keeps its labels, and is not made again once removed.       *)
LEMMA ProgressKept ==
    ASSUME TypeOK, \A s \in Starter : Owned(s), [Next]_vars,
           NEW t \in Stopper, Progress(t),
           sp'[t] = sp[t], arg'[t] = arg[t], step'[t] = step[t], todo'[t] = todo[t],
           before'[t] = before[t]
    PROVE  Progress(t)'
<1>1. ASSUME NEW c \in before[t]
      PROVE  /\ docker'[c] \in {"running", "removed"}
             /\ docker[c] = "removed" => docker'[c] = "removed"
             /\ \A f : Matches(f, c)' <=> Matches(f, c)
  <2>1. c \in Container /\ docker[c] \in {"running", "removed"}
    BY DEF TypeOK, Progress
  <2>2. Forward(c)
    BY <2>1, NextOwned
  <2>3. \A f : Matches(f, c)' <=> Matches(f, c)
    BY <2>1, Settled
  <2> QED BY <2>1, <2>2, <2>3 DEF Forward
<1>2. ASSUME NEW c \in before[t], NEW i \in DOMAIN arg[t].filters,
             sp[t] \in {"list", "remove", "done"}, Matches(arg[t].filters[i], c)'
      PROVE  /\ i < step[t] => docker'[c] = "removed"
             /\ sp[t] = "remove" /\ i = step[t] => docker'[c] = "removed" \/ c \in todo[t]
  <2>0. arg'[t].filters[i] = arg[t].filters[i]
    OBVIOUS
  <2>1. Matches(arg[t].filters[i], c)
    BY <1>1, <1>2, <2>0 DEF Matches
  <2> QED BY <1>1, <1>2, <2>1 DEF Progress
<1> QED
  BY <1>1, <1>2 DEF Progress

(* The steps of a stopper itself. *)
LEMMA ProgressMade ==
    ASSUME TypeOK, \A s \in Starter : Owned(s),
           NEW t \in Stopper, Progress(t), runStop(t) \/ Stop(t)
    PROVE  Progress(t)'
<1>f. /\ Len(arg[t].filters) \in Nat
      /\ DOMAIN arg[t].filters = 1..Len(arg[t].filters)
      /\ step[t] \in Nat \ {0}
  BY FiltersTyped
<1>n. [Next]_vars
  BY DEF Next
<1>m. startVars' = startVars
  BY StopStep
<1>l. ASSUME NEW c \in Container, NEW f PROVE Matches(f, c)' <=> Matches(f, c)
  BY <1>m, LabelsFixed DEF startVars
<1>d. ASSUME NEW c \in before[t]
      PROVE  /\ c \in Container
             /\ docker[c] \in {"running", "removed"}
             /\ docker'[c] \in {"running", "removed"}
             /\ docker[c] = "removed" => docker'[c] = "removed"
             /\ docker'[c] = docker[c] \/ docker'[c] = "removed"
  <2>1. c \in Container /\ docker[c] \in {"running", "removed"}
    BY DEF TypeOK, Progress
  <2> QED BY <2>1, StopStep
<1>1. CASE runStop(t)
  <2>1. /\ sp[t] = "idle" /\ sp'[t] = "list" /\ step'[t] = 1
        /\ before'[t] = {c \in Container : docker[c] = "running"}
        /\ docker' = docker
    BY <1>1 DEF runStop, StopGoto, TypeOK, Progress
  <2>2. \A i \in DOMAIN arg'[t].filters : ~(i < step'[t])
    <3>1. TypeOK'
      BY StopTypes
    <3>2. arg'[t] \in Target
      BY <3>1 DEF TypeOK
    <3>3. arg'[t].filters \in Seq(Filter)
      BY <3>2 DEF Target
    <3> QED BY <2>1, <3>3
  <2> QED BY <2>1, <2>2 DEF Progress
<1>2. CASE StopList(t)
  <2>1. /\ sp[t] = "list" /\ sp'[t] = "remove"
        /\ UNCHANGED <<docker, arg, step, before>>
        /\ LET found == List(arg[t].filters[step[t]]) IN
             todo'[t] = IF arg[t].byName /\ found = {} THEN {arg[t].id} ELSE found
    BY <1>2 DEF StopList, StopGoto, TypeOK
  <2>2. List(arg[t].filters[step[t]]) \subseteq todo'[t]
    BY <2>1
  <2>3. ASSUME NEW c \in before[t], NEW i \in DOMAIN arg[t].filters,
               Matches(arg[t].filters[i], c)
        PROVE  /\ i < step[t] => docker[c] = "removed"
               /\ i = step[t] => docker[c] = "removed" \/ c \in todo'[t]
    BY <2>1, <2>2, <2>3, <1>d DEF Progress, List
  <2>4. ASSUME NEW c \in before[t], NEW f PROVE Matches(f, c)' <=> Matches(f, c)
    BY <1>d, <1>l
  <2>5. ASSUME NEW c \in before'[t], NEW i \in DOMAIN arg'[t].filters,
               Matches(arg[t].filters[i], c)'
        PROVE  Matches(arg[t].filters[i], c)
    BY <2>1, <2>4, <2>5 DEF Matches
  <2> QED BY <2>1, <2>3, <2>5, <1>d DEF Progress
<1>3. CASE StopListFails(t) \/ StopRemoveFails(t)
  <2>1. sp'[t] = "failed" /\ before' = before
    BY <1>3 DEF StopListFails, StopRemoveFails, StopGoto, TypeOK
  <2> QED BY <2>1, <1>d DEF Progress
<1>4. CASE StopRemove(t)
  <2>1. PICK c \in todo[t] :
            Present(c) /\ Set(c, "removed") /\ todo' = [todo EXCEPT ![t] = @ \ {c}]
    BY <1>4 DEF StopRemove
  <2>2. docker'[c] = "removed" /\ todo'[t] = todo[t] \ {c}
    BY <2>1, SetAt DEF TypeOK, Present
  <2>3. sp[t] = "remove" /\ UNCHANGED <<sp, arg, step, before>>
    BY <1>4 DEF StopRemove
  <2>4. ASSUME NEW d \in before[t], NEW i \in DOMAIN arg[t].filters,
               Matches(arg[t].filters[i], d)
        PROVE  /\ i < step[t] => docker'[d] = "removed"
               /\ i = step[t] => docker'[d] = "removed" \/ d \in todo'[t]
    BY <2>2, <2>3, <2>4, <1>d DEF Progress
  <2>5. ASSUME NEW d \in before'[t], NEW i \in DOMAIN arg'[t].filters,
               Matches(arg[t].filters[i], d)'
        PROVE  Matches(arg[t].filters[i], d)
    <3>1. d \in Container
      BY <2>3, <1>d
    <3> QED BY <2>3, <2>5, <3>1, <1>l DEF Matches
  <2> QED BY <2>3, <2>4, <2>5, <1>d DEF Progress
<1>5. CASE StopNext(t)
  <2>1. /\ sp[t] = "remove" /\ todo[t] = {} /\ step'[t] = step[t] + 1
        /\ sp'[t] = IF step[t] < Len(arg[t].filters) THEN "list" ELSE "done"
        /\ UNCHANGED <<docker, arg, todo, before>>
    BY <1>5 DEF StopNext, StopGoto, TypeOK
  <2>2. ASSUME NEW d \in before[t], NEW i \in DOMAIN arg[t].filters,
               Matches(arg[t].filters[i], d), i < step[t] + 1
        PROVE  docker[d] = "removed"
    <3>1. i < step[t] \/ i = step[t]
      BY <2>2, <1>f
    <3> QED BY <2>1, <2>2, <3>1 DEF Progress
  <2>3. ASSUME NEW d \in before'[t], NEW i \in DOMAIN arg'[t].filters,
               Matches(arg[t].filters[i], d)'
        PROVE  Matches(arg[t].filters[i], d)
    <3>1. d \in Container
      BY <2>1, <1>d
    <3> QED BY <2>1, <2>3, <3>1, <1>l DEF Matches
  <2>4. sp'[t] = "done" => step'[t] > Len(arg'[t].filters)
    BY <2>1, <1>f
  <2> QED BY <2>1, <2>2, <2>3, <2>4, <1>d DEF Progress
<1> QED
  BY <1>1, <1>2, <1>3, <1>4, <1>5 DEF Stop

(* The invariant of starters and stoppers together. *)
Inv ==
    /\ TypeOK
    /\ \A s \in Starter : Owned(s)
    /\ \A t \in Stopper : Progress(t)

(* Every process starts with nothing done. *)
LEMMA InitInv == Init => Inv
<1> SUFFICES ASSUME Init PROVE Inv
  OBVIOUS
<1>1. \A s \in Starter : Owned(s)
  BY ContainerOf DEF Init, Owned, Fresh, Closed
<1>2. \A t \in Stopper : Progress(t)
  BY DEF Init, Progress
<1> QED BY <1>1, <1>2, InitTypes DEF Inv

(* Every step keeps the invariant. *)
LEMMA NextInv == Inv /\ [Next]_vars => Inv'
<1> SUFFICES ASSUME Inv, [Next]_vars PROVE Inv'
  OBVIOUS
<1>0. TypeOK /\ (\A s \in Starter : Owned(s)) /\ \A t \in Stopper : Progress(t)
  BY DEF Inv
<1>1. TypeOK' /\ \A s \in Starter : Owned(s)'
  BY <1>0, NextTypes, NextOwned
<1>2. ASSUME NEW t \in Stopper PROVE Progress(t)'
  <2>1. CASE stopVars' = stopVars
    BY <2>1, <1>0, ProgressKept DEF stopVars
  <2>2. ASSUME NEW v \in Stopper, runStop(v) \/ Stop(v) PROVE Progress(t)'
    <3>1. CASE v = t
      BY <3>1, <2>2, <1>0, ProgressMade
    <3>2. CASE v # t
      BY <3>2, <2>2, <1>0, StopStep, ProgressKept
    <3> QED BY <3>1, <3>2
  <2> QED BY <2>1, <2>2, StoppersAlone
<1> QED BY <1>1, <1>2 DEF Inv

(* Inv holds throughout. *)
THEOREM Invariance == Spec => []Inv
BY InitInv, NextInv, PTL DEF Spec

(* A foreground start that exits with success leaves neither its database  *)
(* nor its UI behind, for any number of processes and failures.            *)
THEOREM NothingLeft == Spec => []ForegroundLeavesNothing
<1>1. Inv => ForegroundLeavesNothing
  BY DEF Inv, Owned, Closed, ForegroundLeavesNothing
<1> QED
  BY <1>1, Invariance, PTL

(* A stop that exits with success has removed all it was asked to remove   *)
(* that was running when it was called, however many types it goes through *)
(* and whatever others start and stop between its listing and its removals. *)
THEOREM StopComplete == Spec => []StopIsComplete
<1>1. Inv => StopIsComplete
  <2> SUFFICES ASSUME Inv, NEW t \in Stopper, sp[t] = "done", NEW c \in before[t],
                      NEW i \in DOMAIN arg[t].filters, Matches(arg[t].filters[i], c)
               PROVE  ~Present(c)
    BY DEF StopIsComplete
  <2>1. i < step[t]
    BY FiltersTyped DEF Inv, Progress
  <2>2. docker[c] = "removed"
    BY <2>1 DEF Inv, Progress
  <2> QED BY <2>2 DEF Present
<1> QED
  BY <1>1, Invariance, PTL

-----------------------------------------------------------------------------
(* Who may take a container: what a stopper is about to remove it was      *)
(* asked to remove, and a starter past its start has its containers or a   *)
(* stopper to blame.                                                       *)

Asked(t) ==
    \A c \in todo[t] :
        /\ sp[t] # "idle"
        /\ \/ c = arg[t].id
           \/ /\ c \in Container
              /\ docker[c] # "none"
              /\ \E i \in DOMAIN arg[t].filters : Matches(arg[t].filters[i], c)

Blamed(c) == \E t \in Stopper : Targeted(t, c)
Held(c) == docker[c] = "running" \/ (docker[c] # "none" /\ Blamed(c))
Succeeded(s) == pc[s] = "serve" \/ (pc[s] = "done" /\ opt[s].detach)

Up(s) ==
    /\ pc[s] \in {"serve", "closeui", "closedb"} => ~opt[s].detach
    /\ pc[s] \in {"wait", "setup", "uicreate", "uistart"} => Held(<<s, "db">>)
    /\ Succeeded(s) => Held(<<s, "db">>) /\ (opt[s].ui => Held(<<s, "ui">>))

(* What a stopper was asked to remove stays so. *)
LEMMA BlameStays ==
    ASSUME Inv, [Next]_vars, NEW c \in Container, docker[c] # "none", Blamed(c)
    PROVE  Blamed(c)'
<1>1. PICK t \in Stopper : Targeted(t, c)
  BY DEF Blamed
<1>2. \A f : Matches(f, c)' <=> Matches(f, c)
  BY Settled DEF Inv
<1>3. sp'[t] # "idle" /\ arg'[t] = arg[t]
  <2>0. TypeOK /\ sp[t] # "idle"
    BY <1>1 DEF Inv, Targeted
  <2>1. CASE stopVars' = stopVars
    BY <2>0, <2>1 DEF stopVars
  <2>2. ASSUME NEW v \in Stopper \ {t}, runStop(v) \/ Stop(v)
        PROVE  sp'[t] # "idle" /\ arg'[t] = arg[t]
    BY <2>0, <2>2, StopStep
  <2>3. CASE runStop(t) \/ Stop(t)
    BY <2>0, <2>3 DEF Stop, runStop, StopList, StopListFails, StopRemove, StopRemoveFails,
                      StopNext, StopGoto, TypeOK
  <2> QED BY <2>1, <2>2, <2>3, StoppersAlone
<1>4. arg[t].id = c \/ \E i \in DOMAIN arg[t].filters : Matches(arg[t].filters[i], c)
  BY <1>1 DEF Targeted
<1>5. ASSUME NEW i \in DOMAIN arg[t].filters, Matches(arg[t].filters[i], c)
      PROVE  Matches(arg[t].filters[i], c)'
  BY <1>2, <1>3, <1>5 DEF Matches
<1>6. Targeted(t, c)'
  BY <1>3, <1>4, <1>5 DEF Targeted
<1> QED BY <1>6 DEF Blamed

(* A container that is not touched stays up, or its stopper to blame. *)
LEMMA HeldStays ==
    ASSUME Inv, [Next]_vars, NEW c \in Container, Held(c), docker'[c] = docker[c]
    PROVE  Held(c)'
<1>1. CASE docker[c] = "running"
  BY <1>1 DEF Held
<1>2. CASE docker[c] # "none" /\ Blamed(c)
  BY <1>2, BlameStays DEF Held
<1> QED BY <1>1, <1>2 DEF Held

(* A stopper only takes what it was asked to take. *)
LEMMA HeldStopped ==
    ASSUME Inv, NEW t \in Stopper, Asked(t), runStop(t) \/ Stop(t), NEW c \in Container, Held(c)
    PROVE  Held(c)'
<1>0. [Next]_vars
  BY DEF Next
<1>1. CASE docker'[c] = docker[c]
  BY <1>0, <1>1, HeldStays
<1>2. CASE docker[c] # "none" /\ docker'[c] = "removed" /\ c \in todo[t]
  <2>1. Targeted(t, c)
    BY <1>2 DEF Asked, Targeted
  <2>2. Blamed(c)'
    BY <1>0, <1>2, <2>1, BlameStays DEF Blamed
  <2> QED BY <1>2, <2>2 DEF Held
<1> QED BY <1>1, <1>2, StopStep DEF Inv

(* What a stopper has left to remove stays what it was asked to remove. *)
LEMMA AskedKept ==
    ASSUME Inv, [Next]_vars, NEW t \in Stopper, Asked(t),
           NEW c \in todo[t], sp'[t] # "idle", arg'[t] = arg[t]
    PROVE  \/ c = arg'[t].id
           \/ /\ c \in Container
              /\ docker'[c] # "none"
              /\ \E i \in DOMAIN arg'[t].filters : Matches(arg[t].filters[i], c)'
<1>1. CASE c = arg[t].id
  BY <1>1
<1>2. CASE /\ c \in Container
           /\ docker[c] # "none"
           /\ \E i \in DOMAIN arg[t].filters : Matches(arg[t].filters[i], c)
  <2>1. Forward(c)
    BY <1>2, NextOwned DEF Inv
  <2>2. \A f : Matches(f, c)' <=> Matches(f, c)
    BY <1>2, Settled DEF Inv
  <2>3. PICK i \in DOMAIN arg[t].filters : Matches(arg[t].filters[i], c)
    BY <1>2
  <2>4. Matches(arg[t].filters[i], c)'
    BY <2>2, <2>3 DEF Matches
  <2> QED BY <1>2, <2>1, <2>3, <2>4 DEF Forward
<1> QED BY <1>1, <1>2 DEF Asked

(* Asked is kept by every step. *)
LEMMA NextAsked ==
    ASSUME Inv, [Next]_vars, NEW t \in Stopper, Asked(t)
    PROVE  Asked(t)'
<1>0. TypeOK
  BY DEF Inv
<1>1. ASSUME sp'[t] = sp[t], arg'[t] = arg[t], todo'[t] \subseteq todo[t] PROVE Asked(t)'
  BY <1>1, AskedKept DEF Asked
<1>2. CASE runStop(t)
  <2>1. todo'[t] = todo[t] /\ sp[t] = "idle"
    BY <1>2 DEF runStop
  <2> QED BY <2>1 DEF Asked
<1>3. CASE StopList(t)
  <2>1. /\ sp'[t] = "remove"
        /\ UNCHANGED <<docker, arg, startVars>>
        /\ step[t] <= Len(arg[t].filters)
        /\ todo'[t] \subseteq {arg[t].id} \cup List(arg[t].filters[step[t]])
    BY <1>3, <1>0 DEF StopList, StopGoto, TypeOK
  <2>2. step[t] \in DOMAIN arg[t].filters
    BY <2>1, <1>0, FiltersTyped
  <2>3. ASSUME NEW c \in List(arg[t].filters[step[t]])
        PROVE  /\ c \in Container
               /\ docker[c] # "none"
               /\ Matches(arg[t].filters[step[t]], c)
    BY DEF List
  <2>4. ASSUME NEW c \in Container, NEW f PROVE Matches(f, c)' <=> Matches(f, c)
    BY <2>1, LabelsFixed DEF startVars
  <2>5. ASSUME NEW c \in List(arg[t].filters[step[t]])
        PROVE  \E i \in DOMAIN arg'[t].filters : Matches(arg[t].filters[i], c)'
    <3>1. PICK i \in DOMAIN arg[t].filters : i = step[t]
      BY <2>2
    <3>2. Matches(arg[t].filters[i], c)'
      BY <2>1, <2>3, <2>4, <3>1 DEF Matches
    <3> QED BY <2>1, <3>2
  <2> QED BY <2>1, <2>3, <2>5 DEF Asked
<1>4. CASE StopListFails(t) \/ StopRemoveFails(t) \/ StopNext(t)
  <2>1. todo' = todo /\ arg' = arg /\ sp'[t] # "idle"
    BY <1>4, <1>0 DEF StopListFails, StopRemoveFails, StopNext, StopGoto, TypeOK
  <2> QED BY <2>1, AskedKept DEF Asked
<1>5. CASE StopRemove(t)
  <2>1. sp'[t] = sp[t] /\ arg'[t] = arg[t] /\ todo'[t] \subseteq todo[t]
    BY <1>5, <1>0 DEF StopRemove, TypeOK
  <2> QED BY <2>1, <1>1
<1>6. ASSUME NEW v \in Stopper \ {t}, runStop(v) \/ Stop(v) PROVE Asked(t)'
  BY <1>6, <1>0, <1>1, StopStep
<1>7. CASE stopVars' = stopVars
  BY <1>7, <1>1 DEF stopVars
<1> QED
  BY <1>2, <1>3, <1>4, <1>5, <1>6, <1>7, StoppersAlone DEF Stop

(* A starter that goes on has what it had, and what it just started. *)
LEMMA UpStep ==
    ASSUME Inv, NEW s \in Starter, Up(s),
           Begin(s) \/ Run(s) \/ Ready(s) \/ Deadline(s) \/ Signal(s)
    PROVE  Up(s)'
<1> DEFINE db == <<s, "db">>
           ui == <<s, "ui">>
           Away == {"idle", "create", "start", "failed", "panic", "close", "cleanup"}
<1>t. TypeOK /\ [Next]_vars
  BY DEF Inv, Next
<1>c. db \in Container /\ ui \in Container /\ db # ui
  BY ContainerOf
<1>o. pc[s] # "idle" => opt'[s] = opt[s]
  BY <1>t, OptionFixed
<1>h. /\ docker'[db] = docker[db] /\ Held(db) => Held(db)'
      /\ docker'[ui] = docker[ui] /\ Held(ui) => Held(ui)'
  BY <1>c, <1>t, HeldStays
<1>a. ASSUME pc'[s] \in Away PROVE Up(s)'
  BY <1>a DEF Up, Succeeded
<1>1. CASE Begin(s)
  <2>1. pc'[s] = "create"
    BY <1>1, <1>t, GotoAt DEF Begin
  <2> QED BY <2>1, <1>a
<1>2. CASE CreateContainer(s, "db")
  <2>1. pc'[s] = "start"
    BY <1>2, <1>t, GotoAt DEF CreateContainer, StartAt
  <2> QED BY <2>1, <1>a
<1>3. CASE CreateContainer(s, "ui")
  <2>1. pc[s] = "uicreate" /\ pc'[s] = "uistart" /\ docker'[db] = docker[db]
    BY <1>3, <1>t, <1>c, GotoAt, SetAt DEF CreateContainer, CreateAt, StartAt
  <2> QED BY <2>1, <1>h DEF Up, Succeeded
<1>4. CASE StartContainer(s, "db")
  <2>1. pc'[s] = "wait" /\ docker'[db] = "running"
    BY <1>4, <1>t, <1>c, GotoAt, SetAt DEF StartContainer
  <2> QED BY <2>1 DEF Up, Succeeded, Held
<1>5. CASE StartContainer(s, "ui")
  <2>1. /\ pc[s] = "uistart" /\ pc'[s] = Running(s)
        /\ docker'[ui] = "running" /\ docker'[db] = docker[db]
    BY <1>5, <1>t, <1>c, GotoAt, SetAt DEF StartContainer, StartAt
  <2>2. Held(db)' /\ Held(ui)'
    BY <2>1, <1>h DEF Up, Held
  <2> QED BY <2>1, <2>2, <1>o DEF Up, Succeeded, Running
<1>6. ASSUME NEW role \in {"db", "ui"}, RunFails(s, role) PROVE Up(s)'
  <2>1. OnError(s)[IF role = "db" THEN "run" ELSE "ui"] \in {"failed", "panic", "close"}
    BY <1>t, ErrorsHandled
  <2>2. pc'[s] = OnError(s)[IF role = "db" THEN "run" ELSE "ui"]
    BY <1>6, <1>t, GotoAt DEF RunFails
  <2> QED BY <2>1, <2>2, <1>a
<1>7. CASE WaitFails(s)
  <2>1. pc'[s] \in {"failed", "panic", "cleanup"}
    BY <1>7, <1>t, GotoAt, ErrorsHandled DEF WaitFails
  <2> QED BY <2>1, <1>a
<1>8. CASE Setup(s)
  <2>1. /\ pc[s] = "setup" /\ docker' = docker
        /\ pc'[s] = IF opt[s].ui THEN "uicreate" ELSE Running(s)
    BY <1>8, <1>t, GotoAt DEF Setup
  <2>2. Held(db)' /\ opt'[s] = opt[s]
    BY <2>1, <1>h, <1>o DEF Up
  <2> QED BY <2>1, <2>2 DEF Up, Succeeded, Running
<1>9. CASE SetupFails(s)
  <2>1. pc'[s] \in {"failed", "close"}
    BY <1>9, <1>t, GotoAt, ErrorsHandled DEF SetupFails
  <2> QED BY <2>1, <1>a
<1>10. CASE Shutdown(s) \/ CloseUI(s)
  <2>1. pc[s] \in {"serve", "closeui"} /\ pc'[s] \in {"closeui", "closedb"}
    BY <1>10, <1>t, GotoAt DEF Shutdown, CloseUI
  <2> QED BY <2>1, <1>o DEF Up, Succeeded
<1>11. CASE CloseDB(s)
  <2>1. pc[s] = "closedb" /\ pc'[s] = "done"
    BY <1>11, <1>t, GotoAt DEF CloseDB
  <2> QED BY <2>1, <1>o DEF Up, Succeeded
<1>12. CASE CloseAfterError(s) \/ \E role \in {"db", "ui"} : CloseFails(s, role)
  <2>1. pc'[s] = "failed"
    BY <1>12, <1>t, GotoAt DEF CloseAfterError, CloseFails
  <2> QED BY <2>1, <1>a
<1>13. CASE Ready(s)
  <2>1. pc[s] = "wait" /\ pc'[s] = "setup" /\ docker' = docker
    BY <1>13, <1>t, GotoAt DEF Ready
  <2> QED BY <2>1, <1>h DEF Up, Succeeded
<1>14. CASE Deadline(s) \/ Signal(s)
  <2>1. pc[s] # "idle" /\ pc'[s] = pc[s] /\ docker' = docker
    BY <1>14 DEF Deadline, Signal
  <2> QED BY <2>1, <1>h, <1>o DEF Up, Succeeded
<1> QED
  BY <1>1, <1>2, <1>3, <1>4, <1>5, <1>6, <1>7, <1>8, <1>9, <1>10, <1>11, <1>12, <1>13,
     <1>14 DEF Run

(* Up is kept by every step of anybody. *)
LEMMA NextUp ==
    ASSUME Inv, [Next]_vars, \A t \in Stopper : Asked(t), NEW s \in Starter, Up(s)
    PROVE  Up(s)'
<1>c. <<s, "db">> \in Container /\ <<s, "ui">> \in Container
  BY ContainerOf
<1>1. ASSUME pc'[s] = pc[s], opt'[s] = opt[s],
             Held(<<s, "db">>) => Held(<<s, "db">>)', Held(<<s, "ui">>) => Held(<<s, "ui">>)'
      PROVE  Up(s)'
  BY <1>1 DEF Up, Succeeded
<1>2. CASE UNCHANGED vars
  BY <1>1, <1>2, <1>c, HeldStays DEF vars, startVars
<1>3. ASSUME NEW u \in Starter, Begin(u) \/ Run(u) \/ Ready(u) \/ Deadline(u) \/ Signal(u)
      PROVE  Up(s)'
  <2>1. CASE u = s
    BY <2>1, <1>3, UpStep
  <2>2. CASE u # s
    BY <2>2, <1>1, <1>3, <1>c, OthersAlone, HeldStays DEF Inv
  <2> QED BY <2>1, <2>2
<1>4. ASSUME NEW t \in Stopper, runStop(t) \/ Stop(t) PROVE Up(s)'
  <2>1. pc' = pc /\ opt' = opt
    BY <1>4, StopStep DEF Inv, startVars
  <2> QED BY <2>1, <1>1, <1>4, <1>c, HeldStopped
<1>5. ASSUME NEW u \in Starter, Retry(u) PROVE UNCHANGED vars
  BY <1>5 DEF Retry
<1> QED
  BY <1>2, <1>3, <1>4, <1>5 DEF Next

(* A start that reported success has its database and its UI up until a    *)
(* stop that names their label, type or id takes them, whatever the other  *)
(* starts and stops on the machine do.                                     *)
THEOREM OnlyStopTakes == Spec => []UpUntilStopped
<1> DEFINE UpInv == /\ Inv
                    /\ \A t \in Stopper : Asked(t)
                    /\ \A s \in Starter : Up(s)
<1>1. Init => UpInv
  <2>1. Init => (\A t \in Stopper : Asked(t)) /\ \A s \in Starter : Up(s)
    BY DEF Init, Asked, Up, Succeeded
  <2> QED BY <2>1, InitInv
<1>2. UpInv /\ [Next]_vars => UpInv'
  BY NextInv, NextAsked, NextUp
<1>3. UpInv => UpUntilStopped
  BY DEF UpUntilStopped, Up, Succeeded, Held, Blamed, Containers
<1> QED
  BY <1>1, <1>2, <1>3, PTL DEF Spec
=============================================================================
