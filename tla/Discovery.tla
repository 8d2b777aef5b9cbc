------------------------------ MODULE Discovery ------------------------------
(***************************************************************************)
(* How a request finds the database instance of its project: the testing   *)
(* command, which starts the databases of a project one after the other    *)
(* and then a containerized api server, and the api server, which looks up *)
(* the instance a request did not name.                                    *)
(*                                                                         *)
(* The container of the testing command has no docker and is told at its   *)
(* start which instances run; a server on the host asks docker for every   *)
(* request.  Both fall back to the default port when they find no instance *)
(* or several.  Instances of other projects come and go meanwhile, and a   *)
(* port that became free may be taken by anybody.                          *)
(*                                                                         *)
(* Docker is external: a port belongs to one running container, and a      *)
(* container that was removed never comes back.                            *)
(***************************************************************************)
EXTENDS Naturals, Sequences, FiniteSets

CONSTANTS
    Type,               \* the database types
    Label,              \* the labels in use, "" for none
    Port,               \* the host ports
    DefaultPort,        \* DefaultPort[t], the default of type t
    Project,            \* the projects that run dbctl testing
    CommandLines,       \* CommandLines[p], the command lines of project p
    Host,               \* the api servers that run on the host
    HostLabel,          \* HostLabel[h], the label server h was started with
    Others,             \* the instances dbctl start may start meanwhile
    Request,            \* the requests of clients
    MaxInstances        \* bound: the instances of one behaviour

(* An option is a set of at most one value: empty if it is not given. *)
Arg == [type : Type \cup {"-"}, label : SUBSET Label, port : SUBSET (Port \cup {0}),
        secured : SUBSET BOOLEAN]
CommandLine == [label : SUBSET Label, args : Seq(Arg)]

(* secured: started with credentials of its own, all of which are taken    *)
(* for the same.  described: it carries the connection labels, which older *)
(* versions of dbctl did not set.                                          *)
Instance == [type : Type, label : Label, port : Port, secured : BOOLEAN, described : BOOLEAN]

ASSUME DiscoveryAssumption ==
    /\ "" \in Label /\ 0 \notin Port /\ "-" \notin Type
    /\ Type # {} /\ Project \cup Host # {}
    /\ DefaultPort \in [Type -> Port]
    /\ \A p \in Project : CommandLines[p] \subseteq CommandLine
    /\ Host \cap Project = {}
    /\ HostLabel \in [Host -> Label]
    /\ Others \subseteq Instance
    /\ MaxInstances \in Nat

VARIABLES
    inst,               \* the instances ever started, by id
    up,                 \* the ids of those that run
    pc,                 \* pc[p], where the testing command of p is
    list,               \* list[p], its arguments: databases and dashes
    next,               \* next[p], the next of them
    label,              \* label[p], the label flag, one for all its commands
    port,               \* port[p][t], the port flag of dbctl start t
    secured,            \* secured[p][t], its credential flags
    own,                \* own[p][k], the instance it started for argument k
    seen,               \* seen[p], history: what ran when its server was started
    known,              \* known[p][t], what its api server was told, 0 for nothing
    req                 \* req[r], request r

flags == <<label, port, secured>>
vars == <<inst, up, pc, list, next, flags, own, seen, known, req>>

-----------------------------------------------------------------------------
Server == Project \cup Host
Id == 1..Len(inst)
None == 0

ReqPC == {"idle", "connect", "held", "failed", "removed"}
RequestState ==
    [pc : ReqPC, server : Server, type : Type,
     explicit : BOOLEAN,                \* the caller sent the port
     via : Nat,                         \* the instance that was looked up
     port : Port, secured : BOOLEAN,    \* where and how it connects
     at : Nat,                          \* the instance its database is on
     droppedAt : Nat]                   \* the instance it was dropped from

NoRequest ==
    [pc |-> "idle", server |-> CHOOSE s \in Server : TRUE, type |-> CHOOSE t \in Type : TRUE,
     explicit |-> FALSE, via |-> None, port |-> CHOOSE p \in Port : TRUE, secured |-> FALSE,
     at |-> None, droppedAt |-> None]

TypeOK ==
    /\ inst \in Seq(Instance)
    /\ up \subseteq Id
    /\ pc \in [Project -> {"idle", "start", "ready", "failed"}]
    /\ list \in [Project -> Seq(Arg)]
    /\ next \in [Project -> Nat \ {0}]
    /\ label \in [Project -> Label]
    /\ port \in [Project -> [Type -> Port \cup {0}]]
    /\ secured \in [Project -> [Type -> BOOLEAN]]
    /\ own \in [Project -> Seq(Id \cup {None})]
    /\ seen \in [Project -> SUBSET Id]
    /\ known \in [Project -> [Type -> Id \cup {None}]]
    /\ req \in [Request -> RequestState]

-----------------------------------------------------------------------------
(* Instances *)

Free(p) == \A i \in up : inst[i].port # p

Run(i) ==
    /\ Len(inst) < MaxInstances
    /\ Free(i.port)
    /\ inst' = Append(inst, i)
    /\ up' = up \cup {Len(inst) + 1}

(* Mutant: the label is not part of the filter. *)
InstanceLabelsTypeOnly(t, l) == [type |-> t, label |-> ""]

InstanceLabels(t, l) == [type |-> t, label |-> l]

List(f) == {i \in up : inst[i].type = f.type /\ f.label \in {"", inst[i].label}}

(* The instance, or None when there is none and when there are several. *)
FindInstance(t, l) ==
    IF \E i \in up : List(InstanceLabels(t, l)) = {i}
    THEN CHOOSE i \in up : List(InstanceLabels(t, l)) = {i}
    ELSE None

(* dbctl start by anybody, and dbctl stop of any instance. *)
StartOther ==
    /\ \E i \in Others : Run(i)
    /\ UNCHANGED <<pc, list, next, flags, own, seen, known, req>>

Stop ==
    /\ \E i \in up : up' = up \ {i}
    /\ UNCHANGED <<inst, pc, list, next, flags, own, seen, known, req>>

-----------------------------------------------------------------------------
(* dbctl testing *)

(* A flag keeps the value an earlier command of the same process gave it. *)
Flag(given, value) == IF given = {} THEN value ELSE CHOOSE x \in given : TRUE

(* Called, or called again after a failure. *)
Begin(p) ==
    /\ pc[p] \in {"idle", "failed"}
    /\ \E c \in CommandLines[p] :
        /\ list' = [list EXCEPT ![p] = c.args]
        /\ label' = [label EXCEPT ![p] = Flag(c.label, "")]
        /\ own' = [own EXCEPT ![p] = [k \in 1..Len(c.args) |-> None]]
    /\ port' = [port EXCEPT ![p] = DefaultPort]
    /\ secured' = [secured EXCEPT ![p] = [t \in Type |-> FALSE]]
    /\ next' = [next EXCEPT ![p] = 1]
    /\ pc' = [pc EXCEPT ![p] = "start"]
    /\ UNCHANGED <<inst, up, seen, known, req>>

(* Mutant: port 0 is recorded as it is given. *)
WantedAsGiven(p, c) ==
    {[type |-> c.type, label |-> Flag(c.label, label[p]),
      port |-> Flag(c.port, port[p][c.type]), secured |-> Flag(c.secured, secured[p][c.type]),
      described |-> TRUE]}

(* The instance start -d makes for part c of project p. *)
Wanted(p, c) ==
    {i \in Instance :
        /\ i.type = c.type
        /\ i.label = Flag(c.label, label[p])
        /\ Flag(c.port, port[p][c.type]) \in {0, i.port}
        /\ i.secured = Flag(c.secured, secured[p][c.type])
        /\ i.described}

(* The arguments are split at the dashes.  Empty parts are dropped, except *)
(* the last one, for which dbctl start without a type prints its help.     *)
Separator(p) ==
    /\ pc[p] = "start" /\ next[p] <= Len(list[p])
    /\ list[p][next[p]].type = "-"
    /\ next' = [next EXCEPT ![p] = @ + 1]
    /\ UNCHANGED <<inst, up, pc, list, flags, own, seen, known, req>>

AtDatabase(p) ==
    pc[p] = "start" /\ next[p] <= Len(list[p]) /\ list[p][next[p]].type # "-"

SetFlags(p, c) ==
    /\ label' = [label EXCEPT ![p] = Flag(c.label, @)]
    /\ port' = [port EXCEPT ![p][c.type] = Flag(c.port, @)]
    /\ secured' = [secured EXCEPT ![p][c.type] = Flag(c.secured, @)]

StartDatabase(p) ==
    /\ AtDatabase(p)
    /\ \E i \in Wanted(p, list[p][next[p]]) : Run(i)
    /\ SetFlags(p, list[p][next[p]])
    /\ own' = [own EXCEPT ![p][next[p]] = Len(inst) + 1]
    /\ next' = [next EXCEPT ![p] = @ + 1]
    /\ UNCHANGED <<pc, list, seen, known, req>>

(* Mutant: the next database is started all the same. *)
StartGoesOn(p) ==
    /\ AtDatabase(p)
    /\ SetFlags(p, list[p][next[p]])
    /\ next' = [next EXCEPT ![p] = @ + 1]
    /\ UNCHANGED <<inst, up, pc, list, own, seen, known, req>>

(* The command ends.  What it started before keeps running, and so may     *)
(* what it just started (see Lifecycle, pgStart).                          *)
StartFails(p) ==
    /\ AtDatabase(p)
    /\ \/ UNCHANGED <<inst, up>>
       \/ \E i \in Wanted(p, list[p][next[p]]) : Run(i)
    /\ SetFlags(p, list[p][next[p]])
    /\ pc' = [pc EXCEPT ![p] = "failed"]
    /\ UNCHANGED <<list, next, own, seen, known, req>>

(* RunAPIServerContainer, with the label flag as the commands left it. *)
StartServer(p) ==
    /\ pc[p] = "start" /\ next[p] > Len(list[p])
    /\ \/ /\ known' = [known EXCEPT ![p] = [t \in Type |-> FindInstance(t, label[p])]]
          /\ seen' = [seen EXCEPT ![p] = up]
          /\ pc' = [pc EXCEPT ![p] = "ready"]
       \/ /\ UNCHANGED <<seen, known>>
          /\ pc' = [pc EXCEPT ![p] = "failed"]
    /\ UNCHANGED <<inst, up, list, next, flags, own, req>>

-----------------------------------------------------------------------------
(* Requests *)

ServerLabel(s) == IF s \in Project THEN label[s] ELSE HostLabel[s]

instanceFor(s, t) ==
    IF s \in Project THEN known[s][t] ELSE FindInstance(t, ServerLabel(s))

(* applyInstance, then the defaults of the type: what the caller left out  *)
(* is taken from the instance, the rest from the defaults.                 *)
applyInstance(s, t, e) ==
    LET via == instanceFor(s, t)
        described == via # None /\ inst[via].described
    IN  [pc |-> "connect", server |-> s, type |-> t, explicit |-> (e # 0), via |-> via,
         port |-> IF e # 0 THEN e ELSE IF described THEN inst[via].port ELSE DefaultPort[t],
         secured |-> (described /\ inst[via].secured),
         at |-> None, droppedAt |-> None]

CreateDB(r) ==
    /\ req[r].pc = "idle"
    /\ \E s \in Server, t \in Type, e \in Port \cup {0} :
        /\ s \in Project => pc[s] = "ready"
        /\ req' = [req EXCEPT ![r] = applyInstance(s, t, e)]
    /\ UNCHANGED <<inst, up, pc, list, next, flags, own, seen, known>>

(* The instance that answers, at the time of the connection. *)
Reaches(q, i) ==
    /\ i \in up
    /\ inst[i].port = q.port /\ inst[i].type = q.type /\ inst[i].secured = q.secured

Connect(r) ==
    /\ req[r].pc = "connect"
    /\ \/ \E i \in up :
            /\ Reaches(req[r], i)
            /\ req' = [req EXCEPT ![r].pc = "held", ![r].at = i]
       \/ req' = [req EXCEPT ![r].pc = "failed"]
    /\ UNCHANGED <<inst, up, pc, list, next, flags, own, seen, known>>

(* Mutant: the instance is looked up again. *)
RemoveDBByType(r) ==
    /\ req[r].pc = "held"
    /\ \E i \in up :
        /\ i = instanceFor(req[r].server, req[r].type)
        /\ req' = [req EXCEPT ![r].pc = "removed", ![r].droppedAt = i]
    /\ UNCHANGED <<inst, up, pc, list, next, flags, own, seen, known>>

(* The uri says where; if the call fails the client may try again. *)
RemoveDB(r) ==
    /\ req[r].pc = "held"
    /\ \E i \in up :
        /\ Reaches(req[r], i)
        /\ req' = [req EXCEPT ![r].pc = "removed", ![r].droppedAt = i]
    /\ UNCHANGED <<inst, up, pc, list, next, flags, own, seen, known>>

-----------------------------------------------------------------------------
Init ==
    /\ inst = <<>> /\ up = {}
    /\ pc = [p \in Project |-> "idle"]
    /\ list = [p \in Project |-> <<>>]
    /\ next = [p \in Project |-> 1]
    /\ label = [p \in Project |-> ""]
    /\ port = [p \in Project |-> DefaultPort]
    /\ secured = [p \in Project |-> [t \in Type |-> FALSE]]
    /\ own = [p \in Project |-> <<>>]
    /\ seen = [p \in Project |-> {}]
    /\ known = [p \in Project |-> [t \in Type |-> None]]
    /\ req = [r \in Request |-> NoRequest]

Testing(p) ==
    Begin(p) \/ Separator(p) \/ StartDatabase(p) \/ StartFails(p) \/ StartServer(p)

Next ==
    \/ StartOther \/ Stop
    \/ \E p \in Project : Testing(p)
    \/ \E r \in Request : CreateDB(r) \/ Connect(r) \/ RemoveDB(r)

Spec == Init /\ [][Next]_vars

-----------------------------------------------------------------------------
(* Properties *)

Served(r) == req[r].pc \in {"held", "removed"}

(* A request that names no port and whose instance was found is served by  *)
(* that instance, of its type and with the label of the server, also when  *)
(* the lookup is as old as the server, unless the instance is gone since   *)
(* or was started by a dbctl that did not note its port.                   *)
ReachedAsFound ==
    \A r \in Request :
        LET q == req[r] IN
        Served(r) /\ ~q.explicit /\ q.via # None =>
            /\ inst[q.via].type = q.type
            /\ ServerLabel(q.server) \in {"", inst[q.via].label}
            /\ q.via \in up /\ inst[q.via].described => q.at = q.via

AsAsked(i, c) ==
    /\ inst[i].type = c.type
    /\ c.label = {} \/ inst[i].label \in c.label
    /\ c.port = {} \/ 0 \in c.port \/ inst[i].port \in c.port
    /\ c.secured = {} \/ inst[i].secured \in c.secured

Databases(p) == {k \in DOMAIN list[p] : list[p][k].type # "-"}

Fits(i, t, l) == inst[i].type = t /\ l \in {"", inst[i].label}

(* When the server of p looked for type t, instance i ran and no other one *)
(* it could take for it: neither one left behind by an earlier run nor one *)
(* of somebody else nor a second one of its own.                           *)
OnlyOne(p, t, i) == {j \in seen[p] : Fits(j, t, label[p])} = {i}

(* dbctl testing that succeeded has started for every database of its      *)
(* command line an instance of its own, as that part of the command line   *)
(* asked for ("a database that fails to start has to stop the whole        *)
(* command", testing/start.go).  If it was the only one for its type when  *)
(* the api server was started, a request that names no port is served by   *)
(* it and by no other one, as long as it runs.                             *)
TestingUsesItsOwn ==
    \A p \in Project : pc[p] = "ready" =>
        \A k \in Databases(p) :
            /\ own[p][k] # None /\ AsAsked(own[p][k], list[p][k])
            /\ \A m \in Databases(p) : own[p][m] = own[p][k] => m = k
            /\ \A r \in Request :
                LET q == req[r] IN
                /\ Served(r) /\ ~q.explicit /\ q.server = p
                /\ OnlyOne(p, q.type, own[p][k]) /\ own[p][k] \in up
                => q.at = own[p][k]

(* Stopping at the first failure keeps the api server from pointing "at an *)
(* instance left behind by an earlier run" (testing/start.go): a request   *)
(* that names no port is not served by another instance while one that the *)
(* command started runs, of the type and with the label of the server.     *)
TestingReachesItsOwn ==
    \A r \in Request :
        LET q == req[r]
            mine == {own[q.server][k] : k \in Databases(q.server)}
        IN  /\ Served(r) /\ ~q.explicit /\ q.server \in Project
            /\ \E i \in mine \cap up : Fits(i, q.type, label[q.server])
            => q.at \in mine

(* A database is dropped from the instance it was created on, if that      *)
(* still runs ("Removing a database has to target the same instance it was *)
(* created on", server.go), whatever was started and stopped in between.   *)
RemovedWhereCreated ==
    \A r \in Request :
        req[r].pc = "removed" /\ req[r].at \in up => req[r].droppedAt = req[r].at
=============================================================================
