-------------------------- MODULE DaemonSetManager --------------------------
(***************************************************************************)
(* The daemon set manager, delegateshell/daemonset/daemon_manager.go, with *)
(* its lock per daemon set type (keylock.go) and the driver that runs      *)
(* daemon sets as local processes (drivers/local.go).                      *)
(*                                                                         *)
(* Several goroutines (the callers: the reconciler and the poller workers) *)
(* upsert, sync, remove and address daemon sets at the same time.  A       *)
(* daemon set is a process of the operating system, told by its            *)
(* environment which port to listen on; the manager knows it by the        *)
(* *DaemonSet in the map, and finds out whether it is healthy by listing   *)
(* its tasks over HTTP.  Downloads, process starts and requests may fail,  *)
(* and a process may die at any time.                                      *)
(***************************************************************************)
EXTENDS Integers, FiniteSets

CONSTANTS Callers,    \* goroutines that call the manager
          Types,      \* daemon set types
          Ids,        \* daemon set ids
          Configs,    \* operational configs
          NoExecutable,  \* those of them without an executable config
          DTasks,     \* ids of daemon tasks
          MaxStarts,  \* bound: attempts to start a process in a behaviour
          Null        \* no daemon set, no caller, no type, no process answers

ASSUME ManagerAssumption ==
  /\ IsFiniteSet(Callers) /\ MaxStarts \in Nat
  /\ NoExecutable \subseteq Configs
  /\ Null \notin Callers \cup Types /\ Null \notin 1..MaxStarts

Pids == 1..MaxStarts
FirstPort == 9000

\* The *DaemonSet objects; proc = 0 stands for a nil ServerInfo.
DaemonSets == [id : Ids, cfg : Configs, proc : Nat, healthy : BOOLEAN]

ASSUME NullAssumption == Null \notin DaemonSets

VARIABLES
  entry,     \* the map d.daemonsets
  locks,     \* the holder of the mutex of each type
  mapLock,   \* the holder of the mutex of the map of mutexes
  nextPort,  \* LocalDriver.nextPort
  pc, op, typ,   \* where a caller is, in which operation, on which type
  ds,        \* the *DaemonSet a caller works with
  port,      \* the port it got from getPort, or sends its request to
  arg,       \* the tasks it assigns or removes
  ret,       \* the tasks its last upsert returned, Null for an error
  starts,    \* the number of attempts to start a process
  spawned,   \* the number of processes started
  alive,     \* those that run
  procOf,    \* type, config and port each process was started with
  tasks,     \* the tasks assigned to each process
  stopped,   \* RemoveAllDaemonSets has been called
  badDownload    \* history: a download failed during an upsert

portVars == <<nextPort, starts>>
mapVars  == <<entry, locks, mapLock>>
procVars == <<spawned, alive, procOf, tasks>>
callVars == <<op, typ, ds, port, arg, ret>>
vars == <<mapVars, portVars, pc, callVars, procVars, stopped, badDownload>>

PCs == {"idle", "getlock", "lock", "lookup", "list", "download", "stopold",
        "getport", "bump", "spawn", "await", "store", "unlock", "request",
        "lockall", "removeall"}
Ops == {"upsert", "sync", "remove", "removeall", "assign", "unassign"}

Init ==
  /\ entry = [t \in Types |-> Null]
  /\ locks = [t \in Types |-> Null]
  /\ mapLock = Null
  /\ nextPort = FirstPort /\ starts = 0
  /\ pc = [c \in Callers |-> "idle"]
  /\ op = [c \in Callers |-> Null]
  /\ typ = [c \in Callers |-> Null]
  /\ ds = [c \in Callers |-> Null]
  /\ port = [c \in Callers |-> 0]
  /\ arg = [c \in Callers |-> {}]
  /\ ret = [c \in Callers |-> Null]
  /\ spawned = 0 /\ alive = {}
  /\ procOf = [p \in Pids |-> Null]
  /\ tasks = [p \in Pids |-> {}]
  /\ stopped = FALSE /\ badDownload = FALSE

-----------------------------------------------------------------------------
(* Helpers *)

Goto(c, l) == pc' = [pc EXCEPT ![c] = l]

\* The process that answers on a port: of those told to listen on it the first
\* one that still runs.
Listeners(q) == {p \in alive : procOf[p].port = q}
Listener(q) ==
  IF Listeners(q) = {} THEN Null
  ELSE CHOOSE p \in Listeners(q) : \A r \in Listeners(q) : p <= r

PortOf(d) == procOf[d.proc].port

\* ListDaemonTasks can succeed for this daemon set, and then returns these tasks.
CanList(d) == d.proc # 0 /\ Listener(PortOf(d)) # Null
Listed(d) == tasks[Listener(PortOf(d))]

\* isConfigIdentical: configs without an executable are never identical.
SameConfig(f, g) == f = g /\ f \notin NoExecutable

\* StopDaemonSet kills the process of a daemon set; of one without ServerInfo
\* there is none, and killing a process that has died only logs a warning.
Kill(d) ==
  /\ alive' = alive \ {d.proc}
  /\ tasks' = [p \in Pids |-> IF p = d.proc THEN {} ELSE tasks[p]]
  /\ UNCHANGED <<spawned, procOf>>

\* What startDaemonSet reports ends up in ds.Healthy.
Outcome(c, ok) ==
  /\ ds' = [ds EXCEPT ![c].healthy = ok]
  /\ Goto(c, "store")

-----------------------------------------------------------------------------
(* Variants of actions with a bug in them, which the properties have to tell *)
(* from the actions; the specification does not use them.                    *)

\* The deferred Unlock is missing.
UnlockForgotten(c) ==
  /\ pc[c] = "unlock" /\ mapLock = Null
  /\ op' = [op EXCEPT ![c] = Null]
  /\ typ' = [typ EXCEPT ![c] = Null]
  /\ ds' = [ds EXCEPT ![c] = Null]
  /\ port' = [port EXCEPT ![c] = 0]
  /\ Goto(c, "idle")
  /\ UNCHANGED <<mapVars, portVars, arg, ret, procVars, stopped, badDownload>>

\* The config is written into the object that is in the map.
LookupUpsertInPlace(c) ==
  /\ pc[c] = "lookup" /\ op[c] = "upsert"
  /\ LET e == entry[typ[c]]
     IN  /\ Goto(c, IF e # Null /\ SameConfig(e.cfg, ds[c].cfg) THEN "list" ELSE "download")
         /\ entry' = IF e = Null THEN entry
                     ELSE [entry EXCEPT ![typ[c]].cfg = ds[c].cfg]
  /\ UNCHANGED <<locks, mapLock, portVars, callVars, procVars, stopped, badDownload>>

\* The flag ds.Healthy is not looked at.
LookupSyncAlways(c) ==
  /\ pc[c] = "lookup" /\ op[c] = "sync"
  /\ IF entry[typ[c]] = Null
     THEN Goto(c, "unlock") /\ UNCHANGED ds
     ELSE Goto(c, "list") /\ ds' = [ds EXCEPT ![c] = entry[typ[c]]]
  /\ UNCHANGED <<mapVars, portVars, op, typ, port, arg, ret, procVars, stopped, badDownload>>

\* The old daemon set leaves the map, its process goes on.
StopOldForgets(c) ==
  /\ pc[c] = "stopold"
  /\ entry' = [entry EXCEPT ![typ[c]] = Null]
  /\ Goto(c, "getport")
  /\ UNCHANGED <<locks, mapLock, portVars, callVars, procVars, stopped, badDownload>>

\* RemoveDaemonSet without StopDaemonSet.
RemoveForgets(c) ==
  /\ pc[c] = "lookup" /\ op[c] = "remove"
  /\ entry' = [entry EXCEPT ![typ[c]] = Null]
  /\ Goto(c, "unlock")
  /\ UNCHANGED <<locks, mapLock, portVars, callVars, procVars, stopped, badDownload>>

-----------------------------------------------------------------------------
(* Entering and leaving an operation *)

\* A caller enters an operation on a type that takes the lock of the type.
Call(c, o, t) ==
  /\ pc[c] = "idle"
  /\ op' = [op EXCEPT ![c] = o]
  /\ typ' = [typ EXCEPT ![c] = t]
  /\ ret' = [ret EXCEPT ![c] = Null]
  /\ Goto(c, "getlock")
  /\ UNCHANGED <<mapVars, portVars, port, arg, procVars, stopped, badDownload>>

\* The bound: no more calls than starts that MaxStarts leaves may start a process.
Starters == {b \in Callers : op[b] \in {"upsert", "sync"}}
StartsLeft == starts + Cardinality(Starters) < MaxStarts

CallUpsert(c, t, i, f) ==
  /\ StartsLeft /\ Call(c, "upsert", t)
  /\ ds' = [ds EXCEPT ![c] = [id |-> i, cfg |-> f, proc |-> 0, healthy |-> FALSE]]

CallSync(c, t) == StartsLeft /\ Call(c, "sync", t) /\ UNCHANGED ds
CallRemove(c, t) == Call(c, "remove", t) /\ UNCHANGED ds

\* getLockBy needs the mutex of the map for a moment, ...
GetLock(c) ==
  /\ pc[c] = "getlock" /\ mapLock = Null
  /\ Goto(c, "lock")
  /\ UNCHANGED <<mapVars, portVars, callVars, procVars, stopped, badDownload>>

\* ... and then the mutex of the key is taken without it.
Lock(c) ==
  /\ pc[c] = "lock" /\ locks[typ[c]] = Null
  /\ locks' = [locks EXCEPT ![typ[c]] = c]
  /\ Goto(c, "lookup")
  /\ UNCHANGED <<entry, mapLock, portVars, callVars, procVars, stopped, badDownload>>

\* The deferred Unlock, which looks the mutex up again.
Unlock(c) ==
  /\ pc[c] = "unlock" /\ mapLock = Null
  /\ locks' = [locks EXCEPT ![typ[c]] = Null]
  /\ op' = [op EXCEPT ![c] = Null]
  /\ typ' = [typ EXCEPT ![c] = Null]
  /\ ds' = [ds EXCEPT ![c] = Null]
  /\ port' = [port EXCEPT ![c] = 0]
  /\ Goto(c, "idle")
  /\ UNCHANGED <<entry, mapLock, portVars, arg, ret, procVars, stopped, badDownload>>

-----------------------------------------------------------------------------
(* UpsertDaemonSet and SyncDaemonSet *)

\* Is there a daemon set with the config asked for?  If not, start one.
LookupUpsert(c) ==
  /\ pc[c] = "lookup" /\ op[c] = "upsert"
  /\ LET e == entry[typ[c]]
     IN  Goto(c, IF e # Null /\ SameConfig(e.cfg, ds[c].cfg) THEN "list" ELSE "download")
  /\ UNCHANGED <<mapVars, portVars, callVars, procVars, stopped, badDownload>>

\* A daemon set that is missing or flagged unhealthy is left alone.
LookupSync(c) ==
  /\ pc[c] = "lookup" /\ op[c] = "sync"
  /\ LET e == entry[typ[c]]
     IN  IF e = Null \/ ~e.healthy
         THEN Goto(c, "unlock") /\ UNCHANGED ds
         ELSE Goto(c, "list") /\ ds' = [ds EXCEPT ![c] = e]
  /\ UNCHANGED <<mapVars, portVars, op, typ, port, arg, ret, procVars, stopped, badDownload>>

\* The daemon set answers: an upsert gives it the id of the request.
ListSucceeds(c) ==
  /\ pc[c] = "list" /\ CanList(entry[typ[c]])
  /\ entry' = IF op[c] = "upsert"
              THEN [entry EXCEPT ![typ[c]].id = ds[c].id]
              ELSE entry
  /\ ret' = [ret EXCEPT ![c] = Listed(entry[typ[c]])]
  /\ Goto(c, "unlock")
  /\ UNCHANGED <<locks, mapLock, portVars, op, typ, ds, port, arg, procVars, stopped, badDownload>>

\* The daemon set does not answer (in time): it is spawned anew.
ListFails(c) ==
  /\ pc[c] = "list"
  /\ Goto(c, "download")
  /\ UNCHANGED <<mapVars, portVars, callVars, procVars, stopped, badDownload>>

Downloaded(c) ==
  /\ pc[c] = "download" /\ ds[c].cfg \notin NoExecutable
  /\ Goto(c, "stopold")
  /\ UNCHANGED <<mapVars, portVars, callVars, procVars, stopped, badDownload>>

\* No executable configured, or the download failed: startDaemonSet returns
\* before it has looked at the daemon set that is there.
DownloadFails(c) ==
  /\ pc[c] = "download"
  /\ Outcome(c, FALSE)
  /\ badDownload' = (badDownload \/ op[c] = "upsert")
  /\ UNCHANGED <<mapVars, portVars, op, typ, port, arg, ret, procVars, stopped>>

StopOld(c) ==
  /\ pc[c] = "stopold"
  /\ LET old == entry[typ[c]]
     IN  IF old = Null THEN UNCHANGED procVars ELSE Kill(old)
  /\ entry' = [entry EXCEPT ![typ[c]] = Null]
  /\ Goto(c, "getport")
  /\ UNCHANGED <<locks, mapLock, portVars, callVars, stopped, badDownload>>

\* port := l.nextPort; l.nextPort++, which no lock protects: callers with
\* different types get here together.
GetPort(c) ==
  /\ pc[c] = "getport"
  /\ port' = [port EXCEPT ![c] = nextPort]
  /\ starts' = starts + 1
  /\ Goto(c, "bump")
  /\ UNCHANGED <<mapVars, nextPort, op, typ, ds, arg, ret, procVars, stopped, badDownload>>

BumpPort(c) ==
  /\ pc[c] = "bump"
  /\ nextPort' = port[c] + 1
  /\ Goto(c, "spawn")
  /\ UNCHANGED <<mapVars, starts, callVars, procVars, stopped, badDownload>>

\* cmd.Start
Spawn(c) ==
  /\ pc[c] = "spawn"
  /\ LET p == spawned + 1
     IN  /\ spawned' = p
         /\ alive' = alive \cup {p}
         /\ procOf' = [procOf EXCEPT ![p] =
                         [type |-> typ[c], cfg |-> ds[c].cfg, port |-> port[c]]]
         /\ ds' = [ds EXCEPT ![c].proc = p]
  /\ Goto(c, "await")
  /\ UNCHANGED <<mapVars, portVars, op, typ, port, arg, ret, tasks, stopped, badDownload>>

SpawnFails(c) ==
  /\ pc[c] = "spawn"
  /\ Outcome(c, FALSE)
  /\ UNCHANGED <<mapVars, portVars, op, typ, port, arg, ret, procVars, stopped, badDownload>>

\* waitForHealthyState: a list succeeds, or the time is up (or the context done).
BecomesHealthy(c) ==
  /\ pc[c] = "await" /\ CanList(ds[c])
  /\ Outcome(c, TRUE)
  /\ ret' = [ret EXCEPT ![c] = Listed(ds[c])]
  /\ UNCHANGED <<mapVars, portVars, op, typ, port, arg, procVars, stopped, badDownload>>

HealthTimeout(c) ==
  /\ pc[c] = "await"
  /\ Outcome(c, FALSE)
  /\ UNCHANGED <<mapVars, portVars, op, typ, port, arg, ret, procVars, stopped, badDownload>>

Store(c) ==
  /\ pc[c] = "store"
  /\ entry' = [entry EXCEPT ![typ[c]] = ds[c]]
  /\ Goto(c, "unlock")
  /\ UNCHANGED <<locks, mapLock, portVars, callVars, procVars, stopped, badDownload>>

-----------------------------------------------------------------------------
(* RemoveDaemonSet, and the operations without a lock *)

Remove(c) ==
  /\ pc[c] = "lookup" /\ op[c] = "remove"
  /\ LET e == entry[typ[c]]
     IN  IF e = Null THEN UNCHANGED procVars ELSE Kill(e)
  /\ entry' = [entry EXCEPT ![typ[c]] = Null]
  /\ Goto(c, "unlock")
  /\ UNCHANGED <<locks, mapLock, portVars, callVars, stopped, badDownload>>

\* AssignDaemonTasks and RemoveDaemonTasks look the daemon set up, and send a
\* request to the port they find; without daemon set or port they fail.
CallTasks(c, o, t, T) ==
  /\ pc[c] = "idle"
  /\ entry[t] # Null /\ entry[t].proc # 0
  /\ op' = [op EXCEPT ![c] = o]
  /\ typ' = [typ EXCEPT ![c] = t]
  /\ port' = [port EXCEPT ![c] = PortOf(entry[t])]
  /\ arg' = [arg EXCEPT ![c] = T]
  /\ ret' = [ret EXCEPT ![c] = Null]
  /\ Goto(c, "request")
  /\ UNCHANGED <<mapVars, portVars, ds, procVars, stopped, badDownload>>

\* Either way the operation is over.
Answered(c) ==
  /\ op' = [op EXCEPT ![c] = Null]
  /\ typ' = [typ EXCEPT ![c] = Null]
  /\ port' = [port EXCEPT ![c] = 0]
  /\ arg' = [arg EXCEPT ![c] = {}]
  /\ Goto(c, "idle")
  /\ UNCHANGED <<mapVars, portVars, ds, ret, spawned, alive, procOf, stopped, badDownload>>

\* The request reaches whatever process listens on that port by now.
Request(c) ==
  /\ pc[c] = "request" /\ Listener(port[c]) # Null
  /\ LET T == IF op[c] = "assign" THEN tasks[Listener(port[c])] \cup arg[c]
                                  ELSE tasks[Listener(port[c])] \ arg[c]
     IN  tasks' = [tasks EXCEPT ![Listener(port[c])] = T]
  /\ Answered(c)

RequestFails(c) == pc[c] = "request" /\ UNCHANGED tasks /\ Answered(c)

-----------------------------------------------------------------------------
(* RemoveAllDaemonSets *)

CallRemoveAll(c) ==
  /\ ~stopped /\ pc[c] = "idle"
  /\ stopped' = TRUE
  /\ op' = [op EXCEPT ![c] = "removeall"]
  /\ Goto(c, "lockall")
  /\ UNCHANGED <<mapVars, portVars, typ, ds, port, arg, ret, procVars, badDownload>>

LockAll(c) ==
  /\ pc[c] = "lockall" /\ mapLock = Null
  /\ mapLock' = c
  /\ Goto(c, "removeall")
  /\ UNCHANGED <<entry, locks, portVars, callVars, procVars, stopped, badDownload>>

RemoveNext(c, t) ==
  /\ pc[c] = "removeall" /\ entry[t] # Null
  /\ Kill(entry[t])
  /\ entry' = [entry EXCEPT ![t] = Null]
  /\ UNCHANGED <<locks, mapLock, portVars, pc, callVars, stopped, badDownload>>

UnlockAll(c) ==
  /\ pc[c] = "removeall" /\ \A t \in Types : entry[t] = Null
  /\ mapLock' = Null
  /\ op' = [op EXCEPT ![c] = Null]
  /\ Goto(c, "idle")
  /\ UNCHANGED <<entry, locks, portVars, typ, ds, port, arg, ret, procVars, stopped, badDownload>>

-----------------------------------------------------------------------------

\* A process dies of itself.
Crash(p) ==
  /\ p \in alive
  /\ alive' = alive \ {p}
  /\ tasks' = [tasks EXCEPT ![p] = {}]
  /\ UNCHANGED <<mapVars, portVars, pc, callVars, spawned, procOf, stopped, badDownload>>

\* The steps of a caller inside an operation, and those with which something
\* fails that could have succeeded.
Fails(c) ==
  \/ ListFails(c) /\ CanList(entry[typ[c]])
  \/ DownloadFails(c) /\ ds[c].cfg \notin NoExecutable
  \/ SpawnFails(c)
  \/ HealthTimeout(c) /\ CanList(ds[c])
  \/ RequestFails(c) /\ Listener(port[c]) # Null

Progress(c) ==
  \/ GetLock(c) \/ Lock(c) \/ Unlock(c)
  \/ LookupUpsert(c) \/ LookupSync(c) \/ ListSucceeds(c)
  \/ ListFails(c) /\ ~CanList(entry[typ[c]])
  \/ Downloaded(c)
  \/ DownloadFails(c) /\ ds[c].cfg \in NoExecutable
  \/ StopOld(c) \/ GetPort(c) \/ BumpPort(c) \/ Spawn(c)
  \/ BecomesHealthy(c)
  \/ HealthTimeout(c) /\ ~CanList(ds[c])
  \/ Store(c) \/ Remove(c)
  \/ Request(c)
  \/ RequestFails(c) /\ Listener(port[c]) = Null
  \/ LockAll(c) \/ (\E t \in Types : RemoveNext(c, t)) \/ UnlockAll(c)

Step(c) == Progress(c) \/ Fails(c)

\* The calls of the operations, as the reconciler and the task handlers make
\* them.
Calls(c) ==
  /\ ~stopped
  /\ \E t \in Types :
       \/ \E i \in Ids, f \in Configs : CallUpsert(c, t, i, f)
       \/ CallSync(c, t) \/ CallRemove(c, t)
       \/ \E o \in {"assign", "unassign"}, T \in SUBSET DTasks : CallTasks(c, o, t, T)

\* RemoveAllDaemonSets is called by DelegateShell.Shutdown, after it has waited
\* for the reconciler and for the poller.
Quiet == \A c \in Callers : pc[c] = "idle"

Next ==
  \/ \E c \in Callers : Step(c) \/ Calls(c) \/ (Quiet /\ CallRemoveAll(c))
  \/ \E p \in alive : Crash(p)

Spec == Init /\ [][Next]_vars

\* Every goroutine that can take a step in an operation takes it, and no waiter
\* is passed over for ever at a mutex (Go hands a starved mutex over).
Fairness == \A c \in Callers : WF_vars(Step(c)) /\ SF_vars(Lock(c))

FairSpec == Spec /\ Fairness

-----------------------------------------------------------------------------
(* Properties *)

TypeOK ==
  /\ entry \in [Types -> DaemonSets \cup {Null}]
  /\ locks \in [Types -> Callers \cup {Null}]
  /\ mapLock \in Callers \cup {Null}
  /\ nextPort \in Nat /\ starts \in 0..MaxStarts
  /\ pc \in [Callers -> PCs]
  /\ op \in [Callers -> Ops \cup {Null}]
  /\ typ \in [Callers -> Types \cup {Null}]
  /\ ds \in [Callers -> DaemonSets \cup {Null}]
  /\ port \in [Callers -> Nat]
  /\ arg \in [Callers -> SUBSET DTasks]
  /\ ret \in [Callers -> (SUBSET DTasks) \cup {Null}]
  /\ spawned \in 0..starts
  /\ alive \subseteq 1..spawned
  /\ procOf \in [Pids -> [type : Types, cfg : Configs, port : Nat] \cup {Null}]
  /\ tasks \in [Pids -> SUBSET DTasks]
  /\ stopped \in BOOLEAN /\ badDownload \in BOOLEAN

\* Where a caller holds the lock of its type.
Critical == {"lookup", "list", "download", "stopold", "getport", "bump",
             "spawn", "await", "store", "unlock"}

\* "operations are atomic for each daemon set type": two callers are never
\* inside an upsert, sync or remove of one type.
OneOperationPerType ==
  \A b, c \in Callers :
    b # c /\ pc[b] \in Critical /\ pc[c] \in Critical => typ[b] # typ[c]

\* The processes the manager can still kill.
Known ==
  {entry[t].proc : t \in {u \in Types : entry[u] # Null}}
    \cup {ds[c].proc : c \in {b \in Callers : pc[b] \in {"await", "store"}}}

\* Unless a download fails in an upsert, every process that runs is known, and
\* so will be killed when its daemon set is replaced or removed.
NoOrphan == ~badDownload => alive \subseteq Known

\* Unless a download fails in an upsert, a type never has two processes.
OneProcessPerType ==
  ~badDownload => \A p, q \in alive : procOf[p].type = procOf[q].type => p = q

\* The map tells the truth about the process it points to: the reconciler
\* reports this config to the manager, and an upsert is compared with it.
EntryDescribesProcess ==
  \A t \in Types :
    entry[t] # Null /\ entry[t].proc # 0 =>
      procOf[entry[t].proc].type = t /\ procOf[entry[t].proc].cfg = entry[t].cfg

\* Unless a download fails in an upsert, no process is left behind when
\* RemoveAllDaemonSets has returned.
NothingLeft ==
  stopped /\ Quiet /\ ~badDownload => alive = {}

\* An operation that has begun returns: no lock is held for ever.
OperationReturns == \A c \in Callers : pc[c] # "idle" ~> pc[c] = "idle"

\* "RemoveAllDaemonSets handles removing all daemon sets."
AllRemoved == stopped /\ Quiet => alive = {}

\* "getPort returns the port where a new daemon set http server should listen":
\* two processes that run have been given different ports.
PortsDistinct ==
  \A p, q \in alive : procOf[p].port = procOf[q].port => p = q
=============================================================================
