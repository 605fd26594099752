---------------------- MODULE DaemonSetManager_proofs ----------------------
(***************************************************************************)
(* Proofs about DaemonSetManager, for every set of callers, types, ids,    *)
(* configs and tasks and every bound.                                      *)
(***************************************************************************)
EXTENDS DaemonSetManager, FiniteSetTheorems, TLAPS

\* Where a caller works with a *DaemonSet of its own.
Working == {"list", "download", "stopold", "getport", "bump", "spawn",
            "await", "store"}
RemovingAll == {"lockall", "removeall"}

\* The types the argument needs.
Shape ==
  /\ entry \in [Types -> DaemonSets \cup {Null}]
  /\ locks \in [Types -> Callers \cup {Null}]
  /\ pc \in [Callers -> PCs]
  /\ op \in [Callers -> Ops \cup {Null}]
  /\ typ \in [Callers -> Types \cup {Null}]
  /\ ds \in [Callers -> DaemonSets \cup {Null}]
  /\ spawned \in Nat
  /\ badDownload \in BOOLEAN /\ stopped \in BOOLEAN

\* A caller in an operation with a lock knows its type, and from Lock to Unlock
\* it holds the lock.
HoldsLock ==
  \A c \in Callers :
    /\ pc[c] \in {"getlock", "lock"} \cup Critical => typ[c] \in Types
    /\ pc[c] \in Critical => locks[typ[c]] = c

\* It has an object to work with.
HasObject ==
  \A c \in Callers :
    /\ pc[c] \in Working => ds[c] # Null /\ op[c] \in {"upsert", "sync"}
    /\ op[c] = "upsert" /\ pc[c] \in {"getlock", "lock", "lookup"} => ds[c] # Null

\* The tasks are listed of the object in the map, and a sync works on that object
\* until StopOld takes it out.
SyncsEntry ==
  \A c \in Callers :
    /\ pc[c] = "list" => entry[typ[c]] # Null
    /\ pc[c] \in {"list", "download"} /\ op[c] = "sync" =>
         entry[typ[c]] # Null /\ entry[typ[c]].proc = ds[c].proc

\* From StopOld to Store there is no entry; a Store after a failed download
\* overwrites one that has the same process, or badDownload tells of it.
StoresNothingOver ==
  \A c \in Callers :
    /\ pc[c] \in {"getport", "bump", "spawn", "await"} => entry[typ[c]] = Null
    /\ pc[c] = "store" =>
         badDownload \/ entry[typ[c]] = Null \/ entry[typ[c]].proc = ds[c].proc

\* RemoveAllDaemonSets runs alone and leaves an empty map.
Stopping ==
  /\ \A c \in Callers : pc[c] \in RemovingAll =>
       stopped /\ \A b \in Callers \ {c} : pc[b] = "idle"
  /\ stopped => \/ \E c \in Callers : pc[c] \in RemovingAll
                \/ Quiet /\ \A t \in Types : entry[t] = Null

\* The inductive invariant.
IInv ==
  /\ Shape /\ HoldsLock /\ HasObject /\ SyncsEntry /\ StoresNothingOver
  /\ Stopping /\ NoOrphan

-----------------------------------------------------------------------------
(* Objects that are updated stay objects. *)

LEMMA UpdateHealthy ==
  ASSUME NEW d \in DaemonSets, NEW ok \in BOOLEAN
  PROVE  /\ [d EXCEPT !.healthy = ok] \in DaemonSets
         /\ [d EXCEPT !.healthy = ok].proc = d.proc
         /\ [d EXCEPT !.healthy = ok].cfg = d.cfg
BY DEF DaemonSets

LEMMA UpdateId ==
  ASSUME NEW d \in DaemonSets, NEW i \in Ids
  PROVE  /\ [d EXCEPT !.id = i] \in DaemonSets
         /\ [d EXCEPT !.id = i].proc = d.proc
         /\ [d EXCEPT !.id = i].cfg = d.cfg
BY DEF DaemonSets

LEMMA UpdateProc ==
  ASSUME NEW d \in DaemonSets, NEW p \in Nat
  PROVE  /\ [d EXCEPT !.proc = p] \in DaemonSets
         /\ [d EXCEPT !.proc = p].proc = p
         /\ [d EXCEPT !.proc = p].cfg = d.cfg
BY DEF DaemonSets

-----------------------------------------------------------------------------
(* The steps of a caller inside an operation. *)

\* Those that change nothing but the place of the caller or its lock.
LEMMA MovesKeepIInv ==
  ASSUME IInv, NEW c \in Callers,
         \/ GetLock(c) \/ Lock(c) \/ LookupUpsert(c) \/ LookupSync(c)
         \/ ListFails(c) \/ Downloaded(c) \/ GetPort(c) \/ BumpPort(c) \/ LockAll(c)
  PROVE  IInv'
<1> USE DEF IInv, Shape, HoldsLock, HasObject, SyncsEntry, StoresNothingOver,
            Stopping, NoOrphan, Known, Quiet, Critical, Working, RemovingAll, PCs,
            Goto, mapVars, portVars, callVars, procVars
<1>1. CASE GetLock(c)
  BY <1>1 DEF GetLock
<1>2. CASE Lock(c)
  BY <1>2, ManagerAssumption DEF Lock
<1>3. CASE LookupUpsert(c)
  <2>1. PICK next \in {"list", "download"} :
          /\ pc' = [pc EXCEPT ![c] = next]
          /\ next = "list" => entry[typ[c]] # Null
    BY <1>3 DEF LookupUpsert
  <2> QED
    BY <1>3, <2>1 DEF LookupUpsert
<1>4. CASE LookupSync(c)
  BY <1>4 DEF LookupSync
<1>5. CASE ListFails(c)
  BY <1>5 DEF ListFails
<1>6. CASE Downloaded(c)
  BY <1>6 DEF Downloaded
<1>7. CASE GetPort(c)
  BY <1>7 DEF GetPort
<1>8. CASE BumpPort(c)
  BY <1>8 DEF BumpPort
<1>9. CASE LockAll(c)
  BY <1>9 DEF LockAll
<1> QED
  BY <1>1, <1>2, <1>3, <1>4, <1>5, <1>6, <1>7, <1>8, <1>9

\* ds.Healthy is set on the way to Store: the object keeps its process.  An
\* entry it would overwrite with another process is one of a failed download.
LEMMA OutcomesKeepIInv ==
  ASSUME IInv, NEW c \in Callers,
         DownloadFails(c) \/ SpawnFails(c) \/ BecomesHealthy(c) \/ HealthTimeout(c)
  PROVE  IInv'
<1>1. PICK ok \in BOOLEAN : Outcome(c, ok)
  BY DEF DownloadFails, SpawnFails, BecomesHealthy, HealthTimeout
<1>2. pc[c] \in Working /\ ds[c] \in DaemonSets
  BY DEF DownloadFails, SpawnFails, BecomesHealthy, HealthTimeout, IInv,
         HasObject, Shape, Working
<1>3. /\ ds' \in [Callers -> DaemonSets \cup {Null}]
      /\ ds'[c] \in DaemonSets /\ ds'[c].proc = ds[c].proc
      /\ \A b \in Callers \ {c} : ds'[b] = ds[b]
  BY <1>1, <1>2, UpdateHealthy DEF Outcome, IInv, Shape
<1>4. /\ pc' = [pc EXCEPT ![c] = "store"]
      /\ UNCHANGED <<entry, locks, op, typ, spawned, alive, stopped>>
  BY <1>1 DEF Outcome, Goto, DownloadFails, SpawnFails, BecomesHealthy,
              HealthTimeout, mapVars, procVars
<1>5. /\ badDownload' \in BOOLEAN /\ (badDownload => badDownload')
      /\ pc[c] = "download" /\ op[c] = "upsert" => badDownload'
      /\ pc[c] \in {"download", "spawn", "await"}
  BY DEF DownloadFails, SpawnFails, BecomesHealthy, HealthTimeout, IInv, Shape
<1>6. Shape' /\ HoldsLock'
  BY <1>2, <1>3, <1>4, <1>5 DEF IInv, Shape, HoldsLock, Critical, Working, PCs
<1>7. HasObject' /\ Stopping'
  BY <1>2, <1>3, <1>4, <1>5, NullAssumption
  DEF IInv, Shape, HasObject, Stopping, Quiet, RemovingAll, Working
<1>8. SyncsEntry' /\ StoresNothingOver'
  BY <1>2, <1>3, <1>4, <1>5
  DEF IInv, Shape, HasObject, SyncsEntry, StoresNothingOver, Working
<1>9. NoOrphan'
  BY <1>2, <1>3, <1>4, <1>5 DEF IInv, Shape, NoOrphan, Known
<1> QED
  BY <1>6, <1>7, <1>8, <1>9 DEF IInv

\* An upsert gives the daemon set that answers its own id.
LEMMA ListSucceedsKeepsIInv ==
  ASSUME IInv, NEW c \in Callers, ListSucceeds(c)
  PROVE  IInv'
<1>1. /\ typ[c] \in Types /\ entry[typ[c]] \in DaemonSets
      /\ ds[c] \in DaemonSets
  BY DEF ListSucceeds, CanList, IInv, Shape, HoldsLock, HasObject, SyncsEntry,
         StoresNothingOver, Critical, Working
<1> DEFINE d == [entry[typ[c]] EXCEPT !.id = ds[c].id]
<1>3. d \in DaemonSets /\ d.proc = entry[typ[c]].proc
  BY <1>1, UpdateId DEF DaemonSets
<1>4. entry' = [entry EXCEPT ![typ[c]] = IF op[c] = "upsert" THEN d ELSE @]
  BY <1>1 DEF ListSucceeds, IInv, Shape
<1>5. /\ entry' \in [Types -> DaemonSets \cup {Null}]
      /\ \A t \in Types : (entry'[t] = Null <=> entry[t] = Null)
                            /\ (entry[t] # Null => entry'[t].proc = entry[t].proc)
  BY <1>1, <1>3, <1>4, NullAssumption DEF IInv, Shape
<1>6. /\ pc[c] = "list" /\ pc' = [pc EXCEPT ![c] = "unlock"]
      /\ UNCHANGED <<locks, op, typ, ds, spawned, alive, stopped, badDownload>>
  BY DEF ListSucceeds, Goto, procVars
<1>7. Shape' /\ HoldsLock' /\ HasObject'
  BY <1>5, <1>6 DEF IInv, Shape, HoldsLock, HasObject, Critical, Working, PCs
<1>8. SyncsEntry' /\ StoresNothingOver'
  BY <1>5, <1>6 DEF IInv, Shape, HoldsLock, SyncsEntry, StoresNothingOver, Critical
<1>9. Stopping'
  BY <1>5, <1>6 DEF IInv, Shape, Stopping, Quiet, RemovingAll
<1>10. NoOrphan'
  BY <1>5, <1>6 DEF IInv, Shape, NoOrphan, Known
<1> QED
  BY <1>7, <1>8, <1>9, <1>10 DEF IInv

\* StopOld kills the old process and takes its entry; Spawn starts a new one,
\* known by the object of the caller; Store puts the object into the map.
LEMMA ReplacingKeepsIInv ==
  ASSUME IInv, NEW c \in Callers,
         StopOld(c) \/ Spawn(c) \/ Store(c) \/ Remove(c) \/ Unlock(c)
  PROVE  IInv'
<1> USE DEF IInv, Shape, HoldsLock, HasObject, SyncsEntry, StoresNothingOver,
            Stopping, NoOrphan, Known, Quiet, Critical, Working, RemovingAll, PCs,
            Goto, mapVars, portVars, callVars, procVars
<1>1. CASE StopOld(c)
  BY <1>1 DEF StopOld, Kill
<1>2. CASE Spawn(c)
  <2>1. ds[c] \in DaemonSets /\ spawned + 1 \in Nat
    BY <1>2 DEF Spawn
  <2>2. /\ ds' = [ds EXCEPT ![c] = [ds[c] EXCEPT !.proc = spawned + 1]]
        /\ ds'[c] \in DaemonSets /\ ds'[c].proc = spawned + 1
    BY <1>2, <2>1, UpdateProc DEF Spawn
  <2> QED
    BY <1>2, <2>1, <2>2, NullAssumption DEF Spawn
<1>3. CASE Store(c)
  BY <1>3, NullAssumption DEF Store
<1>4. CASE Remove(c)
  BY <1>4 DEF Remove, Kill
<1>5. CASE Unlock(c)
  BY <1>5 DEF Unlock
<1> QED
  BY <1>1, <1>2, <1>3, <1>4, <1>5

\* Requests about tasks touch neither the map nor the processes.
LEMMA RequestsKeepIInv ==
  ASSUME IInv, NEW c \in Callers, Request(c) \/ RequestFails(c)
  PROVE  IInv'
<1>1. /\ pc[c] = "request" /\ pc' = [pc EXCEPT ![c] = "idle"]
      /\ op' = [op EXCEPT ![c] = Null] /\ typ' = [typ EXCEPT ![c] = Null]
      /\ UNCHANGED <<entry, locks, ds, spawned, alive, stopped, badDownload>>
  BY DEF Request, RequestFails, Answered, Goto, mapVars
<1> QED
  BY <1>1
  DEF IInv, Shape, HoldsLock, HasObject, SyncsEntry, StoresNothingOver, Stopping,
      NoOrphan, Known, Quiet, Critical, Working, RemovingAll, PCs

\* RemoveAllDaemonSets kills what it takes out of the map, alone.
LEMMA RemovingAllKeepsIInv ==
  ASSUME IInv, NEW c \in Callers,
         (\E t \in Types : RemoveNext(c, t)) \/ UnlockAll(c)
  PROVE  IInv'
<1> USE DEF IInv, Shape, HoldsLock, HasObject, SyncsEntry, StoresNothingOver,
            Stopping, NoOrphan, Known, Quiet, Critical, Working, RemovingAll, PCs,
            Goto, mapVars, portVars, callVars, procVars
<1>1. ASSUME NEW t \in Types, RemoveNext(c, t)
      PROVE  IInv'
  BY <1>1 DEF RemoveNext, Kill
<1>2. CASE UnlockAll(c)
  BY <1>2 DEF UnlockAll
<1> QED
  BY <1>1, <1>2

LEMMA StepKeepsIInv ==
  ASSUME IInv, NEW c \in Callers, Step(c)
  PROVE  IInv'
BY MovesKeepIInv, OutcomesKeepIInv, ListSucceedsKeepsIInv, ReplacingKeepsIInv,
   RequestsKeepIInv, RemovingAllKeepsIInv
DEF Step, Progress, Fails

-----------------------------------------------------------------------------
(* The calls, the crash, and the whole. *)

\* An upsert begins with an object that knows no process yet.
LEMMA CallUpsertKeepsIInv ==
  ASSUME IInv, ~stopped, NEW c \in Callers,
         NEW t \in Types, NEW i \in Ids, NEW f \in Configs, CallUpsert(c, t, i, f)
  PROVE  IInv'
<1> USE DEF IInv, Shape, HoldsLock, HasObject, SyncsEntry, StoresNothingOver,
            Stopping, NoOrphan, Known, Quiet, Critical, Working, RemovingAll, PCs, Ops,
            Goto, mapVars, portVars, callVars, procVars
<1> DEFINE d == [id |-> i, cfg |-> f, proc |-> 0, healthy |-> FALSE]
<1>1. d \in DaemonSets
  BY Zenon, 0 \in Nat DEF DaemonSets
<1>2. d \in DaemonSets /\ d # Null
  BY <1>1, NullAssumption
<1>3. /\ ds' = [ds EXCEPT ![c] = d]
      /\ pc[c] = "idle" /\ pc' = [pc EXCEPT ![c] = "getlock"]
      /\ op' = [op EXCEPT ![c] = "upsert"] /\ typ' = [typ EXCEPT ![c] = t]
      /\ UNCHANGED <<entry, locks, spawned, alive, stopped, badDownload>>
  BY DEF CallUpsert, Call
<1> HIDE DEF d
<1> QED
  BY <1>2, <1>3

LEMMA OtherCallsKeepIInv ==
  ASSUME IInv, ~stopped, NEW c \in Callers, NEW t \in Types,
         \/ CallSync(c, t) \/ CallRemove(c, t)
         \/ \E o \in {"assign", "unassign"}, T \in SUBSET DTasks : CallTasks(c, o, t, T)
  PROVE  IInv'
<1> USE DEF IInv, Shape, HoldsLock, HasObject, SyncsEntry, StoresNothingOver,
            Stopping, NoOrphan, Known, Quiet, Critical, Working, RemovingAll, PCs, Ops,
            Goto, mapVars, portVars, callVars, procVars
<1>1. CASE CallSync(c, t) \/ CallRemove(c, t)
  BY <1>1 DEF CallSync, CallRemove, Call
<1>2. ASSUME NEW o \in {"assign", "unassign"}, NEW T \in SUBSET DTasks,
             CallTasks(c, o, t, T)
      PROVE  IInv'
  BY <1>2 DEF CallTasks
<1> QED
  BY <1>1, <1>2

LEMMA CallsKeepIInv ==
  ASSUME IInv, NEW c \in Callers, Calls(c)
  PROVE  IInv'
BY CallUpsertKeepsIInv, OtherCallsKeepIInv DEF Calls

LEMMA CallRemoveAllKeepsIInv ==
  ASSUME IInv, NEW c \in Callers, Quiet, CallRemoveAll(c)
  PROVE  IInv'
BY DEF IInv, Shape, HoldsLock, HasObject, SyncsEntry, StoresNothingOver, Stopping,
       NoOrphan, Known, Quiet, Critical, Working, RemovingAll, PCs, Ops, Goto,
       CallRemoveAll, mapVars, procVars

LEMMA CrashKeepsIInv ==
  ASSUME IInv, NEW p \in alive, Crash(p)
  PROVE  IInv'
BY DEF IInv, Shape, HoldsLock, HasObject, SyncsEntry, StoresNothingOver, Stopping,
       NoOrphan, Known, Quiet, Crash, mapVars, callVars

LEMMA InitIInv == Init => IInv
<1> SUFFICES ASSUME Init PROVE IInv
  OBVIOUS
<1>1. badDownload \in BOOLEAN /\ stopped \in BOOLEAN /\ ~stopped
  BY Zenon DEF Init
<1> QED
  BY <1>1
  DEF Init, IInv, Shape, HoldsLock, HasObject, SyncsEntry, StoresNothingOver,
      Stopping, NoOrphan, Quiet, Critical, Working, RemovingAll, PCs

\* The first invariant: locks, objects and the map.
THEOREM Inductive == Spec => []IInv
<1>1. Init => IInv
  BY InitIInv
<1>2. IInv /\ [Next]_vars => IInv'
  <2> SUFFICES ASSUME IInv, [Next]_vars PROVE IInv'
    OBVIOUS
  <2>1. CASE UNCHANGED vars
    BY <2>1
    DEF IInv, Shape, HoldsLock, HasObject, SyncsEntry, StoresNothingOver, Stopping,
        NoOrphan, Known, Quiet, vars, mapVars, portVars, callVars, procVars
  <2>2. CASE Next
    BY <2>2, StepKeepsIInv, CallsKeepIInv, CallRemoveAllKeepsIInv, CrashKeepsIInv
    DEF Next
  <2> QED
    BY <2>1, <2>2
<1> QED
  BY <1>1, <1>2, PTL DEF Spec

-----------------------------------------------------------------------------
(* What follows. *)

\* Two callers are never inside an upsert, sync or remove of one type: both
\* would hold its mutex.
THEOREM OneOperationPerTypeHolds == Spec => []OneOperationPerType
<1>1. IInv => OneOperationPerType
  BY DEF IInv, HoldsLock, OneOperationPerType
<1> QED
  BY <1>1, Inductive, PTL

\* Unless a download fails in an upsert, the manager can kill every process that
\* runs.
THEOREM NoOrphanHolds == Spec => []NoOrphan
<1>1. IInv => NoOrphan
  BY DEF IInv
<1> QED
  BY <1>1, Inductive, PTL

\* Unless a download fails in an upsert, RemoveAllDaemonSets leaves no process.
THEOREM NothingLeftHolds == Spec => []NothingLeft
<1>1. IInv => NothingLeft
  BY DEF IInv, Stopping, NoOrphan, Known, NothingLeft, Quiet, RemovingAll
<1> QED
  BY <1>1, Inductive, PTL

-----------------------------------------------------------------------------
(* The processes behind the objects.  A second invariant on top of IInv      *)
(* says what the map and the callers know of a process, and counts the       *)
(* starts: there is a process id for every call that may still start one.    *)

Early == {"getlock", "lock", "lookup", "list", "download", "stopold", "getport"}

\* The callers that may still ask for a port, and those that have one and no process.
Starting == {c \in Callers : pc[c] \in Early /\ op[c] \in {"upsert", "sync"}}
Spawning == {c \in Callers : pc[c] \in {"bump", "spawn"}}

Counts ==
  /\ starts \in Nat
  /\ starts + Cardinality(Starting) <= MaxStarts
  /\ spawned + Cardinality(Spawning) <= starts

Answers ==
  /\ mapLock \in Callers \cup {Null} /\ nextPort \in Nat
  /\ port \in [Callers -> Nat]
  /\ arg \in [Callers -> SUBSET DTasks]
  /\ ret \in [Callers -> (SUBSET DTasks) \cup {Null}]

Processes == [type : Types, cfg : Configs, port : Nat]

Procs ==
  /\ alive \subseteq 1..spawned
  /\ procOf \in [Pids -> Processes \cup {Null}]
  /\ \A p \in 1..spawned : procOf[p] \in Processes
  /\ tasks \in [Pids -> SUBSET DTasks]

\* An object knows no process, or one that was started for this type and config.
Describes(d, t) ==
  /\ d.proc \in 0..spawned
  /\ d.proc # 0 => procOf[d.proc].type = t /\ procOf[d.proc].cfg = d.cfg

EntriesDescribe == \A t \in Types : entry[t] # Null => Describes(entry[t], t)

ObjectsDescribe ==
  \A c \in Callers :
    /\ pc[c] \in Working => Describes(ds[c], typ[c])
    /\ op[c] = "upsert" /\ pc[c] \in {"getlock", "lock", "lookup"} => ds[c].proc = 0

PInv == Counts /\ Answers /\ Procs /\ EntriesDescribe /\ ObjectsDescribe

-----------------------------------------------------------------------------
(* Which process answers on a port. *)

LEMMA LeastNumber ==
  ASSUME NEW S \in SUBSET Nat, S # {}
  PROVE  \E x \in S : \A y \in S : x <= y
<1>1. PICK x \in S : \A y \in S : ~(<<y, x>> \in OpToRel(<, Nat))
  BY NatLessThanWellFounded, WFMin
<1>2. \A y \in S : ~(y < x)
  BY <1>1 DEF OpToRel
<1> QED
  BY <1>2

\* It is one that runs.
LEMMA ListenerAlive ==
  ASSUME alive \in SUBSET Nat, NEW q, Listener(q) # Null
  PROVE  Listener(q) \in alive
<1>1. Listeners(q) # {} /\ Listeners(q) \in SUBSET Nat /\ Listeners(q) \subseteq alive
  BY DEF Listener, Listeners
<1>2. \E p \in Listeners(q) : \A r \in Listeners(q) : p <= r
  BY <1>1, LeastNumber
<1>3. Listener(q) = CHOOSE p \in Listeners(q) : \A r \in Listeners(q) : p <= r
  BY <1>1 DEF Listener
<1> QED
  BY <1>1, <1>2, <1>3

-----------------------------------------------------------------------------
(* The counts. *)

LEMMA SomeCallers ==
  ASSUME NEW P \in SUBSET Callers
  PROVE  IsFiniteSet(P) /\ Cardinality(P) \in Nat
  BY ManagerAssumption, FS_Subset, FS_CardinalityType

LEMMA FewerCallers ==
  ASSUME NEW P \in SUBSET Callers, NEW Q \in SUBSET P
  PROVE  Cardinality(Q) <= Cardinality(P)
  BY SomeCallers, FS_Subset

LEMMA OneCallerMore ==
  ASSUME NEW P \in SUBSET Callers, NEW c \in Callers
  PROVE  /\ Cardinality(P \cup {c}) <= Cardinality(P) + 1
         /\ c \notin P => Cardinality(P \cup {c}) = Cardinality(P) + 1
  BY SomeCallers, FS_AddElement

LEMMA CountsSame ==
  ASSUME Shape, Counts, UNCHANGED <<starts, spawned>>,
         Starting' \subseteq Starting, Spawning' \subseteq Spawning
  PROVE  Counts'
<1>1. Starting \in SUBSET Callers /\ Spawning \in SUBSET Callers
  BY DEF Starting, Spawning
<1>2. /\ Cardinality(Starting') <= Cardinality(Starting)
      /\ Cardinality(Spawning') <= Cardinality(Spawning)
      /\ Cardinality(Starting) \in Nat /\ Cardinality(Starting') \in Nat
      /\ Cardinality(Spawning) \in Nat /\ Cardinality(Spawning') \in Nat
  BY <1>1, FewerCallers, SomeCallers
<1> QED
  BY <1>2, ManagerAssumption DEF Counts, Shape

\* There are process ids left for those that are about to start one.
LEMMA PidLeft ==
  ASSUME Shape, Counts, NEW c \in Spawning
  PROVE  spawned + 1 \in Pids /\ spawned + 1 <= starts
<1>1. Starting \in SUBSET Callers /\ Spawning \in SUBSET Callers /\ Spawning # {}
  BY DEF Starting, Spawning
<1>2. Cardinality(Spawning) \in Nat /\ Cardinality(Starting) \in Nat
  BY <1>1, SomeCallers
<1>3. Cardinality(Spawning) # 0
  BY <1>1, SomeCallers, FS_EmptySet
<1> QED
  BY <1>2, <1>3, ManagerAssumption DEF Counts, Shape, Pids

LEMMA StepKeepsCounts ==
  ASSUME IInv, Counts, NEW c \in Callers, Step(c)
  PROVE  Counts'
<1> USE DEF IInv, Shape
<1>1. CASE GetPort(c)
  <2>1. /\ pc[c] = "getport" /\ pc' = [pc EXCEPT ![c] = "bump"] /\ op' = op
        /\ starts' = starts + 1 /\ spawned' = spawned
        /\ op[c] \in {"upsert", "sync"}
    BY <1>1 DEF GetPort, Goto, procVars, HasObject, Working
  <2>2. Spawning' = Spawning \cup {c} /\ c \notin Spawning
    BY <2>1 DEF Spawning
  <2>3. Starting = Starting' \cup {c} /\ c \notin Starting'
    BY <2>1 DEF Starting, Early
  <2>4. /\ Starting' \in SUBSET Callers /\ Spawning \in SUBSET Callers
    BY DEF Starting, Spawning
  <2>5. /\ Cardinality(Starting) = Cardinality(Starting') + 1
        /\ Cardinality(Spawning') = Cardinality(Spawning) + 1
        /\ Cardinality(Starting') \in Nat /\ Cardinality(Spawning) \in Nat
    BY <2>2, <2>3, <2>4, OneCallerMore, SomeCallers
  <2> QED
    BY <2>1, <2>5, ManagerAssumption DEF Counts
<1>2. CASE Spawn(c)
  <2>1. /\ pc[c] = "spawn" /\ pc' = [pc EXCEPT ![c] = "await"] /\ op' = op
        /\ starts' = starts /\ spawned' = spawned + 1
    BY <1>2 DEF Spawn, Goto, portVars
  <2>2. Spawning = Spawning' \cup {c} /\ c \notin Spawning'
    BY <2>1 DEF Spawning
  <2>3. Starting' = Starting
    BY <2>1 DEF Starting, Early
  <2>4. /\ Starting \in SUBSET Callers /\ Spawning' \in SUBSET Callers
    BY DEF Starting, Spawning
  <2>5. /\ Cardinality(Spawning) = Cardinality(Spawning') + 1
        /\ Cardinality(Spawning') \in Nat /\ Cardinality(Starting) \in Nat
    BY <2>2, <2>4, OneCallerMore, SomeCallers
  <2> QED
    BY <2>1, <2>3, <2>5, ManagerAssumption DEF Counts
<1>3. CASE \/ GetLock(c) \/ Lock(c) \/ LookupUpsert(c) \/ LookupSync(c)
           \/ ListSucceeds(c) \/ ListFails(c) \/ Downloaded(c) \/ StopOld(c)
  <2>1. /\ pc[c] \in Early /\ op' = op /\ UNCHANGED <<starts, spawned>>
        /\ \E l \in Early \cup {"unlock"} : pc' = [pc EXCEPT ![c] = l]
    BY <1>3 DEF GetLock, Lock, LookupUpsert, LookupSync, ListSucceeds, ListFails,
                Downloaded, StopOld, Kill, Goto, Early, portVars, procVars, callVars
  <2>2. Starting' \subseteq Starting /\ Spawning' \subseteq Spawning
    BY <2>1 DEF Starting, Spawning, Early
  <2> QED
    BY <2>1, <2>2, CountsSame
<1>4. CASE \/ DownloadFails(c) \/ SpawnFails(c) \/ BecomesHealthy(c)
           \/ HealthTimeout(c) \/ Store(c) \/ Remove(c) \/ BumpPort(c)
  <2>1. /\ op' = op /\ UNCHANGED <<starts, spawned>>
        /\ \/ \E l \in {"store", "unlock"} : pc' = [pc EXCEPT ![c] = l]
           \/ pc[c] = "bump" /\ pc' = [pc EXCEPT ![c] = "spawn"]
    BY <1>4 DEF DownloadFails, SpawnFails, BecomesHealthy, HealthTimeout, Outcome,
                Store, Remove, BumpPort, Kill, Goto, portVars, procVars, callVars
  <2>2. Starting' \subseteq Starting /\ Spawning' \subseteq Spawning
    BY <2>1 DEF Starting, Spawning, Early
  <2> QED
    BY <2>1, <2>2, CountsSame
<1>5. CASE \/ Unlock(c) \/ Request(c) \/ RequestFails(c) \/ LockAll(c)
           \/ (\E t \in Types : RemoveNext(c, t)) \/ UnlockAll(c)
  <2>1. /\ UNCHANGED <<starts, spawned>>
        /\ \A b \in Callers \ {c} : op'[b] = op[b] /\ pc'[b] = pc[b]
        /\ pc'[c] \notin Early \cup {"bump", "spawn"}
    BY <1>5 DEF Unlock, Request, RequestFails, Answered, LockAll, RemoveNext, Kill,
                UnlockAll, Goto, Early, portVars, procVars, callVars
  <2>2. Starting' \subseteq Starting /\ Spawning' \subseteq Spawning
    BY <2>1 DEF Starting, Spawning
  <2> QED
    BY <2>1, <2>2, CountsSame
<1> QED
  BY <1>1, <1>2, <1>3, <1>4, <1>5 DEF Step, Progress, Fails

\* A call that may start a process is let in only if a start is left for it.
LEMMA CallKeepsCounts ==
  ASSUME IInv, Counts, NEW c \in Callers, NEW o \in Ops, NEW t \in Types,
         Call(c, o, t), o \in {"upsert", "sync"} => StartsLeft
  PROVE  Counts'
<1> USE DEF IInv, Shape
<1>1. /\ pc[c] = "idle" /\ pc' = [pc EXCEPT ![c] = "getlock"]
      /\ op' = [op EXCEPT ![c] = o] /\ UNCHANGED <<starts, spawned>>
  BY DEF Call, Goto, portVars, procVars
<1>2. Spawning' = Spawning
  BY <1>1 DEF Spawning
<1>3. CASE o \in {"upsert", "sync"}
  <2>1. Starting' = Starting \cup {c} /\ Starting \subseteq Starters
    BY <1>1, <1>3 DEF Starting, Starters, Early
  <2>2. Starting \in SUBSET Callers /\ Starters \in SUBSET Callers
        /\ Spawning \in SUBSET Callers /\ Starting' \in SUBSET Callers
    BY DEF Starting, Starters, Spawning
  <2>3. /\ Cardinality(Starting') <= Cardinality(Starting) + 1
        /\ Cardinality(Starting) <= Cardinality(Starters)
        /\ Cardinality(Starting) \in Nat /\ Cardinality(Starters) \in Nat
        /\ Cardinality(Starting') \in Nat
    BY <2>1, <2>2, OneCallerMore, FewerCallers, SomeCallers
  <2>4. starts + Cardinality(Starters) < MaxStarts
    BY <1>3 DEF StartsLeft
  <2> QED
    BY <1>1, <1>2, <2>3, <2>4, ManagerAssumption DEF Counts
<1>4. CASE o \notin {"upsert", "sync"}
  <2>1. Starting' \subseteq Starting
    BY <1>1, <1>4 DEF Starting
  <2> QED
    BY <1>1, <1>2, <2>1, CountsSame
<1> QED
  BY <1>3, <1>4

-----------------------------------------------------------------------------
(* The answers and the processes keep their types. *)

LEMMA PidsSuffice ==
  ASSUME Shape, Counts
  PROVE  spawned <= MaxStarts /\ spawned <= starts /\ 1..spawned \subseteq Pids
<1>1. Starting \in SUBSET Callers /\ Spawning \in SUBSET Callers
  BY DEF Starting, Spawning
<1>2. Cardinality(Spawning) \in Nat /\ Cardinality(Starting) \in Nat
  BY <1>1, SomeCallers
<1>3. spawned <= MaxStarts /\ spawned <= starts
  BY <1>2, ManagerAssumption DEF Counts, Shape
<1> QED
  BY <1>3, ManagerAssumption DEF Pids, Shape

LEMMA ListedTasks ==
  ASSUME Shape, Counts, Procs, NEW q, Listener(q) # Null
  PROVE  Listener(q) \in Pids /\ tasks[Listener(q)] \in SUBSET DTasks
<1>1. alive \in SUBSET Nat
  BY DEF Procs, Shape
<1>2. Listener(q) \in alive
  BY <1>1, ListenerAlive
<1>3. Listener(q) \in Pids
  BY <1>2, PidsSuffice DEF Procs
<1> QED
  BY <1>3 DEF Procs

\* The port of an object with a process.
LEMMA PortType ==
  ASSUME Shape, Procs, NEW d, NEW t, Describes(d, t), d.proc # 0
  PROVE  PortOf(d) \in Nat
<1>1. d.proc \in 1..spawned
  BY DEF Describes, Shape
<1> QED
  BY <1>1 DEF Procs, Processes, PortOf

LEMMA StepKeepsAnswers ==
  ASSUME IInv, PInv, NEW c \in Callers, Step(c)
  PROVE  Answers'
<1> USE DEF PInv, Answers
<1>1. CASE ListSucceeds(c)
  <2>1. Listed(entry[typ[c]]) \in SUBSET DTasks
    BY <1>1, ListedTasks DEF ListSucceeds, CanList, Listed, IInv
  <2> QED
    BY <1>1, <2>1 DEF ListSucceeds, portVars
<1>2. CASE BecomesHealthy(c)
  <2>1. Listed(ds[c]) \in SUBSET DTasks
    BY <1>2, ListedTasks DEF BecomesHealthy, CanList, Listed, IInv
  <2> QED
    BY <1>2, <2>1 DEF BecomesHealthy, mapVars, portVars
<1>3. CASE GetPort(c)
  BY <1>3 DEF GetPort, mapVars
<1>4. CASE BumpPort(c)
  BY <1>4 DEF BumpPort, mapVars, callVars
<1>5. CASE Unlock(c) \/ Request(c) \/ RequestFails(c)
  <2>1. /\ mapLock' = mapLock /\ nextPort' = nextPort /\ ret' = ret
        /\ port' = [port EXCEPT ![c] = 0]
        /\ arg' = arg \/ arg' = [arg EXCEPT ![c] = {}]
    BY <1>5 DEF Unlock, Request, RequestFails, Answered, mapVars, portVars
  <2> QED
    BY <2>1
<1>6. CASE LockAll(c)
  BY <1>6 DEF LockAll, portVars, callVars
<1>7. CASE UnlockAll(c)
  BY <1>7 DEF UnlockAll, portVars
<1>8. CASE \/ GetLock(c) \/ Lock(c) \/ LookupUpsert(c) \/ LookupSync(c)
           \/ ListFails(c) \/ Downloaded(c) \/ DownloadFails(c) \/ StopOld(c)
           \/ Spawn(c) \/ SpawnFails(c) \/ HealthTimeout(c) \/ Store(c) \/ Remove(c)
           \/ (\E t \in Types : RemoveNext(c, t))
  <2>1. UNCHANGED <<mapLock, nextPort, port, arg, ret>>
    BY <1>8 DEF GetLock, Lock, LookupUpsert, LookupSync, ListFails, Downloaded,
                DownloadFails, StopOld, Spawn, SpawnFails, HealthTimeout, Store,
                Remove, RemoveNext, mapVars, portVars, callVars
  <2> QED
    BY <2>1
<1> QED
  BY <1>1, <1>2, <1>3, <1>4, <1>5, <1>6, <1>7, <1>8 DEF Step, Progress, Fails

LEMMA KillKeepsProcs ==
  ASSUME Shape, Procs, NEW d, Kill(d)
  PROVE  Procs'
<1>1. /\ alive' \subseteq alive /\ spawned' = spawned /\ procOf' = procOf
      /\ tasks' = [p \in Pids |-> IF p = d.proc THEN {} ELSE tasks[p]]
  BY DEF Kill
<1>2. tasks' \in [Pids -> SUBSET DTasks]
  BY <1>1 DEF Procs
<1> QED
  BY <1>1, <1>2 DEF Procs

LEMMA StepKeepsProcs ==
  ASSUME IInv, PInv, NEW c \in Callers, Step(c)
  PROVE  Procs'
<1> USE DEF PInv
<1>1. CASE Spawn(c)
  <2>1. /\ c \in Spawning /\ typ[c] \in Types /\ ds[c] \in DaemonSets
    BY <1>1 DEF Spawn, Spawning, IInv, Shape, HoldsLock, HasObject, Critical, Working
  <2>2. spawned + 1 \in Pids /\ spawned \in Nat
    BY <2>1, PidLeft DEF IInv, Shape
  <2> DEFINE r == [type |-> typ[c], cfg |-> ds[c].cfg, port |-> port[c]]
  <2>3. r \in Processes
    BY <2>1 DEF Processes, DaemonSets, Answers
  <2>4. /\ spawned' = spawned + 1 /\ alive' = alive \cup {spawned + 1}
        /\ procOf' = [procOf EXCEPT ![spawned + 1] = r] /\ tasks' = tasks
    BY <1>1 DEF Spawn
  <2> HIDE DEF r
  <2>5. procOf' \in [Pids -> Processes \cup {Null}]
    BY <2>2, <2>3, <2>4 DEF Procs
  <2>6. \A p \in 1..spawned' : procOf'[p] \in Processes
    <3> SUFFICES ASSUME NEW p \in 1..spawned' PROVE procOf'[p] \in Processes
      OBVIOUS
    <3>1. CASE p = spawned + 1
      BY <2>2, <2>3, <2>4, <3>1 DEF Procs
    <3>2. CASE p # spawned + 1
      <4>1. p \in 1..spawned
        BY <2>2, <2>4, <3>2
      <4> QED
        BY <2>2, <2>4, <3>2, <4>1, PidsSuffice DEF Procs, IInv
    <3> QED
      BY <3>1, <3>2
  <2>7. alive' \subseteq 1..spawned'
    BY <2>2, <2>4 DEF Procs
  <2> QED
    BY <2>4, <2>5, <2>6, <2>7 DEF Procs
<1>2. CASE StopOld(c) \/ Remove(c)
  <2>1. UNCHANGED procVars \/ \E d \in {entry[typ[c]]} : Kill(d)
    BY <1>2 DEF StopOld, Remove
  <2> QED
    BY <2>1, KillKeepsProcs DEF IInv, Procs, procVars
<1>3. ASSUME NEW t \in Types, RemoveNext(c, t) PROVE Procs'
  BY <1>3, KillKeepsProcs DEF RemoveNext, IInv
<1>4. CASE Request(c)
  <2> DEFINE T == IF op[c] = "assign" THEN tasks[Listener(port[c])] \cup arg[c]
                                      ELSE tasks[Listener(port[c])] \ arg[c]
  <2>1. tasks[Listener(port[c])] \in SUBSET DTasks /\ arg[c] \in SUBSET DTasks
    BY <1>4, ListedTasks DEF Request, IInv, Answers
  <2>2. T \in SUBSET DTasks
    BY <2>1
  <2>3. tasks' = [tasks EXCEPT ![Listener(port[c])] = T]
        /\ UNCHANGED <<spawned, alive, procOf>>
    BY <1>4 DEF Request, Answered
  <2> HIDE DEF T
  <2> QED
    BY <2>2, <2>3 DEF Procs
<1>5. CASE \/ GetLock(c) \/ Lock(c) \/ Unlock(c) \/ LookupUpsert(c) \/ LookupSync(c)
           \/ ListSucceeds(c) \/ ListFails(c) \/ Downloaded(c) \/ DownloadFails(c)
           \/ GetPort(c) \/ BumpPort(c) \/ SpawnFails(c) \/ BecomesHealthy(c)
           \/ HealthTimeout(c) \/ Store(c) \/ RequestFails(c) \/ LockAll(c) \/ UnlockAll(c)
  <2>1. UNCHANGED procVars
    BY <1>5 DEF GetLock, Lock, Unlock, LookupUpsert, LookupSync, ListSucceeds,
                ListFails, Downloaded, DownloadFails, GetPort, BumpPort, SpawnFails,
                BecomesHealthy, HealthTimeout, Store, RequestFails, Answered,
                LockAll, UnlockAll, procVars
  <2> QED
    BY <2>1 DEF Procs, procVars
<1> QED
  BY <1>1, <1>2, <1>3, <1>4, <1>5 DEF Step, Progress, Fails

-----------------------------------------------------------------------------
(* What the objects say of the processes. *)

\* Nothing the process ids say is changed, and no object that is still looked at.
LEMMA DescriptionsSame ==
  ASSUME IInv, PInv, NEW c \in Callers, UNCHANGED <<spawned, procOf>>,
         \A t \in Types : entry'[t] # Null => entry'[t] = entry[t],
         \A b \in Callers \ {c} : UNCHANGED <<pc[b], op[b], typ[b], ds[b]>>,
         \/ pc'[c] \notin Working \cup {"getlock", "lock", "lookup"}
         \/ /\ UNCHANGED <<op[c], typ[c], ds[c]>>
            /\ pc[c] \in Working /\ pc'[c] \in Working
         \/ /\ UNCHANGED <<op[c], typ[c], ds[c]>>
            /\ pc[c] \in {"getlock", "lock"} /\ pc'[c] \in {"lock", "lookup"}
  PROVE  EntriesDescribe' /\ ObjectsDescribe'
<1>1. EntriesDescribe'
  BY DEF PInv, EntriesDescribe, Describes
<1>2. ASSUME NEW b \in Callers
      PROVE  /\ pc'[b] \in Working => Describes(ds[b], typ[b])'
             /\ op'[b] = "upsert" /\ pc'[b] \in {"getlock", "lock", "lookup"} => ds'[b].proc = 0
  <2>1. CASE b # c
    BY <2>1 DEF PInv, ObjectsDescribe, Describes
  <2>2. CASE b = c
    BY <2>2 DEF PInv, ObjectsDescribe, Describes, Working
  <2> QED
    BY <2>1, <2>2
<1> QED
  BY <1>1, <1>2 DEF ObjectsDescribe

LEMMA StepKeepsDescriptions ==
  ASSUME IInv, PInv, NEW c \in Callers, Step(c)
  PROVE  EntriesDescribe' /\ ObjectsDescribe'
<1> USE DEF IInv, Shape, PInv
<1>1. CASE Spawn(c)
  <2>1. /\ c \in Spawning /\ typ[c] \in Types /\ ds[c] \in DaemonSets
        /\ pc' = [pc EXCEPT ![c] = "await"]
    BY <1>1 DEF Spawn, Spawning, HoldsLock, HasObject, Critical, Working, Goto
  <2>2. spawned + 1 \in Pids
    BY <2>1, PidLeft
  <2>3. /\ spawned' = spawned + 1 /\ UNCHANGED <<entry, op, typ>>
        /\ procOf' = [procOf EXCEPT ![spawned + 1] =
                        [type |-> typ[c], cfg |-> ds[c].cfg, port |-> port[c]]]
        /\ ds' = [ds EXCEPT ![c] = [ds[c] EXCEPT !.proc = spawned + 1]]
    BY <1>1 DEF Spawn, mapVars
  <2>4. /\ procOf'[spawned + 1].type = typ[c] /\ procOf'[spawned + 1].cfg = ds[c].cfg
        /\ \A p \in 0..spawned : p # 0 => procOf'[p] = procOf[p]
    BY <2>2, <2>3, PidsSuffice DEF Procs
  <2>5. ds'[c].proc = spawned + 1 /\ ds'[c].cfg = ds[c].cfg
    BY <2>1, <2>3, UpdateProc
  <2>6. EntriesDescribe'
    BY <2>3, <2>4 DEF EntriesDescribe, Describes
  <2>7. ASSUME NEW b \in Callers
        PROVE  /\ pc'[b] \in Working => Describes(ds[b], typ[b])'
               /\ op'[b] = "upsert" /\ pc'[b] \in {"getlock", "lock", "lookup"} => ds'[b].proc = 0
    <3>1. CASE b # c
      BY <2>1, <2>3, <2>4, <3>1 DEF ObjectsDescribe, Describes
    <3>2. CASE b = c
      BY <2>1, <2>3, <2>4, <2>5, <3>2 DEF Describes
    <3> QED
      BY <3>1, <3>2
  <2> QED
    BY <2>6, <2>7 DEF ObjectsDescribe
<1>2. CASE ListSucceeds(c)
  <2>1. /\ typ[c] \in Types /\ entry[typ[c]] \in DaemonSets /\ ds[c] \in DaemonSets
    BY <1>2 DEF ListSucceeds, HoldsLock, HasObject, SyncsEntry, Critical, Working
  <2> DEFINE d == [entry[typ[c]] EXCEPT !.id = ds[c].id]
  <2>2. d.proc = entry[typ[c]].proc /\ d.cfg = entry[typ[c]].cfg
    BY <2>1, UpdateId DEF DaemonSets
  <2>3. entry' = [entry EXCEPT ![typ[c]] = IF op[c] = "upsert" THEN d ELSE @]
    BY <1>2, <2>1 DEF ListSucceeds
  <2>4. /\ pc' = [pc EXCEPT ![c] = "unlock"]
        /\ UNCHANGED <<op, typ, ds, spawned, procOf>>
    BY <1>2 DEF ListSucceeds, Goto, procVars
  <2>5. \A t \in Types : entry'[t] # Null =>
          entry[t] # Null /\ entry'[t].proc = entry[t].proc /\ entry'[t].cfg = entry[t].cfg
    BY <2>1, <2>2, <2>3, NullAssumption
  <2>6. EntriesDescribe'
    BY <2>4, <2>5 DEF EntriesDescribe, Describes
  <2>7. ObjectsDescribe'
    BY <2>4 DEF ObjectsDescribe, Describes, Working
  <2> QED
    BY <2>6, <2>7
<1>3. CASE DownloadFails(c) \/ SpawnFails(c) \/ BecomesHealthy(c) \/ HealthTimeout(c)
  <2>1. PICK ok \in BOOLEAN : Outcome(c, ok)
    BY <1>3 DEF DownloadFails, SpawnFails, BecomesHealthy, HealthTimeout
  <2>2. pc[c] \in Working /\ ds[c] \in DaemonSets
    BY <1>3 DEF DownloadFails, SpawnFails, BecomesHealthy, HealthTimeout, HasObject, Working
  <2>3. /\ ds'[c].proc = ds[c].proc /\ ds'[c].cfg = ds[c].cfg
        /\ \A b \in Callers \ {c} : ds'[b] = ds[b]
    BY <2>1, <2>2, UpdateHealthy DEF Outcome
  <2>4. /\ pc' = [pc EXCEPT ![c] = "store"]
        /\ UNCHANGED <<entry, op, typ, spawned, procOf>>
    BY <1>3, <2>1 DEF Outcome, Goto, DownloadFails, SpawnFails, BecomesHealthy,
                      HealthTimeout, mapVars, procVars
  <2> QED
    BY <2>2, <2>3, <2>4 DEF EntriesDescribe, ObjectsDescribe, Describes
<1>4. CASE Store(c)
  <2>1. /\ typ[c] \in Types /\ pc[c] = "store" /\ pc' = [pc EXCEPT ![c] = "unlock"]
        /\ entry' = [entry EXCEPT ![typ[c]] = ds[c]]
        /\ UNCHANGED <<op, typ, ds, spawned, procOf>>
    BY <1>4 DEF Store, HoldsLock, Critical, Goto, callVars, procVars
  <2>2. Describes(ds[c], typ[c])
    BY <2>1 DEF ObjectsDescribe, Working
  <2> QED
    BY <2>1, <2>2 DEF EntriesDescribe, ObjectsDescribe, Describes, Working
<1>5. CASE LookupUpsert(c)
  <2>1. /\ pc[c] = "lookup" /\ op[c] = "upsert"
        /\ pc' \in {[pc EXCEPT ![c] = "list"], [pc EXCEPT ![c] = "download"]}
        /\ UNCHANGED <<entry, op, typ, ds, spawned, procOf>>
    BY <1>5 DEF LookupUpsert, Goto, mapVars, callVars, procVars
  <2>2. ds[c].proc = 0
    BY <2>1 DEF ObjectsDescribe
  <2> QED
    BY <2>1, <2>2 DEF EntriesDescribe, ObjectsDescribe, Describes, Working
<1>6. CASE LookupSync(c)
  <2>1. /\ pc[c] = "lookup" /\ op[c] = "sync" /\ typ[c] \in Types
        /\ UNCHANGED <<entry, op, typ, spawned, procOf>>
        /\ \/ pc' = [pc EXCEPT ![c] = "unlock"] /\ UNCHANGED ds
           \/ /\ pc' = [pc EXCEPT ![c] = "list"] /\ entry[typ[c]] # Null
              /\ ds' = [ds EXCEPT ![c] = entry[typ[c]]]
    BY <1>6 DEF LookupSync, Goto, HoldsLock, Critical, mapVars, procVars
  <2> QED
    BY <2>1 DEF EntriesDescribe, ObjectsDescribe, Describes, Working
<1>7. CASE \/ ListFails(c) \/ Downloaded(c) \/ StopOld(c) \/ GetPort(c) \/ BumpPort(c)
  <2>1. /\ pc[c] \in Working /\ pc'[c] \in Working
        /\ UNCHANGED <<op, typ, ds, spawned, procOf>>
        /\ \A b \in Callers \ {c} : pc'[b] = pc[b]
        /\ \A t \in Types : entry'[t] # Null => entry'[t] = entry[t]
    BY <1>7 DEF ListFails, Downloaded, StopOld, GetPort, BumpPort, Kill, Goto,
                Working, mapVars, callVars, procVars
  <2> QED
    BY <2>1, DescriptionsSame
<1>8. CASE GetLock(c) \/ Lock(c)
  <2>1. /\ pc[c] \in {"getlock", "lock"} /\ pc'[c] \in {"lock", "lookup"}
        /\ UNCHANGED <<entry, op, typ, ds, spawned, procOf>>
        /\ \A b \in Callers \ {c} : pc'[b] = pc[b]
    BY <1>8 DEF GetLock, Lock, Goto, mapVars, callVars, procVars
  <2> QED
    BY <2>1, DescriptionsSame
<1>9. CASE \/ Remove(c) \/ Unlock(c) \/ Request(c) \/ RequestFails(c) \/ LockAll(c)
           \/ (\E t \in Types : RemoveNext(c, t)) \/ UnlockAll(c)
  <2>1. /\ pc'[c] \notin Working \cup {"getlock", "lock", "lookup"}
        /\ UNCHANGED <<spawned, procOf>>
        /\ \A b \in Callers \ {c} : UNCHANGED <<pc[b], op[b], typ[b], ds[b]>>
        /\ \A t \in Types : entry'[t] # Null => entry'[t] = entry[t]
    BY <1>9 DEF Remove, Unlock, Request, RequestFails, Answered, LockAll, RemoveNext,
                UnlockAll, Kill, Goto, Working, mapVars, callVars, procVars
  <2> QED
    BY <2>1, DescriptionsSame
<1> QED
  BY <1>1, <1>2, <1>3, <1>4, <1>5, <1>6, <1>7, <1>8, <1>9 DEF Step, Progress, Fails

LEMMA StepKeepsPInv ==
  ASSUME IInv, PInv, NEW c \in Callers, Step(c)
  PROVE  PInv'
BY StepKeepsCounts, StepKeepsAnswers, StepKeepsProcs, StepKeepsDescriptions DEF PInv

-----------------------------------------------------------------------------
(* The second invariant under the calls and the crash. *)

LEMMA AnswersForgotten ==
  ASSUME Answers, NEW c \in Callers, NEW q \in Nat, NEW T \in SUBSET DTasks,
         UNCHANGED <<mapLock, nextPort>>,
         port' = port \/ port' = [port EXCEPT ![c] = q],
         arg' = arg \/ arg' = [arg EXCEPT ![c] = T],
         ret' = [ret EXCEPT ![c] = Null]
  PROVE  Answers'
<1> USE DEF Answers
<1>1. port' \in [Callers -> Nat]
  OBVIOUS
<1>2. arg' \in [Callers -> SUBSET DTasks]
  OBVIOUS
<1>3. ret' \in [Callers -> (SUBSET DTasks) \cup {Null}]
  <2> DEFINE S == (SUBSET DTasks) \cup {Null}
  <2>1. Null \in S /\ ret \in [Callers -> S]
    OBVIOUS
  <2> HIDE DEF S
  <2>2. ret' \in [Callers -> S]
    BY <2>1
  <2> QED
    BY <2>2 DEF S
<1>4. mapLock' \in Callers \cup {Null} /\ nextPort' \in Nat
  OBVIOUS
<1> QED
  BY <1>1, <1>2, <1>3, <1>4

\* A call through the lock: the object of an upsert knows no process.
LEMMA CallKeepsPInv ==
  ASSUME IInv, PInv, NEW c \in Callers, NEW o \in {"upsert", "sync", "remove"},
         NEW t \in Types, Call(c, o, t), o \in {"upsert", "sync"} => StartsLeft,
         ds' = ds \/ ds'[c].proc = 0, o = "upsert" => ds'[c].proc = 0,
         \A b \in Callers \ {c} : ds'[b] = ds[b]
  PROVE  PInv'
<1> USE DEF PInv
<1>1. /\ pc[c] = "idle" /\ pc' = [pc EXCEPT ![c] = "getlock"]
      /\ op' = [op EXCEPT ![c] = o] /\ typ' = [typ EXCEPT ![c] = t]
      /\ ret' = [ret EXCEPT ![c] = Null]
      /\ UNCHANGED <<entry, mapLock, nextPort, port, arg, procVars>>
  BY DEF Call, Goto, mapVars, portVars
<1>2. Counts'
  BY CallKeepsCounts DEF Ops
<1>3. Answers'
  BY <1>1, 0 \in Nat, {} \in SUBSET DTasks, AnswersForgotten
<1>4. Procs' /\ EntriesDescribe'
  BY <1>1 DEF Procs, EntriesDescribe, Describes, procVars
<1>5. ObjectsDescribe'
  BY <1>1 DEF ObjectsDescribe, Describes, IInv, Shape, Working, procVars
<1> QED
  BY <1>2, <1>3, <1>4, <1>5

LEMMA CallUpsertKeepsPInv ==
  ASSUME IInv, PInv, NEW c \in Callers,
         NEW t \in Types, NEW i \in Ids, NEW f \in Configs, CallUpsert(c, t, i, f)
  PROVE  PInv'
<1>1. ds'[c].proc = 0 /\ \A b \in Callers \ {c} : ds'[b] = ds[b]
  BY DEF CallUpsert, IInv, Shape
<1>2. Call(c, "upsert", t) /\ StartsLeft
  BY DEF CallUpsert
<1> QED
  BY <1>1, <1>2, CallKeepsPInv

LEMMA OtherCallsKeepPInv ==
  ASSUME IInv, PInv, NEW c \in Callers, NEW t \in Types,
         \/ CallSync(c, t) \/ CallRemove(c, t)
         \/ \E o \in {"assign", "unassign"}, T \in SUBSET DTasks : CallTasks(c, o, t, T)
  PROVE  PInv'
<1>1. CASE CallSync(c, t)
  <2>1. Call(c, "sync", t) /\ StartsLeft /\ ds' = ds
    BY <1>1 DEF CallSync
  <2> QED
    BY <2>1, CallKeepsPInv
<1>2. CASE CallRemove(c, t)
  <2>1. Call(c, "remove", t) /\ ds' = ds
    BY <1>2 DEF CallRemove
  <2> QED
    BY <2>1, CallKeepsPInv
<1>3. ASSUME NEW o \in {"assign", "unassign"}, NEW T \in SUBSET DTasks,
             CallTasks(c, o, t, T)
      PROVE  PInv'
  <2>1. /\ pc' = [pc EXCEPT ![c] = "request"] /\ op' = [op EXCEPT ![c] = o]
        /\ port' = [port EXCEPT ![c] = PortOf(entry[t])]
        /\ arg' = [arg EXCEPT ![c] = T] /\ ret' = [ret EXCEPT ![c] = Null]
        /\ \A b \in Callers \ {c} : UNCHANGED <<op[b], typ[b], ds[b], pc[b]>>
        /\ UNCHANGED <<entry, mapLock, nextPort, starts, ds, procVars>>
        /\ pc'[c] = "request" /\ entry[t] # Null /\ entry[t].proc # 0
    BY <1>3 DEF CallTasks, Goto, mapVars, portVars, IInv, Shape
  <2>2. PortOf(entry[t]) \in Nat
    BY <2>1, PortType DEF PInv, EntriesDescribe, IInv
  <2>3. Answers'
    BY <2>1, <2>2, AnswersForgotten DEF PInv
  <2>4. Starting' \subseteq Starting /\ Spawning' \subseteq Spawning
    BY <2>1 DEF Starting, Spawning, Early
  <2>5. Counts'
    BY <2>1, <2>4, CountsSame DEF PInv, IInv, procVars
  <2>6. Procs'
    BY <2>1 DEF PInv, Procs, procVars
  <2>7. EntriesDescribe' /\ ObjectsDescribe'
    BY <2>1, DescriptionsSame DEF Working, procVars
  <2> QED
    BY <2>3, <2>5, <2>6, <2>7 DEF PInv
<1> QED
  BY <1>1, <1>2, <1>3

LEMMA CallsKeepPInv ==
  ASSUME IInv, PInv, NEW c \in Callers, Calls(c)
  PROVE  PInv'
BY CallUpsertKeepsPInv, OtherCallsKeepPInv DEF Calls

LEMMA CallRemoveAllKeepsPInv ==
  ASSUME IInv, PInv, NEW c \in Callers, CallRemoveAll(c)
  PROVE  PInv'
<1>1. /\ pc'[c] = "lockall" /\ UNCHANGED <<entry, mapLock, nextPort, starts, port, arg, ret, procVars>>
      /\ \A b \in Callers \ {c} : UNCHANGED <<op[b], typ[b], ds[b], pc[b]>>
  BY DEF CallRemoveAll, Goto, mapVars, portVars, IInv, Shape
<1>2. Starting' \subseteq Starting /\ Spawning' \subseteq Spawning
  BY <1>1 DEF Starting, Spawning, Early
<1>3. Counts'
  BY <1>1, <1>2, CountsSame DEF PInv, IInv, procVars
<1>4. EntriesDescribe' /\ ObjectsDescribe'
  BY <1>1, DescriptionsSame DEF Working, procVars
<1> QED
  BY <1>1, <1>3, <1>4 DEF PInv, Answers, Procs, procVars

LEMMA CrashKeepsPInv ==
  ASSUME IInv, PInv, NEW p \in alive, Crash(p)
  PROVE  PInv'
<1>1. /\ alive' \subseteq alive /\ tasks' = [tasks EXCEPT ![p] = {}]
      /\ UNCHANGED <<entry, mapLock, nextPort, starts, pc, op, typ, ds, port, arg,
                     ret, spawned, procOf>>
  BY DEF Crash, mapVars, portVars, callVars
<1>2. Counts'
  BY <1>1 DEF PInv, Counts, Starting, Spawning
<1>3. Procs'
  BY <1>1 DEF PInv, Procs
<1>4. Answers' /\ EntriesDescribe' /\ ObjectsDescribe'
  BY <1>1 DEF PInv, Answers, EntriesDescribe, ObjectsDescribe, Describes
<1> QED
  BY <1>2, <1>3, <1>4 DEF PInv

LEMMA InitPInv ==
  ASSUME Init
  PROVE  PInv
<1>1. Starting = {} /\ Spawning = {}
  BY DEF Init, Starting, Spawning, Early
<1>2. Counts
  BY <1>1, FS_EmptySet, ManagerAssumption DEF Init, Counts
<1>3. Answers
  <2>1. ret \in [Callers -> (SUBSET DTasks) \cup {Null}]
    <3> DEFINE S == (SUBSET DTasks) \cup {Null}
    <3>1. Null \in S
      OBVIOUS
    <3> HIDE DEF S
    <3>2. ret \in [Callers -> S]
      BY <3>1 DEF Init
    <3> QED
      BY <3>2 DEF S
  <2>2. arg \in [Callers -> SUBSET DTasks] /\ port \in [Callers -> Nat]
    BY DEF Init
  <2> QED
    BY <2>1, <2>2 DEF Init, Answers, FirstPort
<1>4. Procs /\ EntriesDescribe /\ ObjectsDescribe
  BY DEF Init, Procs, EntriesDescribe, ObjectsDescribe, Working
<1> QED
  BY <1>2, <1>3, <1>4 DEF PInv

LEMMA UnchangedKeepsPInv ==
  ASSUME PInv, UNCHANGED vars
  PROVE  PInv'
BY DEF PInv, Counts, Starting, Spawning, Answers, Procs, EntriesDescribe,
       ObjectsDescribe, Describes, vars, mapVars, portVars, callVars, procVars

LEMMA PInvHolds == Spec => [](IInv /\ PInv)
<1>1. Init => PInv
  BY InitPInv
<1>2. IInv /\ PInv /\ [Next]_vars => PInv'
  BY StepKeepsPInv, CallsKeepPInv, CallRemoveAllKeepsPInv, CrashKeepsPInv,
     UnchangedKeepsPInv DEF Next
<1> QED
  BY <1>1, <1>2, Inductive, PTL DEF Spec

-----------------------------------------------------------------------------
(* What follows. *)

LEMMA TypesFromInvariants ==
  ASSUME IInv, PInv
  PROVE  TypeOK
<1>1. spawned <= MaxStarts /\ spawned <= starts
  BY PidsSuffice DEF IInv, PInv
<1>2. Cardinality(Starting) \in Nat
  BY SomeCallers DEF Starting
<1>3. starts \in 0..MaxStarts /\ spawned \in 0..starts
  BY <1>1, <1>2, ManagerAssumption DEF IInv, PInv, Shape, Counts
<1>4. procOf \in [Pids -> Processes \cup {Null}]
  BY DEF PInv, Procs
<1> QED
  BY <1>3, <1>4 DEF IInv, PInv, Shape, Answers, Procs, Processes, TypeOK

\* Every variable keeps its type; in particular the guard StartsLeft leaves a process
\* id to everybody who may still need one.
THEOREM TypeOKHolds == Spec => []TypeOK
<1>1. IInv /\ PInv => TypeOK
  BY TypesFromInvariants
<1> QED
  BY <1>1, PInvHolds, PTL

\* The map tells the truth about the process it points to.
THEOREM EntryDescribesProcessHolds == Spec => []EntryDescribesProcess
<1>1. PInv => EntryDescribesProcess
  BY DEF PInv, EntriesDescribe, Describes, EntryDescribesProcess
<1> QED
  BY <1>1, PInvHolds, PTL

\* What the manager can kill of a type is one process: the entry and the caller
\* inside the lock of the type know the same.
LEMMA KnownOncePerType ==
  ASSUME IInv, PInv, ~badDownload
  PROVE  OneProcessPerType
<1>1. ASSUME NEW p \in alive
      PROVE  \/ \E t \in Types : entry[t] # Null /\ entry[t].proc = p /\ procOf[p].type = t
             \/ \E c \in Callers : /\ pc[c] \in {"await", "store"} /\ ds[c].proc = p
                                   /\ procOf[p].type = typ[c]
  <2>1. p # 0 /\ p \in Known
    BY DEF IInv, PInv, NoOrphan, Procs, Shape
  <2>2. CASE \E t \in Types : entry[t] # Null /\ entry[t].proc = p
    BY <2>1, <2>2 DEF PInv, EntriesDescribe, Describes
  <2>3. CASE \E c \in Callers : pc[c] \in {"await", "store"} /\ ds[c].proc = p
    BY <2>1, <2>3 DEF PInv, ObjectsDescribe, Describes, Working
  <2> QED
    BY <2>1, <2>2, <2>3 DEF Known
<1>2. SUFFICES ASSUME NEW p \in alive, NEW q \in alive, procOf[p].type = procOf[q].type
               PROVE  p = q
  BY DEF OneProcessPerType
<1>3. \A c \in Callers : pc[c] \in {"await", "store"} =>
        /\ typ[c] \in Types /\ locks[typ[c]] = c
        /\ entry[typ[c]] = Null \/ entry[typ[c]].proc = ds[c].proc
  BY DEF IInv, HoldsLock, StoresNothingOver, Critical
<1> QED
  BY <1>1, <1>2, <1>3

\* Unless a download fails in an upsert, a type never has two processes.
THEOREM OneProcessPerTypeHolds == Spec => []OneProcessPerType
<1>1. IInv /\ PInv => OneProcessPerType
  BY KnownOncePerType DEF OneProcessPerType
<1> QED
  BY <1>1, PInvHolds, PTL
=============================================================================
