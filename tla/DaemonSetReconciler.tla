------------------------ MODULE DaemonSetReconciler ------------------------
(***************************************************************************)
(* The reconciler, delegateshell/daemonset/daemon_reconciler.go, composed  *)
(* with the daemon set manager it drives, with the task handlers of        *)
(* tasks/daemontask/daemon_task.go that drive the same manager from the    *)
(* poller's workers, with the Harness manager (the server) that says which *)
(* daemon sets and tasks there should be, and with the shutdown of         *)
(* delegateshell/delegate_shell.go.                                        *)
(*                                                                         *)
(* The reconciler takes a snapshot of the types, syncs each, reports them  *)
(* to the server, and brings the daemon sets and their tasks in line with  *)
(* the answer.  All of this happens while handlers upsert daemon sets and  *)
(* assign tasks, and while the server changes its mind.                    *)
(***************************************************************************)
EXTENDS DaemonSetManager

CONSTANTS Rec, Main,   \* the reconciler's and the shutdown's goroutines
          MaxChanges,  \* bound: changes of what the server wants
          MaxFaults,   \* bound: failures of what could have succeeded
          MaxTroubles  \* bound: the two together

ASSUME ReconcilerAssumption ==
  /\ {Rec, Main} \subseteq Callers /\ Rec # Main /\ IsFiniteSet(Types)
  /\ MaxChanges \in Nat /\ MaxFaults \in Nat /\ MaxTroubles \in Nat

Handlers == Callers \ {Rec, Main}

\* What the server wants of a type, and the events it sends to the handlers.
Wishes == [id : Ids, cfg : Configs, tasks : SUBSET DTasks]
Events == [kind : {"upsert", "assign"}, type : Types, wish : Wishes]

VARIABLES
  want,    \* what the server wants of each type, Null if nothing
  inbox,   \* events on their way to the handlers, which take them in any order
  rpc,     \* where the reconciler is
  snap,    \* the types it found in the map
  left,    \* those of them it still has to sync, or to remove
  resp,    \* the answer of the server
  todo,    \* the types in it that are still to be upserted
  cur,     \* the type the reconciler compares the tasks of
  taskIdsToRemove, taskIdsToAssign,
  ctxDone, \* the context of the program is cancelled
  shut,    \* how far DelegateShell.Shutdown has come
  changes, faults  \* counted for the bounds

recVars == <<rpc, snap, left, resp, todo, cur, taskIdsToRemove, taskIdsToAssign>>
srvVars == <<want, inbox, changes>>
ctlVars == <<ctxDone, shut>>
rvars == <<vars, srvVars, recVars, ctlVars, faults>>

RecPCs == {"wait", "sync", "remove", "upsert", "compare", "unassign",
           "acquire", "assign", "stopped"}

RInit ==
  /\ Init
  /\ want = [t \in Types |-> Null] /\ inbox = {} /\ changes = 0
  /\ rpc = "wait" /\ snap = {} /\ left = {}
  /\ resp = [t \in Types |-> Null] /\ todo = {} /\ cur = Null
  /\ taskIdsToRemove = {} /\ taskIdsToAssign = {}
  /\ ctxDone = FALSE /\ shut = "no"
  /\ faults = 0

-----------------------------------------------------------------------------
(* Helpers *)

InMap == {t \in Types : entry[t] # Null}

\* The reconciler continues at l when the call it has made has returned.
At(l) == rpc = l /\ pc[Rec] = "idle"

\* A task request for a type finds a daemon set with a port.
Addressable(t) == entry[t] # Null /\ entry[t].proc # 0

\* A failure of something that could have succeeded.
Fault ==
  /\ faults < MaxFaults /\ changes + faults < MaxTroubles
  /\ faults' = faults + 1
NoFault == UNCHANGED faults

\* A request of the reconciler to the server fails: because the context is
\* cancelled, or by a fault.
ServerFails == IF ctxDone THEN NoFault ELSE Fault

-----------------------------------------------------------------------------
(* Variants of actions with a bug in them, which the properties have to tell *)
(* from the actions; the specification does not use them.                    *)

\* The types to remove are looked up when the answer is there.
ServerAnswersLookAgain ==
  /\ At("sync") /\ left = {} /\ ~ctxDone
  /\ resp' = want
  /\ left' = {t \in InMap : want[t] = Null}
  /\ todo' = {t \in Types : want[t] # Null}
  /\ rpc' = "remove"
  /\ UNCHANGED <<vars, srvVars, snap, cur, taskIdsToRemove, taskIdsToAssign, ctlVars>>
  /\ NoFault

\* compareSets with its arguments swapped.
CompareTasksSwapped ==
  /\ At("compare")
  /\ IF ret[Rec] = Null
     THEN rpc' = "upsert" /\ UNCHANGED <<taskIdsToRemove, taskIdsToAssign>>
     ELSE /\ taskIdsToRemove' = resp[cur].tasks \ ret[Rec]
          /\ taskIdsToAssign' = ret[Rec] \ resp[cur].tasks
          /\ rpc' = "unassign"
  /\ UNCHANGED <<vars, srvVars, snap, left, resp, todo, cur, ctlVars>>
  /\ NoFault

\* The goroutine returns without close(d.doneChannel).
ReconcilerStopsSilently ==
  /\ At("wait") /\ ctxDone
  /\ UNCHANGED rvars

\* Shutdown removes the daemon sets without Poller.Shutdown.
PollerHasStoppedUnseen ==
  /\ shut = "poller"
  /\ CallRemoveAll(Main)
  /\ shut' = "removing"
  /\ UNCHANGED <<srvVars, recVars, ctxDone>> /\ NoFault

-----------------------------------------------------------------------------
(* The server and the task handlers *)

\* The server changes its mind about a type, and may send an event about it.
Change ==
  /\ changes < MaxChanges /\ changes + faults < MaxTroubles
  /\ changes' = changes + 1
  /\ \E t \in Types, w \in Wishes \cup {Null} :
       /\ w # want[t]
       /\ want' = [want EXCEPT ![t] = w]
       /\ \E K \in SUBSET {"upsert", "assign"} :
            inbox' = inbox \cup {[kind |-> k, type |-> t, wish |-> w] :
                                   k \in IF w = Null THEN {} ELSE K}
  /\ UNCHANGED <<vars, recVars, ctlVars, faults>>

\* HandleUpsert and HandleTaskAssign, until the poller's workers are gone.
Handling(h, e) ==
  /\ shut \in {"no", "reconciler", "poller"}
  /\ e \in inbox /\ inbox' = inbox \ {e}
  /\ UNCHANGED <<want, changes, recVars, ctlVars>> /\ NoFault

HandleUpsert(h, e) ==
  /\ e.kind = "upsert" /\ Handling(h, e)
  /\ CallUpsert(h, e.type, e.wish.id, e.wish.cfg)

HandleTaskAssign(h, e) ==
  /\ e.kind = "assign" /\ Handling(h, e)
  /\ IF Addressable(e.type) THEN CallTasks(h, "assign", e.type, e.wish.tasks)
     ELSE pc[h] = "idle" /\ UNCHANGED vars

-----------------------------------------------------------------------------
(* The reconciler *)

\* The timer fires (the select may prefer it to a cancelled context): the
\* snapshot of GetAllTypes.
Reconcile ==
  /\ At("wait")
  /\ snap' = InMap /\ left' = InMap
  /\ rpc' = "sync"
  /\ UNCHANGED <<vars, srvVars, resp, todo, cur, taskIdsToRemove, taskIdsToAssign, ctlVars>>
  /\ NoFault

SyncNext(t) ==
  /\ At("sync") /\ t \in left
  /\ CallSync(Rec, t)
  /\ left' = left \ {t}
  /\ UNCHANGED <<srvVars, rpc, snap, resp, todo, cur, taskIdsToRemove, taskIdsToAssign, ctlVars>>
  /\ NoFault

\* The server answers, and has some types skipped; what is in the snapshot and
\* not in the answer is to be removed.
ServerAnswers ==
  /\ At("sync") /\ left = {} /\ ~ctxDone
  /\ resp' = want
  /\ LET named == {t \in Types : want[t] # Null}
     IN  /\ left' = snap \ named
         /\ \E skipped \in SUBSET named :
              /\ todo' = named \ skipped
              /\ IF skipped = {} THEN NoFault ELSE Fault
  /\ rpc' = "remove"
  /\ UNCHANGED <<vars, srvVars, snap, cur, taskIdsToRemove, taskIdsToAssign, ctlVars>>

ReconcileFails ==
  /\ At("sync") /\ left = {}
  /\ rpc' = "wait"
  /\ UNCHANGED <<vars, srvVars, snap, left, resp, todo, cur, taskIdsToRemove,
                 taskIdsToAssign, ctlVars>>
  /\ ServerFails

RemoveUnwanted(t) ==
  /\ At("remove") /\ t \in left
  /\ CallRemove(Rec, t)
  /\ left' = left \ {t}
  /\ UNCHANGED <<srvVars, rpc, snap, resp, todo, cur, taskIdsToRemove, taskIdsToAssign, ctlVars>>
  /\ NoFault

AllRemovedNow ==
  /\ At("remove") /\ left = {}
  /\ rpc' = "upsert"
  /\ UNCHANGED <<vars, srvVars, snap, left, resp, todo, cur, taskIdsToRemove,
                 taskIdsToAssign, ctlVars>>
  /\ NoFault

UpsertNext(t) ==
  /\ At("upsert") /\ t \in todo
  /\ CallUpsert(Rec, t, resp[t].id, resp[t].cfg)
  /\ cur' = t /\ todo' = todo \ {t}
  /\ rpc' = "compare"
  /\ UNCHANGED <<srvVars, snap, left, resp, taskIdsToRemove, taskIdsToAssign, ctlVars>>
  /\ NoFault

\* compareTasks, with the tasks the upsert returned; after an error the type is
\* given up for this time.
CompareTasks ==
  /\ At("compare")
  /\ IF ret[Rec] = Null
     THEN rpc' = "upsert" /\ UNCHANGED <<taskIdsToRemove, taskIdsToAssign>>
     ELSE /\ taskIdsToRemove' = ret[Rec] \ resp[cur].tasks
          /\ taskIdsToAssign' = resp[cur].tasks \ ret[Rec]
          /\ rpc' = "unassign"
  /\ UNCHANGED <<vars, srvVars, snap, left, resp, todo, cur, ctlVars>>
  /\ NoFault

\* A request about tasks to the daemon set, if there is one with a port.
TaskRequest(o, T) ==
  IF T # {} /\ Addressable(cur) THEN CallTasks(Rec, o, cur, T) ELSE UNCHANGED vars

RemoveTasks ==
  /\ At("unassign")
  /\ TaskRequest("unassign", taskIdsToRemove)
  /\ taskIdsToRemove' = {}
  /\ rpc' = "acquire"
  /\ UNCHANGED <<srvVars, snap, left, resp, todo, cur, taskIdsToAssign, ctlVars>>
  /\ NoFault

\* AcquireDaemonTasks yields the parameters of the tasks; with an error, or
\* without the secrets of some, fewer tasks are assigned, possibly none.
AcquireTasks ==
  /\ At("acquire")
  /\ \E T \in SUBSET taskIdsToAssign :
       /\ ctxDone => T = {}
       /\ taskIdsToAssign' = T
       /\ IF T = taskIdsToAssign THEN NoFault ELSE ServerFails
  /\ rpc' = "assign"
  /\ UNCHANGED <<vars, srvVars, snap, left, resp, todo, cur, taskIdsToRemove, ctlVars>>

AssignTasks ==
  /\ At("assign")
  /\ TaskRequest("assign", taskIdsToAssign)
  /\ taskIdsToAssign' = {}
  /\ rpc' = "upsert"
  /\ UNCHANGED <<srvVars, snap, left, resp, todo, cur, taskIdsToRemove, ctlVars>>
  /\ NoFault

\* reconcile returns; the timer is set anew.
Reconciled ==
  /\ At("upsert") /\ todo = {}
  /\ rpc' = "wait" /\ snap' = {} /\ cur' = Null
  /\ resp' = [t \in Types |-> Null]
  /\ UNCHANGED <<vars, srvVars, left, todo, taskIdsToRemove, taskIdsToAssign, ctlVars>>
  /\ NoFault

\* d.ctx is done: the loop is left and doneChannel closed.
ReconcilerStops ==
  /\ At("wait") /\ ctxDone
  /\ rpc' = "stopped"
  /\ UNCHANGED <<vars, srvVars, snap, left, resp, todo, cur, taskIdsToRemove,
                 taskIdsToAssign, ctlVars>>
  /\ NoFault

Reconciler ==
  \/ Reconcile \/ ServerAnswers \/ ReconcileFails
  \/ \E t \in Types : SyncNext(t) \/ RemoveUnwanted(t) \/ UpsertNext(t)
  \/ AllRemovedNow \/ CompareTasks \/ RemoveTasks \/ AcquireTasks \/ AssignTasks
  \/ Reconciled \/ ReconcilerStops

-----------------------------------------------------------------------------
(* The shutdown *)

\* The signal cancels the context everything runs with, and has Shutdown begin:
\* DaemonSetReconciler.Stop ...
Signal ==
  /\ shut = "no"
  /\ ctxDone' = TRUE /\ shut' = "reconciler"
  /\ UNCHANGED <<vars, srvVars, recVars>> /\ NoFault

\* ... waits for the reconciler, Poller.Shutdown ...
ReconcilerHasStopped ==
  /\ shut = "reconciler" /\ rpc = "stopped"
  /\ shut' = "poller"
  /\ UNCHANGED <<vars, srvVars, recVars, ctxDone>> /\ NoFault

\* ... waits for the workers, and RemoveAllDaemonSets is called.
PollerHasStopped ==
  /\ shut = "poller" /\ \A h \in Handlers : pc[h] = "idle"
  /\ CallRemoveAll(Main)
  /\ shut' = "removing"
  /\ UNCHANGED <<srvVars, recVars, ctxDone>> /\ NoFault

ShutdownReturns ==
  /\ shut = "removing" /\ pc[Main] = "idle"
  /\ shut' = "done"
  /\ UNCHANGED <<vars, srvVars, recVars, ctxDone>> /\ NoFault

Shutdown == ReconcilerHasStopped \/ PollerHasStopped \/ ShutdownReturns

-----------------------------------------------------------------------------

\* With a cancelled context no HTTP request succeeds, and downloads may fail.
Interrupted(c) ==
  \/ ListFails(c) \/ HealthTimeout(c) \/ RequestFails(c) \/ DownloadFails(c)

Serve(c) ==
  /\ \/ Progress(c) /\ NoFault
        /\ ~(ctxDone /\ pc[c] \in {"list", "await", "request"})
     \/ ctxDone /\ Interrupted(c) /\ NoFault
     \/ Fails(c) /\ Fault
  /\ UNCHANGED <<srvVars, recVars, ctlVars>>

ProcessDies ==
  /\ \E p \in alive : Crash(p)
  /\ Fault
  /\ UNCHANGED <<srvVars, recVars, ctlVars>>

RNext ==
  \/ Change
  \/ \E h \in Handlers, e \in inbox : HandleUpsert(h, e) \/ HandleTaskAssign(h, e)
  \/ Reconciler
  \/ Signal \/ Shutdown
  \/ \E c \in Callers : Serve(c)
  \/ ProcessDies

RSpec == RInit /\ [][RNext]_rvars

\* Goroutines run, mutexes starve nobody, the reconciler's timer fires, and a
\* request to the server that can be answered is answered in the end.
RFairness ==
  /\ \A c \in Callers : WF_rvars(Serve(c)) /\ SF_rvars(Serve(c) /\ Lock(c))
  /\ WF_rvars(Reconciler) /\ WF_rvars(Shutdown)
  /\ SF_rvars(ReconcilerStops)

RFairSpec == RSpec /\ RFairness

-----------------------------------------------------------------------------
(* Properties *)

RTypeOK ==
  /\ TypeOK
  /\ want \in [Types -> Wishes \cup {Null}]
  /\ inbox \subseteq Events
  /\ changes \in 0..MaxChanges /\ faults \in 0..MaxFaults
  /\ rpc \in RecPCs
  /\ snap \subseteq Types /\ left \subseteq snap /\ todo \subseteq Types
  /\ resp \in [Types -> Wishes \cup {Null}]
  /\ cur \in Types \cup {Null}
  /\ taskIdsToRemove \subseteq DTasks /\ taskIdsToAssign \subseteq DTasks
  /\ ctxDone \in BOOLEAN
  /\ shut \in {"no", "reconciler", "poller", "removing", "done"}

\* What DelegateShell.Shutdown waits for: LockAll does not wait for an operation
\* that has its mutex already, so while RemoveAllDaemonSets goes through the map
\* nobody else may be in an operation.
RemoveAllAlone ==
  pc[Main] # "idle" => \A c \in Callers \ {Main} : pc[c] = "idle"

\* After Shutdown no process is left, and none can come back, unless a download
\* failed in an upsert; for the daemon sets are removed by Main alone.
ShutdownLeavesNothing ==
  /\ RemoveAllAlone
  /\ shut = "done" /\ ~badDownload => alive = {}

\* The reconciler removes only daemon sets of types that it knew when it asked the
\* server: one that a handler starts while the server answers is not taken for
\* one the server does not want.
RemovesType(t) ==
  /\ op[Rec] = "remove" /\ typ[Rec] = t /\ pc[Rec] = "lookup"
  /\ entry[t] # Null /\ entry'[t] = Null
RemovesOnlyKnown == [][\A t \in Types : RemovesType(t) => t \in snap]_rvars

\* A process is started only for a reason: three starts for a change of what the
\* server wants (its event, the reconcile that follows, and one that undoes it, for
\* events and answers arrive late), one for a failure or a crash, and one for a
\* type whose request is cut short by the cancelled context.  However often it
\* is reconciled, a daemon set that runs as it should is not started again.
NoChurn ==
  starts <= 3 * changes + faults + (IF ctxDone THEN Cardinality(Types) ELSE 0)

\* The map and the processes are as the server wants them.
Converged ==
  \A t \in Types :
    IF want[t] = Null
    THEN entry[t] = Null /\ (~badDownload => \A p \in alive : procOf[p].type # t)
    ELSE /\ entry[t] # Null /\ CanList(entry[t])
         /\ entry[t].id = want[t].id /\ entry[t].cfg = want[t].cfg
         /\ Listed(entry[t]) = want[t].tasks

\* When the server has stopped changing its mind and failures have stopped, the daemon
\* sets, their configs, ids and tasks become and stay those the server wants.
Converges == <>[](Converged \/ ctxDone)

\* A shutdown that has begun comes to its end: the reconciliation in progress is
\* cut short, and no lock is held.
ShutdownEnds == ctxDone ~> shut = "done"
=============================================================================
