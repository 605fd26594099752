--------------------- MODULE DaemonSetReconciler_proofs ---------------------
(***************************************************************************)
(* Proofs about DaemonSetReconciler, for any handlers, types and tasks,    *)
(* and any number of changes and failures.  The invariants of the manager  *)
(* hold of it whoever calls it; the reconciler, the handlers and the       *)
(* shutdown call it only in the way its own proofs assume.                 *)
(***************************************************************************)
EXTENDS DaemonSetReconciler, DaemonSetManager_proofs

\* The types of the reconciler's own variables, and what it needs of the answer of
\* the server: a wish for every type it has still to upsert or to compare.  What is left
\* of the snapshot is done before the upserts begin.
Reconciling ==
  /\ want \in [Types -> Wishes \cup {Null}]
  /\ inbox \subseteq Events
  /\ changes \in 0..MaxChanges /\ faults \in 0..MaxFaults
  /\ rpc \in RecPCs
  /\ snap \subseteq Types /\ left \subseteq snap /\ todo \subseteq Types
  /\ resp \in [Types -> Wishes \cup {Null}]
  /\ cur \in Types \cup {Null}
  /\ taskIdsToRemove \subseteq DTasks /\ taskIdsToAssign \subseteq DTasks
  /\ rpc \notin {"sync", "remove"} => left = {}
  /\ \A t \in todo : resp[t] # Null
  /\ rpc \in {"compare", "unassign", "acquire", "assign"} =>
       cur \in Types /\ resp[cur] # Null

Control ==
  /\ ctxDone \in BOOLEAN
  /\ shut \in {"no", "reconciler", "poller", "removing", "done"}

\* The shutdown takes its steps one after the other: when the reconciler has stopped
\* it is in no call, when all is removed neither is a handler, and Main has called
\* nothing but RemoveAllDaemonSets.
InTurn ==
  /\ shut \in {"removing", "done"} => \A h \in Handlers : pc[h] = "idle"
  /\ stopped => shut \in {"removing", "done"}
  /\ shut \in {"removing", "done"} => stopped
  /\ shut \in {"poller", "removing", "done"} => rpc = "stopped"
  /\ rpc = "stopped" => pc[Rec] = "idle"
  /\ pc[Main] # "idle" => shut = "removing" /\ pc[Main] \in RemovingAll

\* The reconciler removes a type of its snapshot, which stays while it does.
RemovesSnapped ==
  op[Rec] = "remove" /\ pc[Rec] # "idle" => typ[Rec] \in snap

\* The inductive invariant.
RInv == IInv /\ PInv /\ Reconciling /\ Control /\ InTurn /\ RemovesSnapped

-----------------------------------------------------------------------------
(* What the actions do with the manager. *)

\* A caller in an operation goes on in it or leaves it, and nobody else is moved.
LEMMA StepStaysInside ==
  ASSUME IInv, NEW c \in Callers, Step(c)
  PROVE  /\ \A b \in Callers \ {c} : UNCHANGED <<pc[b], op[b], typ[b]>>
         /\ pc[c] # "idle" /\ stopped' = stopped
         /\ \/ UNCHANGED <<op[c], typ[c]>> /\ pc'[c] # "idle"
            \/ op'[c] = Null /\ pc'[c] = "idle"
         /\ pc[c] \in RemovingAll => pc'[c] \in RemovingAll \cup {"idle"}
<1> USE DEF IInv, Shape, RemovingAll, Goto, callVars
<1>1. CASE GetLock(c) \/ Lock(c) \/ LookupUpsert(c) \/ LookupSync(c) \/ ListFails(c)
           \/ Downloaded(c) \/ GetPort(c) \/ BumpPort(c) \/ LockAll(c) \/ ListSucceeds(c)
  BY <1>1 DEF GetLock, Lock, LookupUpsert, LookupSync, ListFails, Downloaded, GetPort,
              BumpPort, LockAll, ListSucceeds
<1>2. CASE DownloadFails(c) \/ SpawnFails(c) \/ BecomesHealthy(c) \/ HealthTimeout(c)
  BY <1>2 DEF DownloadFails, SpawnFails, BecomesHealthy, HealthTimeout, Outcome
<1>3. CASE StopOld(c) \/ Spawn(c) \/ Store(c) \/ Remove(c)
  BY <1>3 DEF StopOld, Spawn, Store, Remove
<1>4. CASE Unlock(c)
  BY <1>4 DEF Unlock
<1>5. CASE Request(c) \/ RequestFails(c)
  <2>1. pc[c] = "request" /\ Answered(c)
    BY <1>5 DEF Request, RequestFails
  <2> QED
    BY <2>1 DEF Answered
<1>6. ASSUME NEW t \in Types, RemoveNext(c, t)
      PROVE  /\ pc[c] = "removeall" /\ UNCHANGED <<pc, op, typ, stopped>>
  BY <1>6 DEF RemoveNext
<1>7. CASE UnlockAll(c)
  BY <1>7 DEF UnlockAll
<1> QED
  BY <1>1, <1>2, <1>3, <1>4, <1>5, <1>6, <1>7 DEF Step, Progress, Fails

LEMMA ServeIsStep ==
  ASSUME NEW c \in Callers, Serve(c)
  PROVE  Step(c) /\ UNCHANGED <<srvVars, recVars, ctlVars>>
BY DEF Serve, Interrupted, Step, Progress, Fails

\* A call moves its caller into an operation, and nobody else.
LEMMA CallStaysInside ==
  ASSUME IInv, NEW c \in Callers, NEW t, NEW i, NEW f, NEW o, NEW T,
         \/ CallUpsert(c, t, i, f) \/ CallSync(c, t) \/ CallRemove(c, t)
         \/ CallTasks(c, o, t, T)
  PROVE  /\ \A b \in Callers \ {c} : UNCHANGED <<pc[b], op[b], typ[b]>>
         /\ pc[c] = "idle" /\ pc'[c] # "idle" /\ stopped' = stopped
BY DEF IInv, Shape, CallUpsert, CallSync, CallRemove, CallTasks, Call, Goto

-----------------------------------------------------------------------------
(* The invariants of the manager: nobody calls it once it is stopped, but     *)
(* the shutdown, when nobody else is in an operation.                        *)

LEMMA UnchangedKeepsBoth ==
  ASSUME IInv, PInv, UNCHANGED vars
  PROVE  IInv' /\ PInv'
<1>1. IInv'
  BY DEF IInv, Shape, HoldsLock, HasObject, SyncsEntry, StoresNothingOver, Stopping,
         NoOrphan, Known, Quiet, vars, mapVars, portVars, callVars, procVars
<1> QED
  BY <1>1, UnchangedKeepsPInv

LEMMA CallKeepsBoth ==
  ASSUME IInv, PInv, ~stopped, NEW c \in Callers, NEW t \in Types,
         \/ \E i \in Ids, f \in Configs : CallUpsert(c, t, i, f)
         \/ CallSync(c, t) \/ CallRemove(c, t)
         \/ \E o \in {"assign", "unassign"}, T \in SUBSET DTasks : CallTasks(c, o, t, T)
  PROVE  IInv' /\ PInv'
BY CallUpsertKeepsIInv, OtherCallsKeepIInv, CallUpsertKeepsPInv, OtherCallsKeepPInv

LEMMA HandlersKeepManager ==
  ASSUME RInv, NEW h \in Handlers, NEW e \in inbox,
         HandleUpsert(h, e) \/ HandleTaskAssign(h, e)
  PROVE  IInv' /\ PInv'
<1> USE DEF RInv
<1>1. h \in Callers
  BY DEF Handlers
<1>2. ~stopped
  BY DEF HandleUpsert, HandleTaskAssign, Handling, InTurn
<1>3. /\ e.type \in Types /\ e.wish.id \in Ids /\ e.wish.cfg \in Configs
      /\ e.wish.tasks \in SUBSET DTasks
  BY DEF Reconciling, Events, Wishes
<1>4. CASE HandleUpsert(h, e)
  BY <1>1, <1>2, <1>3, <1>4, CallKeepsBoth DEF HandleUpsert
<1>5. CASE HandleTaskAssign(h, e)
  BY <1>1, <1>2, <1>3, <1>5, CallKeepsBoth, UnchangedKeepsBoth DEF HandleTaskAssign
<1> QED
  BY <1>4, <1>5

LEMMA ReconcilerKeepsManager ==
  ASSUME RInv, Reconciler
  PROVE  IInv' /\ PInv'
<1> USE DEF RInv
<1>1. Rec \in Callers
  BY ReconcilerAssumption
<1>2. rpc # "stopped" => ~stopped
  BY DEF InTurn
<1>3. ASSUME NEW t \in Types, SyncNext(t) \/ RemoveUnwanted(t) \/ UpsertNext(t)
      PROVE  IInv' /\ PInv'
  <2>1. ~stopped
    BY <1>2, <1>3 DEF SyncNext, RemoveUnwanted, UpsertNext, At
  <2>2. CASE SyncNext(t) \/ RemoveUnwanted(t)
    BY <1>1, <2>1, <2>2, CallKeepsBoth DEF SyncNext, RemoveUnwanted
  <2>3. CASE UpsertNext(t)
    <3>1. resp[t].id \in Ids /\ resp[t].cfg \in Configs
      BY <2>3 DEF UpsertNext, Reconciling, Wishes
    <3> QED
      BY <1>1, <2>1, <2>3, <3>1, CallKeepsBoth DEF UpsertNext
  <2> QED
    BY <1>3, <2>2, <2>3
<1>4. CASE RemoveTasks \/ AssignTasks
  <2>1. ~stopped /\ cur \in Types
    BY <1>2, <1>4 DEF RemoveTasks, AssignTasks, At, Reconciling
  <2>2. PICK o \in {"assign", "unassign"}, T \in SUBSET DTasks : TaskRequest(o, T)
    BY <1>4 DEF RemoveTasks, AssignTasks, Reconciling
  <2> QED
    BY <1>1, <2>1, <2>2, CallKeepsBoth, UnchangedKeepsBoth DEF TaskRequest
<1>5. CASE \/ Reconcile \/ ServerAnswers \/ ReconcileFails \/ AllRemovedNow
           \/ CompareTasks \/ AcquireTasks \/ Reconciled \/ ReconcilerStops
  <2>1. UNCHANGED vars
    BY <1>5 DEF Reconcile, ServerAnswers, ReconcileFails, AllRemovedNow, CompareTasks,
                AcquireTasks, Reconciled, ReconcilerStops
  <2> QED
    BY <2>1, UnchangedKeepsBoth
<1> QED
  BY <1>3, <1>4, <1>5 DEF Reconciler

LEMMA OthersKeepManager ==
  ASSUME RInv,
         Change \/ Signal \/ Shutdown \/ (\E c \in Callers : Serve(c)) \/ ProcessDies
  PROVE  IInv' /\ PInv'
<1> USE DEF RInv
<1>1. CASE Change \/ Signal \/ ReconcilerHasStopped \/ ShutdownReturns
  BY <1>1, UnchangedKeepsBoth DEF Change, Signal, ReconcilerHasStopped, ShutdownReturns
<1>2. CASE PollerHasStopped
  <2>1. Main \in Callers /\ Rec \in Callers /\ CallRemoveAll(Main)
    BY <1>2, ReconcilerAssumption DEF PollerHasStopped
  <2>2. Quiet
    BY <1>2, <2>1 DEF Quiet, PollerHasStopped, CallRemoveAll, InTurn, Handlers
  <2> QED
    BY <2>1, <2>2, CallRemoveAllKeepsIInv, CallRemoveAllKeepsPInv
<1>3. CASE \E c \in Callers : Serve(c)
  BY <1>3, ServeIsStep, StepKeepsIInv, StepKeepsPInv
<1>4. CASE ProcessDies
  BY <1>4, CrashKeepsIInv, CrashKeepsPInv DEF ProcessDies
<1> QED
  BY <1>1, <1>2, <1>3, <1>4 DEF Shutdown

LEMMA ManagerSide ==
  ASSUME RInv, [RNext]_rvars
  PROVE  IInv' /\ PInv'
<1>1. CASE UNCHANGED rvars
  BY <1>1, UnchangedKeepsBoth DEF RInv, rvars
<1> QED
  BY <1>1, HandlersKeepManager, ReconcilerKeepsManager, OthersKeepManager DEF RNext

-----------------------------------------------------------------------------
(* The variables of the reconciler and of the server. *)

LEMMA FaultCounted ==
  ASSUME faults \in 0..MaxFaults, Fault \/ NoFault \/ ServerFails
  PROVE  faults' \in 0..MaxFaults
BY ReconcilerAssumption DEF Fault, NoFault, ServerFails

LEMMA ReconcilingSame ==
  ASSUME Reconciling, UNCHANGED <<srvVars, recVars>>, Fault \/ NoFault \/ UNCHANGED faults
  PROVE  Reconciling'
BY FaultCounted DEF Reconciling, srvVars, recVars, NoFault

LEMMA ChangeKeepsReconciling ==
  ASSUME Reconciling, Change
  PROVE  Reconciling'
<1>1. PICK t \in Types, w \in Wishes \cup {Null} :
        /\ want' = [want EXCEPT ![t] = w]
        /\ \E K \in SUBSET {"upsert", "assign"} :
             inbox' = inbox \cup {[kind |-> k, type |-> t, wish |-> w] :
                                    k \in IF w = Null THEN {} ELSE K}
  BY DEF Change
<1>2. want' \in [Types -> Wishes \cup {Null}]
  BY <1>1 DEF Reconciling
<1>3. inbox' \subseteq Events
  <2>1. PICK K \in SUBSET {"upsert", "assign"} :
          inbox' = inbox \cup {[kind |-> k, type |-> t, wish |-> w] :
                                 k \in IF w = Null THEN {} ELSE K}
    BY <1>1
  <2>2. CASE w = Null
    BY <2>1, <2>2 DEF Reconciling
  <2>3. CASE w # Null
    <3>1. w \in Wishes
      BY <2>3
    <3>2. \A k \in K : [kind |-> k, type |-> t, wish |-> w] \in Events
      BY <3>1 DEF Events
    <3> QED
      BY <2>1, <2>3, <3>2 DEF Reconciling
  <2> QED
    BY <2>2, <2>3
<1>4. changes' \in 0..MaxChanges /\ UNCHANGED <<recVars, faults>>
  BY ReconcilerAssumption DEF Change, Reconciling
<1> QED
  BY <1>2, <1>3, <1>4 DEF Reconciling, recVars

LEMMA HandlersKeepReconciling ==
  ASSUME Reconciling, NEW h \in Handlers, NEW e \in inbox,
         HandleUpsert(h, e) \/ HandleTaskAssign(h, e)
  PROVE  Reconciling'
<1>1. Handling(h, e)
  BY DEF HandleUpsert, HandleTaskAssign
<1>2. faults' = faults /\ inbox' \subseteq inbox /\ UNCHANGED <<want, changes, recVars>>
  BY <1>1 DEF Handling, NoFault
<1> QED
  BY <1>2 DEF Reconciling, recVars

LEMMA ReconcilerKeepsReconciling ==
  ASSUME RInv, Reconciler
  PROVE  Reconciling'
<1> USE DEF RInv, Reconciling, RecPCs, srvVars
<1>1. faults' \in 0..MaxFaults /\ UNCHANGED srvVars
  BY FaultCounted
  DEF Reconciler, Reconcile, ServerAnswers, ReconcileFails, AllRemovedNow, CompareTasks,
      AcquireTasks, Reconciled, ReconcilerStops, SyncNext, RemoveUnwanted, UpsertNext,
      RemoveTasks, AssignTasks
<1>2. CASE Reconcile \/ (\E t \in Types : SyncNext(t) \/ RemoveUnwanted(t))
  BY <1>1, <1>2 DEF Reconcile, SyncNext, RemoveUnwanted, At, InMap
<1>3. CASE ServerAnswers
  BY <1>1, <1>3 DEF ServerAnswers, At
<1>4. CASE ReconcileFails \/ AllRemovedNow \/ ReconcilerStops
  BY <1>1, <1>4 DEF ReconcileFails, AllRemovedNow, ReconcilerStops, At
<1>5. CASE \E t \in Types : UpsertNext(t)
  BY <1>1, <1>5 DEF UpsertNext, At
<1>6. CASE CompareTasks
  <2>1. resp[cur] \in Wishes /\ resp[cur].tasks \subseteq DTasks
    BY <1>6 DEF CompareTasks, At, Wishes
  <2>2. ret[Rec] # Null => ret[Rec] \in SUBSET DTasks
    BY ReconcilerAssumption DEF PInv, Answers
  <2>3. UNCHANGED <<want, inbox, changes, snap, left, resp, todo, cur>> /\ rpc = "compare"
    BY <1>6 DEF CompareTasks, At
  <2>4. CASE ret[Rec] = Null
    <3>1. rpc' = "upsert" /\ UNCHANGED <<taskIdsToRemove, taskIdsToAssign>>
      BY <1>6, <2>4 DEF CompareTasks
    <3> QED
      BY <1>1, <2>3, <3>1
  <2>5. CASE ret[Rec] # Null
    <3>1. /\ rpc' = "unassign" /\ taskIdsToRemove' = ret[Rec] \ resp[cur].tasks
          /\ taskIdsToAssign' = resp[cur].tasks \ ret[Rec]
      BY <1>6, <2>5 DEF CompareTasks
    <3>2. taskIdsToRemove' \subseteq DTasks /\ taskIdsToAssign' \subseteq DTasks
      BY <2>1, <2>2, <2>5, <3>1
    <3> QED
      BY <1>1, <2>3, <3>1, <3>2
  <2> QED
    BY <2>4, <2>5
<1>7. CASE RemoveTasks \/ AcquireTasks \/ AssignTasks
  BY <1>1, <1>7 DEF RemoveTasks, AcquireTasks, AssignTasks, At
<1>8. CASE Reconciled
  BY <1>1, <1>8 DEF Reconciled, At
<1> QED
  BY <1>2, <1>3, <1>4, <1>5, <1>6, <1>7, <1>8 DEF Reconciler

LEMMA ReconcilingInductive ==
  ASSUME RInv, [RNext]_rvars
  PROVE  Reconciling'
<1>1. CASE Signal \/ Shutdown \/ (\E c \in Callers : Serve(c)) \/ ProcessDies \/ UNCHANGED rvars
  BY <1>1, ReconcilingSame
  DEF RInv, Signal, Shutdown, ReconcilerHasStopped, PollerHasStopped, ShutdownReturns,
      Serve, ProcessDies, rvars
<1> QED
  BY <1>1, ChangeKeepsReconciling, HandlersKeepReconciling, ReconcilerKeepsReconciling
  DEF RInv, RNext

-----------------------------------------------------------------------------
(* The order of the shutdown, and what the reconciler removes. *)

LEMMA ReconcilerStaysInside ==
  ASSUME RInv, Reconciler
  PROVE  /\ \A b \in Callers \ {Rec} : UNCHANGED <<pc[b], op[b], typ[b]>>
         /\ UNCHANGED <<stopped, ctlVars>>
         /\ rpc # "stopped" /\ (rpc' = "stopped" => pc'[Rec] = "idle")
         /\ op'[Rec] = "remove" /\ pc'[Rec] # "idle" => typ'[Rec] \in snap'
<1> USE ReconcilerAssumption DEF RInv, At, RemovesSnapped
<1>1. CASE \/ Reconcile \/ ServerAnswers \/ ReconcileFails \/ AllRemovedNow
           \/ CompareTasks \/ AcquireTasks \/ Reconciled \/ ReconcilerStops
  BY <1>1
  DEF Reconcile, ServerAnswers, ReconcileFails, AllRemovedNow, CompareTasks,
      AcquireTasks, Reconciled, ReconcilerStops, vars, callVars
<1>2. ASSUME NEW t \in Types, SyncNext(t) \/ RemoveUnwanted(t) \/ UpsertNext(t)
      PROVE  /\ \A b \in Callers \ {Rec} : UNCHANGED <<pc[b], op[b], typ[b]>>
             /\ UNCHANGED <<stopped, ctlVars>>
             /\ rpc # "stopped" /\ (rpc' = "stopped" => pc'[Rec] = "idle")
             /\ op'[Rec] = "remove" /\ pc'[Rec] # "idle" => typ'[Rec] \in snap'
  BY <1>2
  DEF IInv, Shape, Reconciling, SyncNext, RemoveUnwanted, UpsertNext, CallSync, CallRemove,
      CallUpsert, Call, Goto
<1>3. CASE RemoveTasks \/ AssignTasks
  BY <1>3
  DEF IInv, Shape, RemoveTasks, AssignTasks, TaskRequest, CallTasks, Goto, vars, callVars
<1> QED
  BY <1>1, <1>2, <1>3 DEF Reconciler

LEMMA ServingInTurn ==
  ASSUME RInv, NEW c \in Callers, Serve(c)
  PROVE  Control' /\ InTurn' /\ RemovesSnapped'
<1> USE ReconcilerAssumption DEF RInv
<1>1. /\ Step(c) /\ UNCHANGED <<rpc, snap, ctxDone, shut>>
  BY ServeIsStep DEF recVars, ctlVars
<1>2. /\ \A b \in Callers \ {c} : UNCHANGED <<pc[b], op[b], typ[b]>>
      /\ pc[c] # "idle" /\ stopped' = stopped
      /\ \/ UNCHANGED <<op[c], typ[c]>> /\ pc'[c] # "idle"
         \/ op'[c] = Null /\ pc'[c] = "idle"
      /\ pc[c] \in RemovingAll => pc'[c] \in RemovingAll \cup {"idle"}
  BY <1>1, StepStaysInside
<1>3. Control'
  BY <1>1 DEF Control
<1>4. InTurn'
  BY <1>1, <1>2 DEF InTurn, Handlers
<1>5. RemovesSnapped'
  BY <1>1, <1>2 DEF RemovesSnapped
<1> QED
  BY <1>3, <1>4, <1>5

LEMMA HandlersInTurn ==
  ASSUME RInv, NEW h \in Handlers, NEW e \in inbox,
         HandleUpsert(h, e) \/ HandleTaskAssign(h, e)
  PROVE  Control' /\ InTurn' /\ RemovesSnapped'
<1> USE ReconcilerAssumption DEF RInv
<1>1. h \in Callers /\ h # Main /\ h # Rec
  BY DEF Handlers
<1>2. /\ shut \in {"no", "reconciler", "poller"} /\ UNCHANGED <<rpc, snap, ctxDone, shut>>
  BY DEF HandleUpsert, HandleTaskAssign, Handling, recVars, ctlVars
<1>3. /\ \A b \in Callers \ {h} : UNCHANGED <<pc[b], op[b], typ[b]>>
      /\ stopped' = stopped
  BY <1>1, CallStaysInside DEF HandleUpsert, HandleTaskAssign, vars, callVars
<1> QED
  BY <1>1, <1>2, <1>3 DEF Control, InTurn, RemovesSnapped

LEMMA ReconcilerInTurn ==
  ASSUME RInv, Reconciler
  PROVE  Control' /\ InTurn' /\ RemovesSnapped'
<1>1. /\ \A b \in Callers \ {Rec} : UNCHANGED <<pc[b], op[b], typ[b]>>
      /\ UNCHANGED <<stopped, ctxDone, shut>>
      /\ rpc # "stopped" /\ (rpc' = "stopped" => pc'[Rec] = "idle")
      /\ op'[Rec] = "remove" /\ pc'[Rec] # "idle" => typ'[Rec] \in snap'
  BY ReconcilerStaysInside DEF ctlVars
<1> QED
  BY <1>1, ReconcilerAssumption DEF RInv, Control, InTurn, RemovesSnapped, Handlers

LEMMA ShutdownInTurn ==
  ASSUME RInv, Signal \/ Shutdown
  PROVE  Control' /\ InTurn' /\ RemovesSnapped'
<1> USE ReconcilerAssumption DEF RInv
<1>1. CASE Signal
  <2>1. ctxDone' \in BOOLEAN
    BY <1>1, Zenon DEF Signal
  <2> QED
    BY <1>1, <2>1 DEF Signal, Control, InTurn, RemovesSnapped, vars, callVars, recVars
<1>2. CASE ReconcilerHasStopped
  BY <1>2 DEF ReconcilerHasStopped, Control, InTurn, RemovesSnapped, vars, callVars, recVars
<1>3. CASE PollerHasStopped
  <2>1. /\ shut = "poller" /\ shut' = "removing" /\ UNCHANGED <<rpc, snap, ctxDone, typ>>
        /\ \A h \in Handlers : pc[h] = "idle"
        /\ pc' = [pc EXCEPT ![Main] = "lockall"] /\ op' = [op EXCEPT ![Main] = "removeall"]
        /\ stopped'
    BY <1>3 DEF PollerHasStopped, CallRemoveAll, Goto, recVars
  <2> QED
    BY <2>1 DEF IInv, Shape, Control, InTurn, RemovesSnapped, RemovingAll, Handlers
<1>4. CASE ShutdownReturns
  BY <1>4 DEF ShutdownReturns, Control, InTurn, RemovesSnapped, vars, callVars, recVars
<1> QED
  BY <1>1, <1>2, <1>3, <1>4 DEF Shutdown

LEMMA TurnsInductive ==
  ASSUME RInv, [RNext]_rvars
  PROVE  Control' /\ InTurn' /\ RemovesSnapped'
<1>1. CASE Change \/ ProcessDies \/ UNCHANGED rvars
  BY <1>1
  DEF RInv, Change, ProcessDies, Crash, Control, InTurn, RemovesSnapped, rvars, vars,
      callVars, recVars, ctlVars
<1> QED
  BY <1>1, HandlersInTurn, ReconcilerInTurn, ShutdownInTurn, ServingInTurn DEF RNext

LEMMA InitRInv == RInit => RInv
<1> SUFFICES ASSUME RInit PROVE RInv
  OBVIOUS
<1>1. IInv /\ PInv
  BY InitIInv, InitPInv DEF RInit
<1>2. Reconciling
  BY ReconcilerAssumption DEF RInit, Reconciling, RecPCs
<1>3. Control
  <2>1. ctxDone \in BOOLEAN
    BY Zenon DEF RInit
  <2> QED
    BY <2>1 DEF RInit, Control
<1>4. InTurn /\ RemovesSnapped
  BY ReconcilerAssumption DEF RInit, Init, InTurn, RemovesSnapped, Handlers
<1> QED
  BY <1>1, <1>2, <1>3, <1>4 DEF RInv

\* The invariant of the reconciler, the handlers and the shutdown together, on that of
\* the manager they call.
THEOREM RInvHolds == RSpec => []RInv
<1>1. RInv /\ [RNext]_rvars => RInv'
  BY ManagerSide, ReconcilingInductive, TurnsInductive DEF RInv
<1> QED
  BY <1>1, InitRInv, PTL DEF RSpec

-----------------------------------------------------------------------------
(* What follows. *)

\* Every variable of the composition keeps its type: what is left to do is of the
\* snapshot, and what is compared is a type the server has answered for.
THEOREM RTypeOKHolds == RSpec => []RTypeOK
<1>1. RInv => TypeOK
  BY TypesFromInvariants DEF RInv
<1>2. RInv => RTypeOK
  BY <1>1 DEF RInv, Reconciling, Control, RTypeOK
<1> QED
  BY <1>2, RInvHolds, PTL

\* The manager keeps in this composition what it keeps for callers of any kind.
THEOREM ManagerPromisesHold ==
  RSpec => [](OneOperationPerType /\ NoOrphan /\ OneProcessPerType
              /\ EntryDescribesProcess /\ NothingLeft)
<1>1. RInv => OneOperationPerType /\ NoOrphan
  BY DEF RInv, IInv, HoldsLock, OneOperationPerType
<1>2. RInv => OneProcessPerType
  BY KnownOncePerType DEF RInv, OneProcessPerType
<1>3. RInv => EntryDescribesProcess
  BY DEF RInv, PInv, EntriesDescribe, Describes, EntryDescribesProcess
<1>4. RInv => NothingLeft
  BY DEF RInv, IInv, Stopping, NoOrphan, Known, NothingLeft, Quiet, RemovingAll
<1> QED
  BY <1>1, <1>2, <1>3, <1>4, RInvHolds, PTL

\* While RemoveAllDaemonSets goes through the map nobody else is in an operation, and
\* when Shutdown has returned no process runs that the manager has started, unless
\* a download failed in an upsert.
THEOREM ShutdownLeavesNothingHolds == RSpec => []ShutdownLeavesNothing
<1>1. RInv => RemoveAllAlone
  BY ReconcilerAssumption DEF RInv, InTurn, RemoveAllAlone, Handlers
<1>2. RInv => (shut = "done" => stopped /\ Quiet)
  BY ReconcilerAssumption DEF RInv, InTurn, Quiet, Handlers
<1>3. RInv => NothingLeft
  BY DEF RInv, IInv, Stopping, NoOrphan, Known, NothingLeft, Quiet, RemovingAll
<1>4. RInv => ShutdownLeavesNothing
  BY <1>1, <1>2, <1>3 DEF ShutdownLeavesNothing, NothingLeft
<1> QED
  BY <1>4, RInvHolds, PTL

\* The reconciler removes only daemon sets of types that it knew when it asked the
\* server.
THEOREM RemovesOnlyKnownHolds == RSpec => RemovesOnlyKnown
<1>1. RInv => [\A t \in Types : RemovesType(t) => t \in snap]_rvars
  BY DEF RInv, RemovesSnapped, RemovesType
<1> QED
  BY <1>1, RInvHolds, PTL DEF RemovesOnlyKnown

-----------------------------------------------------------------------------
(* The starts and their reasons.  A third invariant counts what may still be *)
(* started without another reason: two starts for an upsert on its way (the  *)
(* second one is the reconciler's, which undoes it), and for each type what  *)
(* follows from its daemon set, from the answer the reconciler works on, and *)
(* from what the server wants by now.                                        *)

Deciding == {"getlock", "lock", "lookup", "list"}
Replacing == {"download", "stopold", "getport", "bump", "spawn", "await", "store"}

\* While a caller replaces the daemon set of a type, its object stands for the one in
\* the map; the stage is how far it has come.
Replaced(t) == locks[t] # Null /\ typ[locks[t]] = t /\ pc[locks[t]] \in Replacing
Object(t) == IF Replaced(t) THEN ds[locks[t]] ELSE entry[t]
Stage(t) == IF Replaced(t) THEN pc[locks[t]] ELSE "store"

\* Where there is x, an upsert with the config of y starts a process (Null is nothing).
Differs(x, y) ==
  y # Null /\ y.cfg \notin NoExecutable /\ (x = Null \/ x.cfg # y.cfg)

\* In this round the reconciler is still to upsert the type, or to remove it.
Asked(t) ==
  \/ t \in todo
  \/ op[Rec] = "upsert" /\ typ[Rec] = t /\ pc[Rec] \in Deciding
Unwanted(t) ==
  \/ rpc = "remove" /\ t \in left
  \/ op[Rec] = "remove" /\ typ[Rec] = t /\ pc[Rec] \in Deciding
Planned(t) == IF Asked(t) THEN resp[t] ELSE IF Unwanted(t) THEN Null ELSE Object(t)

\* A start that is decided on; a process that has died or was not started; an answer, and
\* a wish behind it, that is not what there is; a request the cancelled context cuts
\* short.
Decided(t) ==
  Stage(t) \in {"download", "stopold", "getport"} /\ Object(t).cfg \notin NoExecutable
Lost(t) ==
  /\ Stage(t) \in {"await", "store"} /\ Object(t) # Null
  /\ Object(t).cfg \notin NoExecutable /\ Object(t).proc \notin alive
FromAnswer(t) == Differs(Object(t), Planned(t))
FromWish(t) == ~ctxDone /\ Differs(Planned(t), want[t])
CutShort(t) ==
  /\ ctxDone
  /\ \/ Asked(t)
     \/ Stage(t) = "store" /\ Object(t) # Null /\ Object(t).healthy

TypesOwe ==
  Cardinality({t \in Types : Decided(t)}) + Cardinality({t \in Types : Lost(t)})
  + Cardinality({t \in Types : FromAnswer(t)}) + Cardinality({t \in Types : FromWish(t)})
  + Cardinality({t \in Types : CutShort(t)})

\* The events and the handlers that have not decided yet.
Upserts == {e \in inbox : e.kind = "upsert"}
Upserting == {h \in Handlers : op[h] = "upsert" /\ pc[h] \in Deciding}

Reasons == 3 * changes + faults + (IF ctxDone THEN Cardinality(Types) ELSE 0)

\* What has been started and what still may be has its reasons.
Amortised ==
  starts + 2 * Cardinality(Upserts) + 2 * Cardinality(Upserting) + TypesOwe <= Reasons

\* What the count rests on: only the reconciler syncs and removes, each in its part of a
\* round; an upsert that finds what it wants does not decide; and no type is asked for
\* and unwanted, or asked for twice.
Rounds ==
  /\ IsFiniteSet(inbox)
  /\ shut # "no" => ctxDone
  /\ rpc \in {"wait", "sync", "stopped"} => todo = {}
  /\ rpc = "remove" => left \cap todo = {}
  /\ op[Rec] = "upsert" /\ pc[Rec] \in Deciding =>
       /\ rpc = "compare" /\ resp[typ[Rec]] # Null /\ ds[Rec].cfg = resp[typ[Rec]].cfg
       /\ typ[Rec] \notin todo
  /\ op[Rec] = "remove" /\ pc[Rec] # "idle" => typ[Rec] \notin left \cup todo

Decisions ==
  \A c \in Callers :
    /\ op[c] = "sync" /\ pc[c] # "idle" => c = Rec /\ rpc = "sync"
    /\ op[c] = "remove" /\ pc[c] # "idle" => c = Rec /\ rpc = "remove"
    /\ pc[c] = "list" => /\ ds[c].cfg = entry[typ[c]].cfg
                         /\ op[c] = "sync" => entry[typ[c]].healthy
    /\ pc[c] \in {"stopold", "getport"} => ds[c].cfg \notin NoExecutable

-----------------------------------------------------------------------------
(* The counts change by what changes at one type.                            *)

One(P) == IF P THEN 1 ELSE 0

Owes(t) ==
  One(Decided(t)) + One(Lost(t)) + One(FromAnswer(t)) + One(FromWish(t)) + One(CutShort(t))

NoMore(t) ==
  /\ Decided(t)' => Decided(t)
  /\ Lost(t)' => Lost(t)
  /\ FromAnswer(t)' => FromAnswer(t)
  /\ FromWish(t)' => FromWish(t)
  /\ CutShort(t)' => CutShort(t)

LEMMA SomeTypes ==
  ASSUME NEW S \in SUBSET Types
  PROVE  IsFiniteSet(S) /\ Cardinality(S) \in Nat /\ Cardinality(S) <= Cardinality(Types)
         /\ Cardinality(Types) \in Nat
  BY ReconcilerAssumption, FS_Subset, FS_CardinalityType

LEMMA ChangeAtOne ==
  ASSUME NEW S \in SUBSET Types, NEW R \in SUBSET Types, NEW t \in Types,
         R \ {t} \subseteq S
  PROVE  Cardinality(R) + One(t \in S) <= Cardinality(S) + One(t \in R)
<1>1. /\ IsFiniteSet(R \ {t}) /\ IsFiniteSet(S \ {t}) /\ IsFiniteSet(S) /\ IsFiniteSet(R)
      /\ Cardinality(R) \in Nat /\ Cardinality(S) \in Nat
      /\ Cardinality(R \ {t}) \in Nat /\ Cardinality(S \ {t}) \in Nat
  <2>1. R \ {t} \in SUBSET Types /\ S \ {t} \in SUBSET Types
    OBVIOUS
  <2> QED
    BY <2>1, SomeTypes
<1>2. Cardinality(R \ {t}) <= Cardinality(S \ {t})
  <2>1. R \ {t} \subseteq S \ {t}
    OBVIOUS
  <2> QED
    BY <1>1, <2>1, FS_Subset
<1>3. /\ Cardinality(R \ {t}) = IF t \in R THEN Cardinality(R) - 1 ELSE Cardinality(R)
      /\ Cardinality(S \ {t}) = IF t \in S THEN Cardinality(S) - 1 ELSE Cardinality(S)
  BY <1>1, FS_RemoveElement
<1>4. /\ Cardinality(R) = Cardinality(R \ {t}) + One(t \in R)
      /\ Cardinality(S) = Cardinality(S \ {t}) + One(t \in S)
  BY <1>1, <1>3 DEF One
<1>5. One(t \in R) \in Nat /\ One(t \in S) \in Nat
  BY DEF One
<1> QED
  BY <1>1, <1>2, <1>4, <1>5

\* What is owed for all types changes with what is owed for one.
LEMMA OweAtOne ==
  ASSUME NEW t \in Types, \A u \in Types \ {t} : NoMore(u)
  PROVE  /\ TypesOwe' + Owes(t) <= TypesOwe + Owes(t)'
         /\ TypesOwe \in Nat /\ TypesOwe' \in Nat /\ Owes(t) \in Nat /\ Owes(t)' \in Nat
<1> DEFINE S1 == {u \in Types : Decided(u)}     R1 == {u \in Types : Decided(u)'}
           S2 == {u \in Types : Lost(u)}        R2 == {u \in Types : Lost(u)'}
           S3 == {u \in Types : FromAnswer(u)}  R3 == {u \in Types : FromAnswer(u)'}
           S4 == {u \in Types : FromWish(u)}    R4 == {u \in Types : FromWish(u)'}
           S5 == {u \in Types : CutShort(u)}    R5 == {u \in Types : CutShort(u)'}
<1>1. /\ TypesOwe = Cardinality(S1) + Cardinality(S2) + Cardinality(S3) + Cardinality(S4)
                    + Cardinality(S5)
      /\ TypesOwe' = Cardinality(R1) + Cardinality(R2) + Cardinality(R3) + Cardinality(R4)
                     + Cardinality(R5)
  BY DEF TypesOwe
<1>2. /\ Owes(t) = One(t \in S1) + One(t \in S2) + One(t \in S3) + One(t \in S4) + One(t \in S5)
      /\ Owes(t)' = One(t \in R1) + One(t \in R2) + One(t \in R3) + One(t \in R4) + One(t \in R5)
  BY DEF Owes, One
<1>3. /\ S1 \in SUBSET Types /\ R1 \in SUBSET Types /\ R1 \ {t} \subseteq S1
      /\ S2 \in SUBSET Types /\ R2 \in SUBSET Types /\ R2 \ {t} \subseteq S2
      /\ S3 \in SUBSET Types /\ R3 \in SUBSET Types /\ R3 \ {t} \subseteq S3
      /\ S4 \in SUBSET Types /\ R4 \in SUBSET Types /\ R4 \ {t} \subseteq S4
      /\ S5 \in SUBSET Types /\ R5 \in SUBSET Types /\ R5 \ {t} \subseteq S5
  BY DEF NoMore
<1> HIDE DEF S1, S2, S3, S4, S5, R1, R2, R3, R4, R5
<1>4. /\ Cardinality(R1) + One(t \in S1) <= Cardinality(S1) + One(t \in R1)
      /\ Cardinality(R2) + One(t \in S2) <= Cardinality(S2) + One(t \in R2)
      /\ Cardinality(R3) + One(t \in S3) <= Cardinality(S3) + One(t \in R3)
      /\ Cardinality(R4) + One(t \in S4) <= Cardinality(S4) + One(t \in R4)
      /\ Cardinality(R5) + One(t \in S5) <= Cardinality(S5) + One(t \in R5)
  BY <1>3, ChangeAtOne
<1>5. /\ Cardinality(S1) \in Nat /\ Cardinality(S2) \in Nat /\ Cardinality(S3) \in Nat
      /\ Cardinality(S4) \in Nat /\ Cardinality(S5) \in Nat
      /\ Cardinality(R1) \in Nat /\ Cardinality(R2) \in Nat /\ Cardinality(R3) \in Nat
      /\ Cardinality(R4) \in Nat /\ Cardinality(R5) \in Nat
  BY <1>3, SomeTypes
<1>6. /\ One(t \in S1) \in Nat /\ One(t \in S2) \in Nat /\ One(t \in S3) \in Nat
      /\ One(t \in S4) \in Nat /\ One(t \in S5) \in Nat
      /\ One(t \in R1) \in Nat /\ One(t \in R2) \in Nat /\ One(t \in R3) \in Nat
      /\ One(t \in R4) \in Nat /\ One(t \in R5) \in Nat
  BY DEF One
<1> QED
  BY <1>1, <1>2, <1>4, <1>5, <1>6

\* Where no type owes more, all together do not.
LEMMA OweNoMore ==
  ASSUME \A t \in Types : NoMore(t)
  PROVE  TypesOwe' <= TypesOwe /\ TypesOwe \in Nat /\ TypesOwe' \in Nat
<1> DEFINE S1 == {u \in Types : Decided(u)}     R1 == {u \in Types : Decided(u)'}
           S2 == {u \in Types : Lost(u)}        R2 == {u \in Types : Lost(u)'}
           S3 == {u \in Types : FromAnswer(u)}  R3 == {u \in Types : FromAnswer(u)'}
           S4 == {u \in Types : FromWish(u)}    R4 == {u \in Types : FromWish(u)'}
           S5 == {u \in Types : CutShort(u)}    R5 == {u \in Types : CutShort(u)'}
<1>1. /\ TypesOwe = Cardinality(S1) + Cardinality(S2) + Cardinality(S3) + Cardinality(S4)
                    + Cardinality(S5)
      /\ TypesOwe' = Cardinality(R1) + Cardinality(R2) + Cardinality(R3) + Cardinality(R4)
                     + Cardinality(R5)
  BY DEF TypesOwe
<1>2. /\ S1 \in SUBSET Types /\ R1 \in SUBSET S1 /\ S2 \in SUBSET Types /\ R2 \in SUBSET S2
      /\ S3 \in SUBSET Types /\ R3 \in SUBSET S3 /\ S4 \in SUBSET Types /\ R4 \in SUBSET S4
      /\ S5 \in SUBSET Types /\ R5 \in SUBSET S5
  BY DEF NoMore
<1>3. \A S \in SUBSET Types, R \in SUBSET Types : R \subseteq S =>
        Cardinality(S) \in Nat /\ Cardinality(R) \in Nat /\ Cardinality(R) <= Cardinality(S)
  BY SomeTypes, FS_Subset
<1> HIDE DEF S1, S2, S3, S4, S5, R1, R2, R3, R4, R5
<1>4. /\ Cardinality(S1) \in Nat /\ Cardinality(R1) \in Nat /\ Cardinality(R1) <= Cardinality(S1)
      /\ Cardinality(S2) \in Nat /\ Cardinality(R2) \in Nat /\ Cardinality(R2) <= Cardinality(S2)
      /\ Cardinality(S3) \in Nat /\ Cardinality(R3) \in Nat /\ Cardinality(R3) <= Cardinality(S3)
      /\ Cardinality(S4) \in Nat /\ Cardinality(R4) \in Nat /\ Cardinality(R4) <= Cardinality(S4)
      /\ Cardinality(S5) \in Nat /\ Cardinality(R5) \in Nat /\ Cardinality(R5) <= Cardinality(S5)
  BY <1>2, <1>3
<1> QED
  BY <1>1, <1>4

\* A type whose situation is the same owes no more.
Same(t) ==
  /\ Object(t)' = Object(t) /\ Stage(t)' = Stage(t)
  /\ Asked(t)' <=> Asked(t)
  /\ Unwanted(t)' <=> Unwanted(t)
  /\ Asked(t) => resp'[t] = resp[t]
  /\ want'[t] = want[t] /\ ctxDone' = ctxDone
  /\ Object(t) # Null /\ Object(t).proc \in alive => Object(t).proc \in alive'

LEMMA SameOwesNoMore ==
  ASSUME NEW t \in Types, Same(t)
  PROVE  NoMore(t)
<1>1. Planned(t)' = Planned(t)
  BY DEF Same, Planned
<1> QED
  BY <1>1 DEF Same, NoMore, Decided, Lost, FromAnswer, FromWish, CutShort, Differs

LEMMA Numbers ==
  ASSUME RInv, Rounds
  PROVE  /\ starts \in Nat /\ changes \in Nat /\ faults \in Nat
         /\ Cardinality(Types) \in Nat
         /\ IsFiniteSet(Upserts) /\ Cardinality(Upserts) \in Nat
         /\ IsFiniteSet(Upserting) /\ Cardinality(Upserting) \in Nat
<1>1. Upserting \in SUBSET Callers
  BY DEF Upserting, Handlers
<1>2. IsFiniteSet(Upserts)
  BY FS_Subset DEF Upserts, Rounds
<1> QED
  BY <1>1, <1>2, SomeCallers, ReconcilerAssumption, FS_CardinalityType
  DEF RInv, PInv, Counts, Reconciling

\* What is counted, as one number.
Debt == starts + 2 * Cardinality(Upserts) + 2 * Cardinality(Upserting) + TypesOwe

LEMMA DebtIsNumber ==
  ASSUME RInv, Rounds, TypesOwe \in Nat
  PROVE  Debt \in Nat /\ Reasons \in Nat
<1>1. /\ starts \in Nat /\ changes \in Nat /\ faults \in Nat
      /\ Cardinality(Types) \in Nat
      /\ Cardinality(Upserts) \in Nat /\ Cardinality(Upserting) \in Nat
  BY Numbers
<1>2. Reasons \in Nat
  BY <1>1 DEF Reasons
<1>3. Debt \in Nat
  BY <1>1 DEF Debt
<1> QED
  BY <1>2, <1>3

\* The count of a step that brings neither events nor changes.
LEMMA StepOfCount ==
  ASSUME RInv, Rounds, RInv', Rounds', Amortised, NEW k \in Int,
         UNCHANGED <<changes, ctxDone>>,
         Upserts' \subseteq Upserts, Upserting' \subseteq Upserting,
         TypesOwe \in Nat, TypesOwe' \in Nat,
         faults' = faults + k, starts' + TypesOwe' <= starts + TypesOwe + k
  PROVE  Amortised'
<1>1. /\ starts \in Nat /\ faults \in Nat /\ changes \in Nat /\ Cardinality(Types) \in Nat
      /\ Cardinality(Upserts) \in Nat /\ Cardinality(Upserting) \in Nat
      /\ starts' \in Nat
  BY Numbers DEF RInv, PInv, Counts
<1>2. /\ Cardinality(Upserts') \in Nat /\ Cardinality(Upserts') <= Cardinality(Upserts)
      /\ Cardinality(Upserting') \in Nat /\ Cardinality(Upserting') <= Cardinality(Upserting)
  BY Numbers, FS_Subset, FS_CardinalityType
<1>3. Reasons \in Nat /\ Reasons' = Reasons + k
  BY <1>1 DEF Reasons
<1>4. starts + 2 * Cardinality(Upserts) + 2 * Cardinality(Upserting) + TypesOwe <= Reasons
  BY DEF Amortised
<1> DEFINE s == starts     s1 == starts'     w == TypesOwe    w1 == TypesOwe'
           u == Cardinality(Upserts)    u1 == Cardinality(Upserts')
           h == Cardinality(Upserting)  h1 == Cardinality(Upserting')
           r == Reasons
<1>5. s1 + 2 * u1 + 2 * h1 + w1 <= r + k
  <2>1. /\ s \in Nat /\ s1 \in Nat /\ w \in Nat /\ w1 \in Nat /\ u \in Nat /\ u1 \in Nat
        /\ h \in Nat /\ h1 \in Nat /\ r \in Nat
    BY <1>1, <1>2, <1>3
  <2>2. /\ u1 <= u /\ h1 <= h /\ s1 + w1 <= s + w + k
        /\ s + 2 * u + 2 * h + w <= r
    BY <1>2, <1>4
  <2> HIDE DEF s, s1, w, w1, u, u1, h, h1, r
  <2> QED
    BY <2>1, <2>2
<1> QED
  BY <1>3, <1>5 DEF Amortised

\* ... and in particular of one in which no more is owed.
LEMMA StillCounted ==
  ASSUME RInv, Rounds, RInv', Rounds', Amortised,
         TypesOwe \in Nat, TypesOwe' \in Nat, TypesOwe' <= TypesOwe,
         UNCHANGED <<starts, changes, ctxDone>>,
         Upserts' \subseteq Upserts, Upserting' \subseteq Upserting,
         faults' = faults \/ faults' = faults + 1
  PROVE  Amortised'
<1>1. starts \in Nat /\ faults \in Nat /\ starts' = starts
  BY Numbers
<1>2. PICK k \in {0, 1} : faults' = faults + k
  BY <1>1
<1>3. starts' + TypesOwe' <= starts + TypesOwe + k
  <2> DEFINE s == starts     w == TypesOwe    w1 == TypesOwe'
  <2>1. s \in Nat /\ w \in Nat /\ w1 \in Nat
    BY <1>1
  <2>2. w1 <= w
    OBVIOUS
  <2> HIDE DEF s, w, w1
  <2>3. s + w1 <= s + w + k
    BY <2>1, <2>2
  <2> QED
    BY <1>1, <2>3 DEF s, w, w1
<1>4. k \in Int
  OBVIOUS
<1> QED
  BY <1>2, <1>3, <1>4, StepOfCount

\* ... or one type owes one more, and that has a reason, or it owes less and a process
\* is started.
LEMMA CountedAtOne ==
  ASSUME RInv, Rounds, RInv', Rounds', Amortised, NEW t \in Types,
         \A u \in Types \ {t} : NoMore(u), UNCHANGED <<changes, ctxDone>>,
         Upserts' \subseteq Upserts, Upserting' \subseteq Upserting,
         NEW k \in {0, 1}, faults' = faults + k, NEW j \in {0, 1}, starts' = starts + j,
         Owes(t)' + j <= Owes(t) + k
  PROVE  Amortised'
<1>1. /\ TypesOwe \in Nat /\ TypesOwe' \in Nat /\ Owes(t) \in Nat /\ Owes(t)' \in Nat
      /\ TypesOwe' + Owes(t) <= TypesOwe + Owes(t)'
  BY OweAtOne
<1>2. starts \in Nat
  BY Numbers
<1>3. starts' + TypesOwe' <= starts + TypesOwe + k
  <2> DEFINE s == starts   w == TypesOwe   w1 == TypesOwe'   o == Owes(t)   o1 == Owes(t)'
  <2>1. s \in Nat /\ w \in Nat /\ w1 \in Nat /\ o \in Nat /\ o1 \in Nat
    BY <1>1, <1>2
  <2>2. w1 + o <= w + o1 /\ o1 + j <= o + k
    BY <1>1
  <2> HIDE DEF s, w, w1, o, o1
  <2>3. (s + j) + w1 <= s + w + k
    BY <2>1, <2>2
  <2> QED
    BY <2>3 DEF s, w, w1
<1>4. k \in Int
  OBVIOUS
<1> QED
  BY <1>1, <1>3, <1>4, StepOfCount

-----------------------------------------------------------------------------
(* What a step leaves alone. *)

LEMMA ObjectDescribed ==
  ASSUME RInv, NEW t \in Types, Object(t) # Null
  PROVE  Describes(Object(t), t) /\ Object(t) \in DaemonSets
<1>1. CASE Replaced(t)
  <2>1. locks[t] \in Callers /\ typ[locks[t]] = t /\ pc[locks[t]] \in Working
    BY <1>1 DEF Replaced, Replacing, Working, RInv, IInv, Shape
  <2>2. ds[locks[t]] # Null /\ ds[locks[t]] \in DaemonSets \cup {Null}
    BY <2>1 DEF RInv, IInv, Shape, HasObject
  <2> QED
    BY <1>1, <2>1, <2>2 DEF Object, RInv, PInv, ObjectsDescribe
<1>2. CASE ~Replaced(t)
  BY <1>2 DEF Object, RInv, PInv, EntriesDescribe, IInv, Shape
<1> QED
  BY <1>1, <1>2

\* The daemon set of the type a caller has locked.
LEMMA Holder ==
  ASSUME RInv, NEW c \in Callers, pc[c] \in Critical, NEW t, t = typ[c]
  PROVE  /\ t \in Types
         /\ Object(t) = IF pc[c] \in Replacing THEN ds[c] ELSE entry[t]
         /\ Stage(t) = IF pc[c] \in Replacing THEN pc[c] ELSE "store"
<1>1. t \in Types /\ locks[t] = c
  BY DEF RInv, IInv, HoldsLock
<1> QED
  BY <1>1, ManagerAssumption DEF Object, Stage, Replaced

LEMMA HolderNext ==
  ASSUME RInv', NEW c \in Callers, pc'[c] \in Critical, NEW t, t = typ'[c]
  PROVE  /\ t \in Types
         /\ Object(t)' = IF pc'[c] \in Replacing THEN ds'[c] ELSE entry'[t]
         /\ Stage(t)' = IF pc'[c] \in Replacing THEN pc'[c] ELSE "store"
<1>1. t \in Types /\ locks'[t] = c
  BY DEF RInv, IInv, HoldsLock
<1> QED
  BY <1>1, ManagerAssumption DEF Object, Stage, Replaced

\* A caller that does not replace the daemon set of a type leaves its object alone.
LEMMA ObjectSame ==
  ASSUME NEW c \in Callers, NEW t \in Types,
         \A b \in Callers \ {c} : UNCHANGED <<pc[b], typ[b], ds[b]>>,
         locks[t] \in Callers \cup {Null}, entry'[t] = entry[t],
         locks'[t] = locks[t] \/ (locks[t] \in {c, Null} /\ locks'[t] \in {c, Null}),
         \/ pc[c] \notin Replacing /\ pc'[c] \notin Replacing
         \/ typ[c] # t /\ typ'[c] # t
  PROVE  Object(t)' = Object(t) /\ Stage(t)' = Stage(t)
<1> USE ManagerAssumption
<1>1. CASE locks[t] \in {c, Null} /\ locks'[t] \in {c, Null}
  <2>1. ~Replaced(t) /\ ~Replaced(t)'
    BY <1>1 DEF Replaced
  <2> QED
    BY <2>1 DEF Object, Stage
<1>2. CASE locks'[t] = locks[t] /\ locks[t] \in Callers \ {c}
  <2>1. Replaced(t)' <=> Replaced(t)
    BY <1>2 DEF Replaced
  <2> QED
    BY <1>2, <2>1 DEF Object, Stage
<1> QED
  BY <1>1, <1>2

LEMMA StepTouches ==
  ASSUME RInv, NEW c \in Callers, Step(c), pc[c] # "removeall"
  PROVE  /\ \A b \in Callers \ {c} : UNCHANGED <<pc[b], op[b], typ[b], ds[b]>>
         /\ typ'[c] \in {typ[c], Null}
         /\ \A u \in Types \ {typ[c]} : UNCHANGED <<entry[u], locks[u]>>
         /\ \/ alive \subseteq alive'
            \/ /\ typ[c] \in Types /\ entry[typ[c]] # Null
               /\ alive' = alive \ {entry[typ[c]].proc}
<1> USE DEF RInv, IInv, Shape, HoldsLock, Critical, Goto, mapVars, callVars, procVars
<1>1. CASE GetLock(c) \/ Lock(c) \/ LookupUpsert(c) \/ ListFails(c)
           \/ Downloaded(c) \/ GetPort(c) \/ BumpPort(c) \/ LockAll(c)
  BY <1>1 DEF GetLock, Lock, LookupUpsert, ListFails, Downloaded, GetPort, BumpPort, LockAll
<1>2. CASE LookupSync(c)
  BY <1>2 DEF LookupSync
<1>3. CASE ListSucceeds(c)
  BY <1>3 DEF ListSucceeds
<1>4. CASE DownloadFails(c) \/ SpawnFails(c) \/ BecomesHealthy(c) \/ HealthTimeout(c)
  BY <1>4 DEF DownloadFails, SpawnFails, BecomesHealthy, HealthTimeout, Outcome
<1>5. CASE StopOld(c) \/ Remove(c)
  BY <1>5 DEF StopOld, Remove, Kill
<1>6. CASE Spawn(c)
  BY <1>6 DEF Spawn
<1>7. CASE Store(c)
  BY <1>7 DEF Store
<1>8. CASE Unlock(c)
  BY <1>8 DEF Unlock
<1>9. CASE Request(c) \/ RequestFails(c)
  BY <1>9 DEF Request, RequestFails, Answered
<1> QED
  BY <1>1, <1>2, <1>3, <1>4, <1>5, <1>6, <1>7, <1>8, <1>9
  DEF Step, Progress, Fails, RemoveNext, UnlockAll

\* A step in an operation leaves the other types alone.
LEMMA OtherTypesSame ==
  ASSUME RInv, NEW c \in Callers, Serve(c), pc[c] # "removeall",
         NEW t \in Types, t # typ[c]
  PROVE  Same(t)
<1>1. Step(c) /\ UNCHANGED <<srvVars, recVars, ctlVars>>
  BY ServeIsStep
<1>2. /\ \A b \in Callers \ {c} : UNCHANGED <<pc[b], op[b], typ[b], ds[b]>>
      /\ typ'[c] # t /\ UNCHANGED <<entry[t], locks[t]>>
      /\ \/ alive \subseteq alive'
         \/ /\ typ[c] \in Types /\ entry[typ[c]] # Null
            /\ alive' = alive \ {entry[typ[c]].proc}
  BY <1>1, StepTouches, ManagerAssumption
<1>3. Object(t)' = Object(t) /\ Stage(t)' = Stage(t)
  BY <1>2, ObjectSame DEF RInv, IInv, Shape
<1>4. (Asked(t)' <=> Asked(t)) /\ (Unwanted(t)' <=> Unwanted(t))
  <2>1. UNCHANGED <<todo, left, rpc>> /\ (typ'[Rec] = t <=> typ[Rec] = t)
        /\ (typ[Rec] = t => UNCHANGED <<op[Rec], pc[Rec]>>)
    BY <1>1, <1>2, ReconcilerAssumption DEF recVars
  <2> QED
    BY <2>1 DEF Asked, Unwanted
<1>5. Object(t) # Null /\ Object(t).proc \in alive => Object(t).proc \in alive'
  <2>1. SUFFICES ASSUME Object(t) # Null, Object(t).proc \in alive,
                        typ[c] \in Types, entry[typ[c]] # Null
                 PROVE  Object(t).proc # entry[typ[c]].proc
    BY <1>2
  <2>2. Describes(Object(t), t) /\ Describes(entry[typ[c]], typ[c])
    BY <2>1, ObjectDescribed DEF RInv, PInv, EntriesDescribe
  <2>3. Object(t).proc # 0
    BY <2>1 DEF RInv, PInv, Procs
  <2> QED
    BY <2>2, <2>3 DEF Describes
<1> QED
  BY <1>1, <1>3, <1>4, <1>5 DEF Same, srvVars, recVars, ctlVars

\* So it does its own type while it waits for the lock, gives it back, or puts its
\* object into the map; and a request to a daemon set leaves all types alone.
LEMMA PlanStays ==
  ASSUME RInv, NEW c \in Callers, Serve(c), pc[c] # "removeall", NEW t \in Types,
         c # Rec \/ (pc[c] \notin Deciding /\ pc'[c] \notin Deciding)
  PROVE  /\ Asked(t)' <=> Asked(t)
         /\ Unwanted(t)' <=> Unwanted(t)
         /\ UNCHANGED <<resp, want, ctxDone>>
<1>1. Step(c) /\ UNCHANGED <<srvVars, recVars, ctlVars>>
  BY ServeIsStep
<1>2. \A b \in Callers \ {c} : UNCHANGED <<pc[b], op[b], typ[b], ds[b]>>
  BY <1>1, StepTouches
<1>3. c # Rec => UNCHANGED <<pc[Rec], op[Rec], typ[Rec]>>
  BY <1>2, ReconcilerAssumption
<1> QED
  BY <1>1, <1>3 DEF Asked, Unwanted, srvVars, recVars, ctlVars

LEMMA QuietStepsSame ==
  ASSUME RInv, NEW c \in Callers, Serve(c), NEW t \in Types,
         \/ GetLock(c) \/ Lock(c) \/ Unlock(c) \/ Store(c) \/ Request(c) \/ RequestFails(c)
         \/ LockAll(c) \/ UnlockAll(c)
  PROVE  Same(t)
<1> USE DEF RInv, IInv, Shape, HoldsLock, Critical, Goto, mapVars, callVars, procVars
<1>1. UNCHANGED <<srvVars, recVars, ctlVars>>
  BY ServeIsStep
<1>2. CASE GetLock(c) \/ Lock(c)
  <2>1. /\ pc[c] \in {"getlock", "lock"} /\ pc'[c] \in {"lock", "lookup"}
        /\ UNCHANGED <<entry, op, typ, ds, alive>> /\ \A b \in Callers \ {c} : pc'[b] = pc[b]
        /\ locks'[t] = locks[t] \/ (locks[t] = Null /\ locks'[t] = c)
    BY <1>2 DEF GetLock, Lock
  <2>2. Object(t)' = Object(t) /\ Stage(t)' = Stage(t)
    BY <2>1, ObjectSame DEF Replacing
  <2>3. (Asked(t)' <=> Asked(t)) /\ (Unwanted(t)' <=> Unwanted(t))
    <3>1. pc'[Rec] \in Deciding <=> pc[Rec] \in Deciding
      BY <2>1, ReconcilerAssumption DEF Deciding
    <3> QED
      BY <1>1, <2>1, <3>1 DEF Asked, Unwanted, recVars
  <2> QED
    BY <1>1, <2>1, <2>2, <2>3 DEF Same, srvVars, recVars, ctlVars
<1>3. CASE Unlock(c)
  <2>1. /\ pc[c] = "unlock" /\ pc'[c] = "idle" /\ UNCHANGED <<entry, alive>>
        /\ \A b \in Callers \ {c} : UNCHANGED <<pc[b], typ[b], ds[b]>>
        /\ locks'[t] = locks[t] \/ (locks[t] = c /\ locks'[t] = Null)
    BY <1>3 DEF Unlock
  <2>2. Object(t)' = Object(t) /\ Stage(t)' = Stage(t)
    BY <2>1, ObjectSame DEF Replacing
  <2> QED
    BY <2>1, <2>2, PlanStays DEF Same, Deciding
<1>4. CASE Store(c)
  <2>1. /\ pc[c] = "store" /\ pc'[c] = "unlock" /\ UNCHANGED <<alive, ds, typ>>
        /\ entry' = [entry EXCEPT ![typ[c]] = ds[c]]
        /\ \A b \in Callers \ {c} : UNCHANGED <<pc[b], typ[b], ds[b]>>
    BY <1>4 DEF Store
  <2>2. CASE t = typ[c]
    <3>1. /\ locks'[t] = c /\ locks[t] = c
          /\ Replaced(t) /\ ~Replaced(t)'
      BY <1>4, <2>1, <2>2, ManagerAssumption DEF Store, Replaced, Replacing
    <3>2. Object(t)' = Object(t) /\ Stage(t)' = Stage(t)
      BY <2>1, <2>2, <3>1 DEF Object, Stage
    <3> QED
      BY <2>1, <3>2, PlanStays DEF Same, Deciding
  <2> QED
    BY <2>1, <2>2, OtherTypesSame
<1>5. CASE Request(c) \/ RequestFails(c)
  <2>1. /\ pc[c] = "request" /\ pc'[c] = "idle" /\ UNCHANGED <<entry, locks, ds, alive>>
        /\ \A b \in Callers \ {c} : UNCHANGED <<pc[b], typ[b], ds[b]>>
    BY <1>5 DEF Request, RequestFails, Answered
  <2>2. Object(t)' = Object(t) /\ Stage(t)' = Stage(t)
    BY <2>1, ObjectSame DEF Replacing
  <2> QED
    BY <2>1, <2>2, PlanStays DEF Same, Deciding
<1>6. CASE LockAll(c) \/ UnlockAll(c)
  <2>1. /\ pc[c] \in {"lockall", "removeall"} /\ pc'[c] \in {"removeall", "idle"}
        /\ UNCHANGED <<entry, locks, ds, typ, alive>>
        /\ \A b \in Callers \ {c} : UNCHANGED <<pc[b], op[b]>>
    BY <1>6 DEF LockAll, UnlockAll
  <2>2. Object(t)' = Object(t) /\ Stage(t)' = Stage(t)
    BY <2>1, ObjectSame DEF Replacing
  <2>3. (Asked(t)' <=> Asked(t)) /\ (Unwanted(t)' <=> Unwanted(t))
    <3>1. /\ pc'[Rec] \in Deciding <=> pc[Rec] \in Deciding
          /\ pc[Rec] \in Deciding => op'[Rec] = op[Rec]
      BY <2>1, ReconcilerAssumption DEF Deciding
    <3> QED
      BY <1>1, <2>1, <3>1 DEF Asked, Unwanted, recVars
  <2> QED
    BY <1>1, <2>1, <2>2, <2>3 DEF Same, srvVars, recVars, ctlVars
<1> QED
  BY <1>2, <1>3, <1>4, <1>5, <1>6

\* Where an object keeps its config, the answer and the wish are as far from it as before.
LEMMA SameConfigOwes ==
  ASSUME NEW t \in Types, Object(t) # Null, Object(t)' # Null,
         Object(t)'.cfg = Object(t).cfg,
         Asked(t)' <=> Asked(t), Unwanted(t)' <=> Unwanted(t),
         UNCHANGED <<resp, want, ctxDone>>
  PROVE  (FromAnswer(t)' <=> FromAnswer(t)) /\ (FromWish(t)' <=> FromWish(t))
BY DEF FromAnswer, FromWish, Planned, Differs

\* The steps on the way from the old daemon set of a type to its new one.
LEMMA ReplacingStep ==
  ASSUME RInv, RInv', NEW c \in Callers, Serve(c), pc[c] \in Replacing \ {"store"},
         NEW t \in Types, t = typ[c]
  PROVE  /\ Stage(t) = pc[c] /\ Object(t) = ds[c] /\ ds[c] \in DaemonSets
         /\ Stage(t)' = pc'[c] /\ Object(t)' = ds'[c] /\ ds'[c] \in DaemonSets
         /\ ds'[c].cfg = ds[c].cfg
         /\ FromAnswer(t)' <=> FromAnswer(t)
         /\ FromWish(t)' <=> FromWish(t)
         /\ Asked(t)' <=> Asked(t)
         /\ ctxDone' = ctxDone
<1> USE DEF RInv, IInv, Shape, Goto
<1>1. Step(c) /\ UNCHANGED <<srvVars, recVars, ctlVars>>
  BY ServeIsStep
<1>2. typ'[c] = typ[c] /\ pc'[c] \in Replacing
  <2>1. CASE Downloaded(c) \/ StopOld(c) \/ GetPort(c) \/ BumpPort(c) \/ Spawn(c)
    BY <2>1 DEF Downloaded, StopOld, GetPort, BumpPort, Spawn, callVars, Replacing
  <2>2. CASE DownloadFails(c) \/ SpawnFails(c) \/ BecomesHealthy(c) \/ HealthTimeout(c)
    BY <2>2 DEF DownloadFails, SpawnFails, BecomesHealthy, HealthTimeout, Outcome, Replacing
  <2> QED
    BY <1>1, <2>1, <2>2
    DEF Replacing, Step, Progress, Fails, GetLock, Lock, LookupUpsert, LookupSync, Unlock,
        ListSucceeds, ListFails, Store, Remove, Request, RequestFails, LockAll, RemoveNext,
        UnlockAll
<1>3. ds[c] \in DaemonSets /\ ds'[c] \in DaemonSets
  <2>1. pc[c] \in Working /\ pc'[c] \in Working
    BY <1>2 DEF Replacing, Working
  <2> QED
    BY <2>1 DEF HasObject
<1>4. ds'[c].cfg = ds[c].cfg
  <2>1. CASE Downloaded(c) \/ StopOld(c) \/ GetPort(c) \/ BumpPort(c)
    BY <2>1 DEF Downloaded, StopOld, GetPort, BumpPort, callVars
  <2>2. CASE Spawn(c)
    BY <1>3, <2>2 DEF Spawn, DaemonSets
  <2>3. CASE DownloadFails(c) \/ SpawnFails(c) \/ BecomesHealthy(c) \/ HealthTimeout(c)
    BY <1>3, <2>3 DEF DownloadFails, SpawnFails, BecomesHealthy, HealthTimeout, Outcome,
                      DaemonSets
  <2> QED
    BY <1>1, <2>1, <2>2, <2>3
    DEF Replacing, Step, Progress, Fails, GetLock, Lock, LookupUpsert, LookupSync, Unlock,
        ListSucceeds, ListFails, Store, Remove, Request, RequestFails, LockAll, RemoveNext,
        UnlockAll
<1>5. pc[c] \in Critical /\ pc'[c] \in Critical /\ pc[c] \notin Deciding /\ pc'[c] \notin Deciding
      /\ pc[c] # "removeall"
  BY <1>2 DEF Replacing, Critical, Deciding
<1>6. /\ Stage(t) = pc[c] /\ Object(t) = ds[c]
      /\ Stage(t)' = pc'[c] /\ Object(t)' = ds'[c]
  <2>1. Stage(t) = pc[c] /\ Object(t) = ds[c]
    BY <1>2, <1>5, Holder
  <2>2. Stage(t)' = pc'[c] /\ Object(t)' = ds'[c]
    BY <1>2, <1>5, HolderNext
  <2> QED
    BY <2>1, <2>2
<1> HIDE DEF IInv, Shape, Goto
<1>7. /\ Asked(t)' <=> Asked(t)
      /\ Unwanted(t)' <=> Unwanted(t)
      /\ UNCHANGED <<resp, want, ctxDone>>
  BY <1>2, <1>5, <1>6, PlanStays
<1> QED
  BY <1>2, <1>3, <1>4, <1>6, <1>7, SameConfigOwes, NullAssumption

LEMMA ReplacingOwesNoMore ==
  ASSUME RInv, RInv', Decisions, NEW c \in Callers, Serve(c),
         \/ Downloaded(c) \/ StopOld(c) \/ BumpPort(c) \/ Spawn(c)
         \/ HealthTimeout(c) \/ (BecomesHealthy(c) /\ ~ctxDone),
         NEW t \in Types, t = typ[c]
  PROVE  NoMore(t)
<1>1. pc[c] \in Replacing \ {"store"}
  BY DEF Downloaded, StopOld, BumpPort, Spawn, HealthTimeout, BecomesHealthy, Replacing
<1>2. /\ Stage(t) = pc[c] /\ Object(t) = ds[c] /\ ds[c] \in DaemonSets
      /\ Stage(t)' = pc'[c] /\ Object(t)' = ds'[c] /\ ds'[c] \in DaemonSets
      /\ ds'[c].cfg = ds[c].cfg
      /\ FromAnswer(t)' <=> FromAnswer(t)
      /\ FromWish(t)' <=> FromWish(t)
      /\ Asked(t)' <=> Asked(t)
      /\ ctxDone' = ctxDone
  BY <1>1, ReplacingStep
<1> SUFFICES /\ Decided(t)' => Decided(t)
             /\ Lost(t)' => Lost(t)
             /\ CutShort(t)' => CutShort(t)
  BY <1>2 DEF NoMore
<1> USE DEF RInv, IInv, Shape, Goto, Decided, Lost, CutShort
<1>3. CASE Downloaded(c) \/ StopOld(c) \/ BumpPort(c)
  BY <1>2, <1>3 DEF Downloaded, StopOld, BumpPort
<1>4. CASE Spawn(c)
  <2>1. pc'[c] = "await" /\ spawned + 1 \in alive'
        /\ ds' = [ds EXCEPT ![c] = [ds[c] EXCEPT !.proc = spawned + 1]]
    BY <1>4 DEF Spawn
  <2>2. ds'[c].proc = spawned + 1
    BY <1>2, <2>1 DEF DaemonSets
  <2> QED
    BY <1>2, <2>1, <2>2
<1>5. CASE HealthTimeout(c)
  <2>1. pc[c] = "await" /\ pc'[c] = "store" /\ alive' = alive
        /\ ds' = [ds EXCEPT ![c] = [ds[c] EXCEPT !.healthy = FALSE]]
    BY <1>5 DEF HealthTimeout, Outcome, procVars
  <2>2. ds'[c].proc = ds[c].proc /\ ~ds'[c].healthy
    BY <1>2, <2>1, UpdateHealthy DEF DaemonSets
  <2> QED
    BY <1>2, <2>1, <2>2, NullAssumption
<1>6. CASE BecomesHealthy(c) /\ ~ctxDone
  <2>1. pc[c] = "await" /\ pc'[c] = "store" /\ alive' = alive
        /\ ds' = [ds EXCEPT ![c] = [ds[c] EXCEPT !.healthy = TRUE]]
    BY <1>6 DEF BecomesHealthy, Outcome, procVars
  <2>2. ds'[c].proc = ds[c].proc
    BY <1>2, <2>1, UpdateHealthy
  <2> QED
    BY <1>2, <1>6, <2>1, <2>2, NullAssumption
<1> QED
  BY <1>3, <1>4, <1>5, <1>6

\* A start is decided no longer when it is made, or fails.
LEMMA StartsOwe ==
  ASSUME RInv, RInv', Decisions, NEW c \in Callers, Serve(c),
         GetPort(c) \/ DownloadFails(c) \/ SpawnFails(c), NEW t \in Types, t = typ[c]
  PROVE  /\ GetPort(c) => Owes(t)' + 1 <= Owes(t)
         /\ DownloadFails(c) => Owes(t)' <= Owes(t)
         /\ SpawnFails(c) => Owes(t)' <= Owes(t) + 1
<1>1. pc[c] \in Replacing \ {"store"}
  BY DEF GetPort, DownloadFails, SpawnFails, Replacing
<1>2. /\ Stage(t) = pc[c] /\ Object(t) = ds[c] /\ ds[c] \in DaemonSets
      /\ Stage(t)' = pc'[c] /\ Object(t)' = ds'[c] /\ ds'[c] \in DaemonSets
      /\ ds'[c].cfg = ds[c].cfg
      /\ FromAnswer(t)' <=> FromAnswer(t)
      /\ FromWish(t)' <=> FromWish(t)
      /\ Asked(t)' <=> Asked(t)
      /\ ctxDone' = ctxDone
  BY <1>1, ReplacingStep
<1> USE DEF RInv, IInv, Shape, Goto
<1>3. GetPort(c) => Decided(t) /\ ~Decided(t)' /\ (Lost(t)' => Lost(t))
                    /\ (CutShort(t)' => CutShort(t))
  BY <1>2 DEF GetPort, Decisions, Decided, Lost, CutShort
<1>4. DownloadFails(c) => (Lost(t)' => Decided(t)) /\ ~Decided(t)' /\ (CutShort(t)' => CutShort(t))
  <2>1. SUFFICES ASSUME DownloadFails(c)
                 PROVE  (Lost(t)' => Decided(t)) /\ ~Decided(t)' /\ (CutShort(t)' => CutShort(t))
    OBVIOUS
  <2>2. pc[c] = "download" /\ pc'[c] = "store" /\ ~ds'[c].healthy
    BY <1>2, <2>1 DEF DownloadFails, Outcome, DaemonSets
  <2> QED
    BY <1>2, <2>2 DEF Decided, Lost, CutShort
<1>5. SpawnFails(c) => ~Decided(t)' /\ (CutShort(t)' => CutShort(t))
  <2>1. SUFFICES ASSUME SpawnFails(c) PROVE ~Decided(t)' /\ (CutShort(t)' => CutShort(t))
    OBVIOUS
  <2>2. pc[c] = "spawn" /\ pc'[c] = "store" /\ ~ds'[c].healthy
    BY <1>2, <2>1 DEF SpawnFails, Outcome, DaemonSets
  <2> QED
    BY <1>2, <2>2 DEF Decided, Lost, CutShort
<1>6. GetPort(c) => Owes(t)' + 1 <= Owes(t)
  BY <1>2, <1>3 DEF Owes, One
<1>7. DownloadFails(c) => Owes(t)' <= Owes(t)
  BY <1>2, <1>4 DEF Owes, One
<1>8. SpawnFails(c) => Owes(t)' <= Owes(t) + 1
  BY <1>2, <1>5 DEF Owes, One
<1> QED
  BY <1>2, <1>6, <1>7, <1>8

\* When the reconciler has decided about a type, it asks for it no longer.
LEMMA ReconcilerDecides ==
  ASSUME RInv, Rounds, Decisions, Serve(Rec), pc[Rec] \in {"lookup", "list"},
         pc'[Rec] \notin Deciding, NEW t \in Types, t = typ[Rec]
  PROVE  /\ ~Asked(t)' /\ ~Unwanted(t)'
         /\ op[Rec] = "upsert" =>
              /\ Asked(t) /\ ~Unwanted(t)
              /\ resp[t] # Null /\ ds[Rec].cfg = resp[t].cfg
         /\ op[Rec] = "sync" => ~Asked(t) /\ ~Unwanted(t)
         /\ op[Rec] = "remove" => ~Asked(t) /\ Unwanted(t)
         /\ op[Rec] \in {"upsert", "sync", "remove"}
         /\ UNCHANGED <<resp, want, ctxDone>>
<1> USE ReconcilerAssumption
<1>1. Step(Rec) /\ UNCHANGED <<srvVars, recVars, ctlVars>>
  BY ServeIsStep
<1>2. op[Rec] \in {"upsert", "sync", "remove"}
  BY <1>1
  DEF RInv, IInv, HasObject, Working, Step, Progress, Fails, GetLock, Lock, LookupUpsert,
      LookupSync, Unlock, ListSucceeds, ListFails, Store, Remove, Request, RequestFails,
      LockAll, RemoveNext, UnlockAll, Downloaded, DownloadFails, StopOld, GetPort, BumpPort,
      Spawn, SpawnFails, BecomesHealthy, HealthTimeout
<1>3. UNCHANGED <<rpc, todo, left, resp, want, ctxDone>>
  BY <1>1 DEF srvVars, recVars, ctlVars
<1>4. pc[Rec] \in Deciding
  BY DEF Deciding
<1>5. t \notin todo /\ (rpc = "remove" => t \notin left)
  BY <1>2, <1>4 DEF Rounds, Decisions
<1>6. ~Asked(t)' /\ ~Unwanted(t)'
  BY <1>3, <1>5 DEF Asked, Unwanted
<1>7. op[Rec] = "upsert" => /\ Asked(t) /\ ~Unwanted(t)
                            /\ resp[t] # Null /\ ds[Rec].cfg = resp[t].cfg
  BY <1>4, <1>5 DEF Rounds, Asked, Unwanted
<1>8. op[Rec] = "sync" => ~Asked(t) /\ ~Unwanted(t)
  BY <1>5 DEF Decisions, Asked, Unwanted
<1>9. op[Rec] = "remove" => ~Asked(t) /\ Unwanted(t)
  BY <1>4, <1>5 DEF Asked, Unwanted
<1> QED
  BY <1>2, <1>3, <1>6, <1>7, <1>8, <1>9

LEMMA LookupsSame ==
  ASSUME RInv, Decisions, NEW c \in Callers, Serve(c), NEW t \in Types,
         LookupSync(c) \/ (LookupUpsert(c) /\ pc'[c] = "list")
  PROVE  Same(t)
<1> USE DEF RInv, IInv, Shape, Goto, mapVars, callVars, procVars
<1>1. UNCHANGED <<srvVars, recVars, ctlVars>>
  BY ServeIsStep
<1>2. /\ pc[c] = "lookup" /\ pc'[c] \in {"list", "unlock"} /\ (op[c] = "upsert" => pc'[c] = "list")
      /\ UNCHANGED <<entry, locks, op, typ, alive>>
      /\ \A b \in Callers \ {c} : UNCHANGED <<pc[b], typ[b], ds[b]>>
      /\ op[c] \in {"upsert", "sync"}
  <2>1. CASE LookupSync(c)
    BY <2>1 DEF LookupSync
  <2>2. CASE LookupUpsert(c) /\ pc'[c] = "list"
    <3>1. /\ pc[c] = "lookup" /\ op[c] = "upsert"
          /\ UNCHANGED <<mapVars, callVars, procVars>>
          /\ \E l : pc' = [pc EXCEPT ![c] = l]
      BY <2>2 DEF LookupUpsert
    <3> QED
      BY <2>2, <3>1
  <2> QED
    BY <2>1, <2>2
<1>3. Object(t)' = Object(t) /\ Stage(t)' = Stage(t)
  BY <1>2, ObjectSame DEF Replacing
<1>4. (Asked(t)' <=> Asked(t)) /\ (Unwanted(t)' <=> Unwanted(t))
  <2>1. /\ op[Rec] = "upsert" => (pc'[Rec] \in Deciding <=> pc[Rec] \in Deciding)
        /\ op[Rec] = "remove" => (pc'[Rec] \in Deciding <=> pc[Rec] \in Deciding)
    BY <1>2, ReconcilerAssumption DEF Deciding
  <2> QED
    BY <1>1, <1>2, <2>1 DEF Asked, Unwanted, recVars
<1> QED
  BY <1>1, <1>2, <1>3, <1>4 DEF Same, srvVars, recVars, ctlVars

\* When the tasks have been listed, or have not, there is a daemon set of the same config
\* as before, and the reconciler has got what it asked for.
LEMMA Listing ==
  ASSUME RInv, RInv', Rounds, Decisions, NEW c \in Callers, Serve(c),
         ListSucceeds(c) \/ ListFails(c), NEW t \in Types, t = typ[c]
  PROVE  /\ op[c] \in {"upsert", "sync"}
         /\ Stage(t) = "store" /\ Object(t) = entry[t] /\ entry[t] \in DaemonSets
         /\ Stage(t)' = (IF ListSucceeds(c) THEN "store" ELSE "download")
         /\ Object(t)' # Null /\ Object(t)'.cfg = entry[t].cfg
         /\ Object(t)'.cfg = ds[c].cfg
         /\ ListSucceeds(c) => /\ Object(t)'.proc = entry[t].proc
                               /\ Object(t)'.healthy = entry[t].healthy
         /\ FromAnswer(t)' => FromAnswer(t)
         /\ FromWish(t)' => FromWish(t)
         /\ Asked(t)' => Asked(t)
         /\ UNCHANGED <<ctxDone, alive>>
<1> USE DEF RInv, IInv, Shape, Goto
<1>1. UNCHANGED <<srvVars, recVars, ctlVars>>
  BY ServeIsStep
<1>2. /\ pc[c] = "list" /\ pc'[c] \in {"unlock", "download"}
      /\ pc'[c] = (IF ListSucceeds(c) THEN "unlock" ELSE "download")
      /\ typ'[c] = t /\ ds' = ds /\ alive' = alive
  <2>1. CASE ListSucceeds(c)
    BY <2>1 DEF ListSucceeds, procVars
  <2>2. CASE ListFails(c)
    BY <2>2 DEF ListFails, ListSucceeds, callVars, procVars
  <2> QED
    BY <2>1, <2>2
<1>3. /\ op[c] \in {"upsert", "sync"} /\ entry[t] \in DaemonSets /\ ds[c] \in DaemonSets
      /\ ds[c].cfg = entry[t].cfg
  <2>1. op[c] \in {"upsert", "sync"} /\ entry[t] # Null /\ ds[c] # Null
    BY <1>2 DEF HasObject, SyncsEntry, Working
  <2> QED
    BY <1>2, <2>1 DEF Decisions
<1>4. Object(t) = entry[t] /\ Stage(t) = "store"
  BY <1>2, Holder DEF Critical, Replacing
<1>5. /\ Stage(t)' = (IF ListSucceeds(c) THEN "store" ELSE "download")
      /\ Object(t)' = (IF ListSucceeds(c) THEN entry'[t] ELSE ds[c])
  <2>1. pc'[c] \in Critical
    BY <1>2 DEF Critical
  <2> QED
    BY <1>2, <2>1, HolderNext DEF Replacing
<1>6. ListSucceeds(c) => /\ entry'[t] \in DaemonSets /\ entry'[t].cfg = entry[t].cfg
                         /\ entry'[t].proc = entry[t].proc
                         /\ entry'[t].healthy = entry[t].healthy
  <2>1. SUFFICES ASSUME ListSucceeds(c)
                 PROVE  /\ entry'[t] \in DaemonSets /\ entry'[t].cfg = entry[t].cfg
                        /\ entry'[t].proc = entry[t].proc
                        /\ entry'[t].healthy = entry[t].healthy
    OBVIOUS
  <2>2. CASE op[c] # "upsert"
    BY <1>3, <2>1, <2>2 DEF ListSucceeds
  <2>3. CASE op[c] = "upsert"
    <3>1. entry'[t] = [entry[t] EXCEPT !.id = ds[c].id] /\ ds[c].id \in Ids
      BY <1>3, <2>1, <2>3 DEF ListSucceeds, DaemonSets
    <3>2. [entry[t] EXCEPT !.id = ds[c].id].healthy = entry[t].healthy
      BY <1>3 DEF DaemonSets
    <3> QED
      BY <1>3, <3>1, <3>2, UpdateId
  <2> QED
    BY <2>2, <2>3
<1> HIDE DEF RInv, IInv, Shape, Goto
<1>7. Object(t)' \in DaemonSets /\ Object(t)' # Null /\ Object(t) # Null
      /\ Object(t)'.cfg = entry[t].cfg
  BY <1>3, <1>4, <1>5, <1>6, NullAssumption
<1>8. /\ FromAnswer(t)' => FromAnswer(t)
      /\ FromWish(t)' => FromWish(t)
      /\ Asked(t)' => Asked(t)
  <2>1. pc[c] # "removeall" /\ pc'[c] \notin Deciding
    BY <1>2 DEF Deciding
  <2>2. CASE c # Rec
    BY <1>4, <1>7, <2>1, <2>2, PlanStays, SameConfigOwes
  <2>3. CASE c = Rec /\ op[Rec] = "sync"
    BY <1>2, <1>4, <1>7, <2>1, <2>3, ReconcilerDecides, SameConfigOwes
  <2>4. CASE c = Rec /\ op[Rec] = "upsert"
    <3>1. /\ ~Asked(t)' /\ ~Unwanted(t)' /\ Asked(t)
          /\ resp[t] # Null /\ ds[Rec].cfg = resp[t].cfg
          /\ UNCHANGED <<resp, want, ctxDone>>
      BY <1>2, <2>1, <2>4, ReconcilerDecides
    <3> QED
      BY <1>3, <1>7, <2>4, <3>1 DEF FromAnswer, FromWish, Planned, Differs
  <2> QED
    BY <1>3, <2>2, <2>3, <2>4
<1> QED
  BY <1>1, <1>2, <1>3, <1>4, <1>5, <1>6, <1>7, <1>8 DEF ctlVars

LEMMA ListSucceedsOwesNoMore ==
  ASSUME RInv, RInv', Rounds, Decisions, NEW c \in Callers, Serve(c), ListSucceeds(c),
         NEW t \in Types, t = typ[c]
  PROVE  NoMore(t)
BY Listing, NullAssumption DEF NoMore, Decided, Lost, CutShort

\* The reconciler has removed what it did not want.
LEMMA RemoveOwesNoMore ==
  ASSUME RInv, RInv', Rounds, Decisions, NEW c \in Callers, Serve(c), Remove(c),
         NEW t \in Types, t = typ[c]
  PROVE  NoMore(t)
<1> USE DEF RInv, IInv, Shape, Goto
<1>1. /\ pc[c] = "lookup" /\ op[c] = "remove" /\ pc'[c] = "unlock" /\ typ'[c] = t
      /\ entry'[t] = Null
  BY DEF Remove, callVars
<1>2. c = Rec
  BY <1>1 DEF Decisions
<1>3. Object(t)' = Null /\ Stage(t)' = "store"
  BY <1>1, HolderNext, ManagerAssumption DEF Critical, Replacing
<1>4. /\ ~Asked(t)' /\ ~Unwanted(t)' /\ ~Asked(t) /\ Unwanted(t)
      /\ UNCHANGED <<resp, want, ctxDone>>
  BY <1>1, <1>2, ReconcilerDecides DEF Deciding
<1> HIDE DEF RInv, IInv, Shape, Goto
<1> QED
  BY <1>3, <1>4
  DEF NoMore, Decided, Lost, CutShort, FromAnswer, FromWish, Planned, Differs

\* A daemon set that cannot be listed has no process that runs.
LEMMA NoAnswerNoProcess ==
  ASSUME RInv, NEW d \in DaemonSets, ~CanList(d)
  PROVE  d.proc \notin alive
<1> SUFFICES ASSUME d.proc \in alive PROVE FALSE
  OBVIOUS
<1>1. alive \in SUBSET Nat /\ alive \subseteq Pids /\ d.proc # 0
  BY PidsSuffice DEF RInv, IInv, PInv, Shape, Procs
<1>2. Listeners(PortOf(d)) # {} /\ Listeners(PortOf(d)) \in SUBSET Nat
      /\ Listeners(PortOf(d)) \subseteq alive
  BY <1>1 DEF Listeners, PortOf
<1>3. \E p \in Listeners(PortOf(d)) : \A r \in Listeners(PortOf(d)) : p <= r
  BY <1>2, LeastNumber
<1>4. Listener(PortOf(d)) \in alive
  BY <1>2, <1>3 DEF Listener
<1>5. Listener(PortOf(d)) # Null
  BY <1>1, <1>4, ManagerAssumption DEF Pids
<1> QED
  BY <1>1, <1>5 DEF CanList

\* Nothing more is owed but what is decided, and something else no longer.
LEMMA OwedInstead ==
  ASSUME NEW t \in Types, ~Decided(t), ~Lost(t)',
         FromAnswer(t)' => FromAnswer(t), FromWish(t)' => FromWish(t),
         CutShort(t)' => CutShort(t)
  PROVE  /\ Owes(t)' <= Owes(t) + 1
         /\ (Decided(t)' => Lost(t)) => Owes(t)' <= Owes(t)
         /\ CutShort(t) /\ ~CutShort(t)' => Owes(t)' <= Owes(t)
<1> DEFINE l == One(Lost(t))   a == One(FromAnswer(t))   w == One(FromWish(t))
           s == One(CutShort(t))   d1 == One(Decided(t)')   a1 == One(FromAnswer(t)')
           w1 == One(FromWish(t)')   s1 == One(CutShort(t)')
<1>1. /\ l \in {0, 1} /\ a \in {0, 1} /\ w \in {0, 1} /\ s \in {0, 1}
      /\ d1 \in {0, 1} /\ a1 \in {0, 1} /\ w1 \in {0, 1} /\ s1 \in {0, 1}
  BY DEF One
<1>2. /\ a1 <= a /\ w1 <= w /\ s1 <= s
      /\ (Decided(t)' => Lost(t)) => d1 <= l
      /\ CutShort(t) /\ ~CutShort(t)' => s1 = 0 /\ s = 1
  BY DEF One
<1>3. Owes(t) = 0 + l + a + w + s /\ Owes(t)' = d1 + 0 + a1 + w1 + s1
  BY DEF Owes, One
<1> HIDE DEF l, a, w, s, d1, a1, w1, s1
<1> QED
  BY <1>1, <1>2, <1>3

\* A daemon set that does not answer: it has been lost, or the request has been cut short,
\* or there is a fault to account for it.
LEMMA ListFailsOwes ==
  ASSUME RInv, RInv', Rounds, Decisions, NEW c \in Callers, Serve(c), ListFails(c),
         NEW t \in Types, t = typ[c]
  PROVE  /\ Owes(t)' <= Owes(t) + 1
         /\ faults' = faults => Owes(t)' <= Owes(t) \/ (op[c] = "upsert" /\ c # Rec)
<1> USE DEF Goto
<1>1. /\ op[c] \in {"upsert", "sync"}
      /\ Stage(t) = "store" /\ Object(t) = entry[t] /\ entry[t] \in DaemonSets
      /\ Stage(t)' = "download" /\ Object(t)' # Null
      /\ Object(t)'.cfg = entry[t].cfg /\ Object(t)'.cfg = ds[c].cfg
      /\ FromAnswer(t)' => FromAnswer(t)
      /\ FromWish(t)' => FromWish(t)
      /\ Asked(t)' => Asked(t)
      /\ UNCHANGED <<ctxDone, alive>>
  <2>1. ~ListSucceeds(c)
    BY DEF ListFails, ListSucceeds, RInv, IInv, Shape
  <2> QED
    BY <2>1, Listing
<1>2. ~Decided(t) /\ ~Lost(t)' /\ (CutShort(t)' => CutShort(t))
  BY <1>1 DEF Decided, Lost, CutShort
<1>3. /\ Owes(t)' <= Owes(t) + 1
      /\ (Decided(t)' => Lost(t)) => Owes(t)' <= Owes(t)
      /\ CutShort(t) /\ ~CutShort(t)' => Owes(t)' <= Owes(t)
  BY <1>1, <1>2, OwedInstead
<1>4. ASSUME faults' = faults
      PROVE  Owes(t)' <= Owes(t) \/ (op[c] = "upsert" /\ c # Rec)
  <2>1. pc[c] = "list" /\ pc'[c] = "download" /\ faults \in Nat
    BY ReconcilerAssumption DEF ListFails, RInv, IInv, Shape, Reconciling
  <2>2. \/ ~CanList(entry[t])
        \/ ctxDone
    <3>1. ~Fault
      BY <1>4, <2>1 DEF Fault
    <3>2. Progress(c) \/ ctxDone
      BY <3>1 DEF Serve
    <3>3. CASE Progress(c)
      <4>1. ListSucceeds(c) \/ (ListFails(c) /\ ~CanList(entry[typ[c]]))
        BY <2>1, <3>3
        DEF Progress, GetLock, Lock, LookupUpsert, LookupSync, Unlock, Store, Remove,
            Request, RequestFails, LockAll, RemoveNext, UnlockAll, Downloaded,
            DownloadFails, StopOld, GetPort, BumpPort, Spawn, BecomesHealthy, HealthTimeout
      <4>2. ~ListSucceeds(c)
        BY <2>1 DEF ListSucceeds, RInv, IInv, Shape
      <4> QED
        BY <4>1, <4>2
    <3> QED
      BY <3>2, <3>3
  <2>3. CASE ~CanList(entry[t])
    <3>1. entry[t].proc \notin alive
      BY <1>1, <2>3, NoAnswerNoProcess
    <3>2. Decided(t)' => Lost(t)
      BY <1>1, <3>1, NullAssumption DEF Decided, Lost
    <3> QED
      BY <1>3, <3>2
  <2>4. CASE ctxDone /\ ~(op[c] = "upsert" /\ c # Rec)
    <3>1. c = Rec
      BY <1>1, <2>1, <2>4 DEF Decisions
    <3>2. CASE op[c] = "sync"
      <4>1. entry[t].healthy
        BY <2>1, <3>2 DEF Decisions
      <4>2. ~Asked(t)'
        BY <2>1, <3>1, ReconcilerDecides DEF Deciding
      <4>3. CutShort(t) /\ ~CutShort(t)'
        BY <1>1, <2>4, <4>1, <4>2, NullAssumption DEF CutShort
      <4> QED
        BY <1>3, <4>3
    <3>3. CASE op[c] = "upsert"
      <4>1. Asked(t) /\ ~Asked(t)'
        BY <2>1, <3>1, <3>3, ReconcilerDecides DEF Deciding
      <4>2. CutShort(t) /\ ~CutShort(t)'
        BY <1>1, <2>4, <4>1 DEF CutShort
      <4> QED
        BY <1>3, <4>2
    <3> QED
      BY <1>1, <3>2, <3>3
  <2> QED
    BY <2>2, <2>3, <2>4
<1> QED
  BY <1>3, <1>4

\* An upsert that does not find what it wants: a handler has two starts for it, and the
\* reconciler had an answer that differed.
LEMMA LookupOwes ==
  ASSUME RInv, RInv', Rounds, Decisions, NEW c \in Callers, Serve(c), LookupUpsert(c),
         pc'[c] # "list", NEW t \in Types, t = typ[c]
  PROVE  Owes(t)' <= Owes(t) + (IF c = Rec THEN 0 ELSE 2)
<1> USE DEF Goto
<1>1. /\ pc[c] = "lookup" /\ op[c] = "upsert" /\ pc'[c] = "download"
      /\ UNCHANGED <<entry, typ, ds>>
      /\ (entry[t] = Null \/ ~SameConfig(entry[t].cfg, ds[c].cfg))
  BY DEF LookupUpsert, RInv, IInv, Shape, mapVars, callVars
<1>2. ds[c] \in DaemonSets /\ ds[c] # Null
  BY <1>1 DEF RInv, IInv, Shape, HasObject
<1>3. Stage(t) = "store" /\ Object(t) = entry[t]
  BY <1>1, Holder DEF Critical, Replacing
<1>4. Stage(t)' = "download" /\ Object(t)' = ds[c]
  BY <1>1, HolderNext DEF Critical, Replacing
<1>5. pc[c] # "removeall" /\ pc'[c] \notin Deciding /\ UNCHANGED <<resp, want, ctxDone>>
  BY <1>1, ServeIsStep DEF Deciding, srvVars, recVars, ctlVars
<1>6. ~Decided(t) /\ ~Lost(t)'
  BY <1>3, <1>4 DEF Decided, Lost
<1> DEFINE l == One(Lost(t))   a == One(FromAnswer(t))   w == One(FromWish(t))
           s == One(CutShort(t))   d1 == One(Decided(t)')   a1 == One(FromAnswer(t)')
           w1 == One(FromWish(t)')   s1 == One(CutShort(t)')
<1>7. /\ l \in {0, 1} /\ a \in {0, 1} /\ w \in {0, 1} /\ s \in {0, 1}
      /\ d1 \in {0, 1} /\ a1 \in {0, 1} /\ w1 \in {0, 1} /\ s1 \in {0, 1}
  BY DEF One
<1>8. Owes(t) = 0 + l + a + w + s /\ Owes(t)' = d1 + 0 + a1 + w1 + s1
  BY <1>6 DEF Owes, One
<1>9. CASE c # Rec
  <2>1. (Asked(t)' <=> Asked(t)) /\ (Unwanted(t)' <=> Unwanted(t))
    BY <1>5, <1>9, PlanStays
  <2>2. s1 <= s
    BY <1>4, <1>5, <2>1 DEF CutShort, One
  <2>3. ~FromAnswer(t)' \/ (FromWish(t)' => FromWish(t))
    BY <1>5, <2>1 DEF FromAnswer, FromWish, Planned, Differs
  <2>4. a1 + w1 <= a + w + 1
    BY <2>3 DEF One
  <2> HIDE DEF l, a, w, s, d1, a1, w1, s1
  <2>5. d1 + 0 + a1 + w1 + s1 <= 0 + l + a + w + s + 2
    BY <1>7, <2>2, <2>4
  <2> QED
    BY <1>8, <1>9, <2>5
<1>10. CASE c = Rec
  <2>1. /\ ~Asked(t)' /\ ~Unwanted(t)' /\ Asked(t)
        /\ resp[t] # Null /\ ds[c].cfg = resp[t].cfg
    BY <1>1, <1>5, <1>10, ReconcilerDecides
  <2>2. s1 <= s
    BY <1>4, <2>1 DEF CutShort, One
  <2>3. (Decided(t)' => FromAnswer(t)) /\ ~FromAnswer(t)' /\ (FromWish(t)' => FromWish(t))
    BY <1>1, <1>2, <1>3, <1>4, <1>5, <2>1
    DEF Decided, FromAnswer, FromWish, Planned, Differs, SameConfig
  <2>4. d1 <= a /\ a1 = 0 /\ w1 <= w
    BY <2>3 DEF One
  <2> HIDE DEF l, a, w, s, d1, a1, w1, s1
  <2>5. d1 + 0 + a1 + w1 + s1 <= 0 + l + a + w + s + 0
    BY <1>7, <2>2, <2>4
  <2> QED
    BY <1>8, <1>10, <2>5
<1> QED
  BY <1>9, <1>10

-----------------------------------------------------------------------------
(* The count of the steps in an operation. *)

\* A handler that has decided gives up its two starts for what it owes then.
LEMMA CountedForHandler ==
  ASSUME RInv, Rounds, RInv', Rounds', Amortised, NEW t \in Types,
         \A u \in Types \ {t} : NoMore(u), UNCHANGED <<starts, changes, ctxDone>>,
         Upserts' \subseteq Upserts, NEW h \in Upserting, Upserting' \subseteq Upserting \ {h},
         NEW k \in {0, 1}, faults' = faults + k, Owes(t)' <= Owes(t) + 2
  PROVE  Amortised'
<1>1. /\ TypesOwe \in Nat /\ TypesOwe' \in Nat /\ Owes(t) \in Nat /\ Owes(t)' \in Nat
      /\ TypesOwe' + Owes(t) <= TypesOwe + Owes(t)'
  BY OweAtOne
<1>2. /\ starts \in Nat /\ faults \in Nat /\ changes \in Nat /\ Cardinality(Types) \in Nat
      /\ Cardinality(Upserts) \in Nat /\ Cardinality(Upserting) \in Nat
      /\ starts' = starts
  BY Numbers
<1>3. /\ Cardinality(Upserts') \in Nat /\ Cardinality(Upserts') <= Cardinality(Upserts)
      /\ Cardinality(Upserting') \in Nat
      /\ Cardinality(Upserting') + 1 <= Cardinality(Upserting)
  <2>1. Cardinality(Upserts') \in Nat /\ Cardinality(Upserts') <= Cardinality(Upserts)
    BY Numbers, FS_Subset, FS_CardinalityType
  <2>2. /\ IsFiniteSet(Upserting \ {h})
        /\ Cardinality(Upserting \ {h}) = Cardinality(Upserting) - 1
    BY Numbers, FS_RemoveElement
  <2>3. /\ Cardinality(Upserting') \in Nat
        /\ Cardinality(Upserting') <= Cardinality(Upserting \ {h})
    BY <2>2, FS_Subset, FS_CardinalityType
  <2> QED
    BY <1>2, <2>1, <2>2, <2>3
<1>4. Reasons \in Nat /\ Reasons' = Reasons + k
  BY <1>2 DEF Reasons
<1>5. starts + 2 * Cardinality(Upserts) + 2 * Cardinality(Upserting) + TypesOwe <= Reasons
  BY DEF Amortised
<1> DEFINE s == starts    w == TypesOwe    w1 == TypesOwe'   o == Owes(t)   o1 == Owes(t)'
           u == Cardinality(Upserts)    u1 == Cardinality(Upserts')
           n == Cardinality(Upserting)  n1 == Cardinality(Upserting')
           r == Reasons
<1>6. s + 2 * u1 + 2 * n1 + w1 <= r + k
  <2>1. /\ s \in Nat /\ w \in Nat /\ w1 \in Nat /\ o \in Nat /\ o1 \in Nat
        /\ u \in Nat /\ u1 \in Nat /\ n \in Nat /\ n1 \in Nat /\ r \in Nat
    BY <1>1, <1>2, <1>3, <1>4
  <2>2. /\ u1 <= u /\ n1 + 1 <= n /\ w1 + o <= w + o1 /\ o1 <= o + 2
        /\ s + 2 * u + 2 * n + w <= r
    BY <1>1, <1>3, <1>5
  <2> HIDE DEF s, w, w1, o, o1, u, u1, n, n1, r
  <2> QED
    BY <2>1, <2>2
<1> QED
  BY <1>2, <1>4, <1>6 DEF Amortised

\* No step in an operation brings an upsert.
LEMMA ServeBringsNothing ==
  ASSUME RInv, RInv', NEW c \in Callers, Serve(c)
  PROVE  /\ Upserts' = Upserts /\ UNCHANGED <<changes, ctxDone>>
         /\ Upserting' \subseteq Upserting
         /\ pc'[c] \notin Deciding => Upserting' \subseteq Upserting \ {c}
         /\ faults' = faults \/ faults' = faults + 1
         /\ GetPort(c) => starts' = starts + 1
         /\ ~GetPort(c) => starts' = starts
<1> USE DEF RInv, IInv, Shape, Goto, mapVars, portVars, callVars, procVars
<1>1. Step(c) /\ UNCHANGED <<srvVars, recVars, ctlVars>>
  BY ServeIsStep
<1>2. /\ \A b \in Callers \ {c} : UNCHANGED <<pc[b], op[b], typ[b]>>
      /\ op'[c] = op[c] \/ pc'[c] = "idle"
  BY <1>1, StepStaysInside
<1>3. /\ pc'[c] \in Deciding /\ op'[c] = "upsert" => pc[c] \in Deciding
      /\ ~GetPort(c) => starts' = starts
  <2>1. CASE GetLock(c) \/ Lock(c) \/ ListFails(c) \/ Downloaded(c) \/ BumpPort(c)
             \/ LockAll(c) \/ ListSucceeds(c)
    BY <2>1
    DEF GetLock, Lock, ListFails, Downloaded, BumpPort, LockAll, ListSucceeds, Deciding
  <2>2. CASE LookupUpsert(c) \/ LookupSync(c)
    BY <2>2 DEF LookupUpsert, LookupSync, Deciding
  <2>3. CASE DownloadFails(c) \/ SpawnFails(c) \/ BecomesHealthy(c) \/ HealthTimeout(c)
    BY <2>3 DEF DownloadFails, SpawnFails, BecomesHealthy, HealthTimeout, Outcome, Deciding
  <2>4. CASE StopOld(c) \/ Spawn(c) \/ Store(c) \/ Remove(c)
    BY <2>4 DEF StopOld, Spawn, Store, Remove, Deciding
  <2>5. CASE Unlock(c)
    BY <2>5 DEF Unlock, Deciding
  <2>6. CASE Request(c) \/ RequestFails(c)
    BY <2>6 DEF Request, RequestFails, Answered, Deciding
  <2>7. ASSUME NEW t \in Types, RemoveNext(c, t)
        PROVE  /\ pc'[c] \in Deciding /\ op'[c] = "upsert" => pc[c] \in Deciding
               /\ ~GetPort(c) => starts' = starts
    BY <2>7 DEF RemoveNext, Deciding
  <2>8. CASE UnlockAll(c)
    BY <2>8 DEF UnlockAll, Deciding
  <2>9. CASE GetPort(c)
    BY <2>9 DEF GetPort, Deciding
  <2> QED
    BY <1>1, <2>1, <2>2, <2>3, <2>4, <2>5, <2>6, <2>7, <2>8, <2>9 DEF Step, Progress, Fails
<1>4. GetPort(c) => starts' = starts + 1
  BY DEF GetPort
<1>5. faults' = faults \/ faults' = faults + 1
  BY DEF Serve, Fault, NoFault
<1>6. Upserts' = Upserts /\ UNCHANGED <<changes, ctxDone>>
  BY <1>1 DEF Upserts, srvVars, ctlVars
<1> HIDE DEF RInv, IInv, Shape
<1>7. /\ Upserting' \subseteq Upserting
      /\ pc'[c] \notin Deciding => Upserting' \subseteq Upserting \ {c}
  BY <1>2, <1>3 DEF Upserting, Handlers, Deciding
<1> QED
  BY <1>3, <1>4, <1>5, <1>6, <1>7

\* RemoveAllDaemonSets takes away what there is.
LEMMA RemoveNextOwesNoMore ==
  ASSUME RInv, Rounds, NEW c \in Callers, Serve(c), NEW v \in Types, RemoveNext(c, v),
         NEW t \in Types
  PROVE  NoMore(t)
<1>1. UNCHANGED <<srvVars, recVars, ctlVars>>
  BY ServeIsStep
<1>2. /\ pc[c] = "removeall" /\ entry[v] # Null
      /\ entry' = [entry EXCEPT ![v] = Null] /\ alive' = alive \ {entry[v].proc}
      /\ UNCHANGED <<locks, pc, op, typ>>
  BY DEF RemoveNext, Kill, callVars
<1>3. ctxDone /\ todo = {} /\ rpc = "stopped" /\ pc[Rec] = "idle"
  <2>1. stopped
    BY <1>2 DEF RInv, IInv, Stopping, RemovingAll
  <2> QED
    BY <2>1 DEF RInv, InTurn, Rounds
<1>4. ~Asked(t) /\ ~Unwanted(t) /\ ~Asked(t)' /\ ~Unwanted(t)'
  BY <1>1, <1>2, <1>3 DEF Asked, Unwanted, Deciding, recVars
<1>5. ~Replaced(t) /\ ~Replaced(t)'
  <2>1. \A b \in Callers : pc[b] \in {"idle", "removeall"}
    BY <1>2 DEF RInv, IInv, Stopping, RemovingAll
  <2>2. locks[t] \in Callers \cup {Null}
    BY DEF RInv, IInv, Shape
  <2> QED
    BY <1>2, <2>1, <2>2 DEF Replaced, Replacing
<1>6. /\ Object(t) = entry[t] /\ Stage(t) = "store"
      /\ Object(t)' = entry'[t] /\ Stage(t)' = "store"
  BY <1>5 DEF Object, Stage
<1>7. entry'[t] # Null => t # v /\ entry'[t] = entry[t]
  BY <1>2 DEF RInv, IInv, Shape
<1>8. Lost(t)' => Lost(t)
  <2>1. SUFFICES ASSUME entry'[t] # Null, entry[t].proc \in alive
                 PROVE  entry[t].proc # entry[v].proc
    BY <1>2, <1>6, <1>7 DEF Lost
  <2>2. Describes(entry[t], t) /\ Describes(entry[v], v) /\ t # v
    BY <1>2, <1>7, <2>1 DEF RInv, PInv, EntriesDescribe
  <2>3. entry[t].proc # 0
    BY <2>1 DEF RInv, PInv, Procs
  <2> QED
    BY <2>2, <2>3 DEF Describes
<1>9. ~FromAnswer(t)' /\ ~FromWish(t)' /\ ~Decided(t)'
  BY <1>1, <1>3, <1>4, <1>6
  DEF FromAnswer, FromWish, Planned, Differs, Decided, ctlVars
<1>10. CutShort(t)' => CutShort(t)
  BY <1>3, <1>4, <1>6, <1>7 DEF CutShort
<1> QED
  BY <1>8, <1>9, <1>10 DEF NoMore

LEMMA ServeCounted ==
  ASSUME RInv, RInv', Rounds, Rounds', Decisions, Amortised, NEW c \in Callers, Serve(c)
  PROVE  Amortised'
<1>1. Step(c)
  BY ServeIsStep
<1>2. /\ Upserts' \subseteq Upserts /\ UNCHANGED <<changes, ctxDone>>
      /\ Upserting' \subseteq Upserting
      /\ pc'[c] \notin Deciding => Upserting' \subseteq Upserting \ {c}
      /\ faults' = faults \/ faults' = faults + 1
      /\ GetPort(c) => starts' = starts + 1
      /\ ~GetPort(c) => starts' = starts
  BY ServeBringsNothing
<1>3. faults \in Nat /\ starts \in Nat
  BY Numbers
<1>4. pc[c] \in Critical => typ[c] \in Types
  BY DEF RInv, IInv, HoldsLock
<1>5. ASSUME NEW u \in Types, u # typ[c], pc[c] # "removeall"
      PROVE  NoMore(u)
  BY <1>5, OtherTypesSame, SameOwesNoMore
<1>6. ASSUME ~GetPort(c), \A t \in Types : NoMore(t)
      PROVE  Amortised'
  BY <1>2, <1>6, OweNoMore, StillCounted
<1>7. CASE \/ GetLock(c) \/ Lock(c) \/ Unlock(c) \/ Store(c) \/ Request(c) \/ RequestFails(c)
           \/ LockAll(c) \/ UnlockAll(c)
  <2>1. ~GetPort(c)
    BY <1>7 DEF GetPort, GetLock, Lock, Unlock, Store, Request, RequestFails, LockAll, UnlockAll
  <2> QED
    BY <1>6, <1>7, <2>1, QuietStepsSame, SameOwesNoMore
<1>8. CASE LookupSync(c) \/ (LookupUpsert(c) /\ pc'[c] = "list")
  <2>1. ~GetPort(c)
    BY <1>8 DEF GetPort, LookupSync, LookupUpsert
  <2> QED
    BY <1>6, <1>8, <2>1, LookupsSame, SameOwesNoMore
<1>9. CASE \/ Downloaded(c) \/ StopOld(c) \/ BumpPort(c) \/ Spawn(c)
           \/ HealthTimeout(c) \/ (BecomesHealthy(c) /\ ~ctxDone)
  <2>1. ~GetPort(c) /\ pc[c] \in Critical /\ pc[c] # "removeall"
    BY <1>9 DEF GetPort, Downloaded, StopOld, BumpPort, Spawn, HealthTimeout, BecomesHealthy,
                Critical
  <2>2. \A t \in Types : NoMore(t)
    BY <1>5, <1>9, <2>1, ReplacingOwesNoMore
  <2> QED
    BY <1>6, <2>1, <2>2
<1>10. CASE ListSucceeds(c) \/ Remove(c)
  <2>1. ~GetPort(c) /\ pc[c] \in Critical /\ pc[c] # "removeall"
    BY <1>10 DEF GetPort, ListSucceeds, Remove, Critical
  <2>2. \A t \in Types : NoMore(t)
    BY <1>5, <1>10, <2>1, ListSucceedsOwesNoMore, RemoveOwesNoMore
  <2> QED
    BY <1>6, <2>1, <2>2
<1>11. ASSUME NEW t \in Types, RemoveNext(c, t)
       PROVE  Amortised'
  <2>1. ~GetPort(c)
    BY <1>11 DEF GetPort, RemoveNext
  <2> QED
    BY <1>6, <1>11, <2>1, RemoveNextOwesNoMore
<1>12. CASE GetPort(c) \/ DownloadFails(c) \/ SpawnFails(c)
  <2>1. pc[c] \in Critical /\ pc[c] # "removeall"
    BY <1>12 DEF GetPort, DownloadFails, SpawnFails, Critical
  <2>2. PICK u \in Types : u = typ[c]
    BY <1>4, <2>1
  <2>3. \A v \in Types \ {u} : NoMore(v)
    BY <1>5, <2>1, <2>2
  <2>4. Owes(u) \in Nat /\ Owes(u)' \in Nat
    BY <2>3, OweAtOne
  <2>5. PICK k \in {0, 1} : faults' = faults + k
    BY <1>2, <1>3
  <2>6. CASE GetPort(c)
    <3>1. Owes(u)' + 1 <= Owes(u) + k
      BY <2>2, <2>4, <2>6, StartsOwe
    <3> QED
      BY <1>2, <2>3, <2>5, <2>6, <3>1, CountedAtOne
  <2>7. CASE ~GetPort(c) /\ DownloadFails(c)
    <3>1. Owes(u)' + 0 <= Owes(u) + k
      BY <2>2, <2>4, <2>7, StartsOwe
    <3>2. starts' = starts + 0
      BY <1>2, <1>3, <2>7
    <3> QED
      BY <1>2, <2>3, <2>5, <3>1, <3>2, CountedAtOne
  <2>8. CASE ~GetPort(c) /\ SpawnFails(c)
    <3>1. k = 1
      <4>1. Fault
        <5>1. pc[c] = "spawn" /\ ~Spawn(c)
          BY <2>8 DEF SpawnFails, Spawn, Outcome, Goto, RInv, IInv, Shape
        <5>2. ~Progress(c)
          BY <5>1
          DEF Progress, GetLock, Lock, LookupUpsert, LookupSync, Unlock, ListSucceeds,
              ListFails, Store, Remove, Request, RequestFails, LockAll, RemoveNext, UnlockAll,
              Downloaded, DownloadFails, StopOld, GetPort, BumpPort, BecomesHealthy,
              HealthTimeout
        <5>3. ~Interrupted(c)
          BY <5>1 DEF Interrupted, ListFails, HealthTimeout, RequestFails, DownloadFails
        <5> QED
          BY <5>2, <5>3 DEF Serve
      <4> QED
        BY <1>3, <2>5, <4>1 DEF Fault
    <3>2. Owes(u)' + 0 <= Owes(u) + k
      BY <2>2, <2>4, <2>8, <3>1, StartsOwe
    <3>3. starts' = starts + 0
      BY <1>2, <1>3, <2>8
    <3> QED
      BY <1>2, <2>3, <2>5, <3>2, <3>3, CountedAtOne
  <2> QED
    BY <1>12, <2>6, <2>7, <2>8
<1>13. CASE ListFails(c) \/ (LookupUpsert(c) /\ pc'[c] # "list")
  <2>1. /\ ~GetPort(c) /\ pc[c] \in Critical /\ pc[c] # "removeall"
        /\ pc[c] \in Deciding /\ pc'[c] = "download"
    BY <1>13 DEF GetPort, ListFails, LookupUpsert, Critical, Deciding, Goto, RInv, IInv, Shape
  <2>2. PICK t \in Types : t = typ[c]
    BY <1>4, <2>1
  <2>3. \A u \in Types \ {t} : NoMore(u)
    BY <1>5, <2>1, <2>2
  <2>4. Owes(t) \in Nat /\ Owes(t)' \in Nat
    BY <2>3, OweAtOne
  <2>5. PICK k \in {0, 1} : faults' = faults + k
    BY <1>2, <1>3
  <2>6. UNCHANGED <<starts, changes, ctxDone>>
    BY <1>2, <2>1
  <2>7. CASE op[c] = "upsert" /\ c # Rec
    <3>1. c \in Upserting
      <4>1. c # Main
        BY <2>1 DEF RInv, InTurn, RemovingAll, Critical
      <4> QED
        BY <2>1, <2>7, <4>1 DEF Upserting, Handlers
    <3>2. Upserting' \subseteq Upserting \ {c}
      BY <1>2, <2>1 DEF Deciding
    <3>3. Owes(t)' <= Owes(t) + 2
      <4>1. Owes(t)' <= Owes(t) + 1 \/ Owes(t)' <= Owes(t) + 2
        BY <1>13, <2>2, <2>7, ListFailsOwes, LookupOwes
      <4> QED
        BY <2>4, <4>1
    <3> QED
      BY <1>2, <2>3, <2>5, <2>6, <3>1, <3>2, <3>3, CountedForHandler
  <2>8. CASE ~(op[c] = "upsert" /\ c # Rec)
    <3>1. Owes(t)' + 0 <= Owes(t) + k
      <4>1. CASE ListFails(c)
        <5>1. CASE k = 0
          <6>1. faults' = faults
            BY <1>3, <2>5, <5>1
          <6>2. Owes(t)' <= Owes(t)
            BY <2>2, <2>8, <4>1, <6>1, ListFailsOwes
          <6> QED
            BY <2>4, <5>1, <6>2
        <5>2. CASE k = 1
          <6>1. Owes(t)' <= Owes(t) + 1
            BY <2>2, <4>1, ListFailsOwes
          <6> QED
            BY <2>4, <5>2, <6>1
        <5> QED
          BY <5>1, <5>2
      <4>2. CASE LookupUpsert(c) /\ pc'[c] # "list"
        <5>1. op[c] = "upsert" /\ c = Rec
          BY <2>8, <4>2 DEF LookupUpsert
        <5>2. Owes(t)' <= Owes(t) + 0
          BY <2>2, <4>2, <5>1, LookupOwes
        <5> QED
          BY <2>4, <5>2
      <4> QED
        BY <1>13, <4>1, <4>2
    <3>2. starts' = starts + 0
      BY <1>3, <2>6
    <3> QED
      BY <1>2, <2>3, <2>5, <2>6, <3>1, <3>2, CountedAtOne
  <2> QED
    BY <2>7, <2>8
<1>14. BecomesHealthy(c) /\ ctxDone => HealthTimeout(c)
  BY DEF Serve, BecomesHealthy, Interrupted, Fails, ListFails, DownloadFails, SpawnFails,
         RequestFails
<1> QED
  BY <1>1, <1>7, <1>8, <1>9, <1>10, <1>11, <1>12, <1>13, <1>14 DEF Step, Progress, Fails

-----------------------------------------------------------------------------
(* The count of the other steps. *)

\* A caller that enters an operation leaves the objects alone.
LEMMA EnteringSame ==
  ASSUME RInv, NEW c \in Callers, NEW t \in Types, NEW u, NEW i, NEW f, NEW o, NEW T,
         \/ CallUpsert(c, u, i, f) \/ CallSync(c, u) \/ CallRemove(c, u)
         \/ CallTasks(c, o, u, T)
  PROVE  /\ Object(t)' = Object(t) /\ Stage(t)' = Stage(t)
         /\ UNCHANGED <<alive, starts>>
         /\ pc[c] = "idle" /\ typ'[c] = u
         /\ \A b \in Callers \ {c} : UNCHANGED <<pc[b], op[b], typ[b]>>
         /\ CallUpsert(c, u, i, f) => op'[c] = "upsert" /\ pc'[c] = "getlock"
         /\ CallSync(c, u) => op'[c] = "sync" /\ pc'[c] = "getlock"
         /\ CallRemove(c, u) => op'[c] = "remove" /\ pc'[c] = "getlock"
         /\ CallTasks(c, o, u, T) => pc'[c] = "request"
<1> USE DEF RInv, IInv, Shape, Goto, Call, mapVars, portVars, procVars
<1>1. /\ \A b \in Callers \ {c} : UNCHANGED <<pc[b], op[b], typ[b], ds[b]>>
      /\ UNCHANGED <<entry, locks, alive, starts>>
      /\ pc[c] = "idle" /\ typ'[c] = u /\ pc'[c] \in {"getlock", "request"}
  <2>1. CASE CallUpsert(c, u, i, f)
    BY <2>1 DEF CallUpsert
  <2>2. CASE CallSync(c, u) \/ CallRemove(c, u)
    BY <2>2 DEF CallSync, CallRemove
  <2>3. CASE CallTasks(c, o, u, T)
    BY <2>3 DEF CallTasks
  <2> QED
    BY <2>1, <2>2, <2>3
<1>2. Object(t)' = Object(t) /\ Stage(t)' = Stage(t)
  BY <1>1, ObjectSame DEF Replacing
<1>3. /\ CallUpsert(c, u, i, f) => op'[c] = "upsert" /\ pc'[c] = "getlock"
      /\ CallSync(c, u) => op'[c] = "sync" /\ pc'[c] = "getlock"
      /\ CallRemove(c, u) => op'[c] = "remove" /\ pc'[c] = "getlock"
      /\ CallTasks(c, o, u, T) => pc'[c] = "request"
  BY DEF CallUpsert, CallSync, CallRemove, CallTasks
<1> QED
  BY <1>1, <1>2, <1>3

LEMMA NothingMoved ==
  ASSUME NEW t \in Types, UNCHANGED vars
  PROVE  /\ Object(t)' = Object(t) /\ Stage(t)' = Stage(t)
         /\ UNCHANGED <<alive, starts, pc, op, typ>>
BY DEF Object, Stage, Replaced, vars, mapVars, portVars, callVars, procVars

\* But for the answer of the server, nothing the reconciler does changes what is owed.
LEMMA ReconcilerSame ==
  ASSUME RInv, Rounds, Reconciler, ~ServerAnswers, NEW t \in Types
  PROVE  Same(t)
<1> USE ReconcilerAssumption DEF At, srvVars, ctlVars
<1>1. CASE \/ Reconcile \/ ReconcileFails \/ AllRemovedNow
           \/ CompareTasks \/ AcquireTasks \/ Reconciled \/ ReconcilerStops
  <2>1. UNCHANGED vars /\ UNCHANGED <<srvVars, ctxDone>> /\ pc[Rec] = "idle"
    BY <1>1
    DEF Reconcile, ReconcileFails, AllRemovedNow, CompareTasks, AcquireTasks, Reconciled,
        ReconcilerStops
  <2>2. /\ Object(t)' = Object(t) /\ Stage(t)' = Stage(t)
        /\ UNCHANGED <<alive, pc, op, typ>>
    BY <2>1, NothingMoved
  <2>3. (Asked(t)' <=> Asked(t)) /\ (Unwanted(t)' <=> Unwanted(t))
        /\ (Asked(t) => resp'[t] = resp[t])
    <3>1. CASE Reconcile \/ ReconcileFails \/ AllRemovedNow \/ ReconcilerStops
      BY <2>1, <2>2, <3>1
      DEF Reconcile, ReconcileFails, AllRemovedNow, ReconcilerStops, Asked, Unwanted,
          Deciding
    <3>2. CASE CompareTasks
      BY <2>1, <2>2, <3>2 DEF CompareTasks, Asked, Unwanted, Deciding
    <3>3. CASE AcquireTasks \/ Reconciled
      BY <2>1, <2>2, <3>3 DEF AcquireTasks, Reconciled, Asked, Unwanted, Deciding
    <3> QED
      BY <1>1, <3>1, <3>2, <3>3
  <2> QED
    BY <2>1, <2>2, <2>3 DEF Same
<1>2. CASE RemoveTasks \/ AssignTasks
  <2>1. UNCHANGED <<srvVars, ctxDone, todo, left, resp>> /\ pc[Rec] = "idle"
        /\ rpc # "remove" /\ rpc' # "remove"
    BY <1>2 DEF RemoveTasks, AssignTasks
  <2>2. \E o, T : TaskRequest(o, T)
    BY <1>2 DEF RemoveTasks, AssignTasks
  <2>3. /\ Object(t)' = Object(t) /\ Stage(t)' = Stage(t)
        /\ UNCHANGED alive /\ pc'[Rec] \in {"idle", "request"}
    <3>1. CASE UNCHANGED vars
      BY <2>1, <3>1, NothingMoved
    <3>2. CASE \E o, T : CallTasks(Rec, o, cur, T)
      BY <3>2, EnteringSame
    <3> QED
      BY <2>2, <3>1, <3>2 DEF TaskRequest
  <2>4. (Asked(t)' <=> Asked(t)) /\ (Unwanted(t)' <=> Unwanted(t))
    BY <2>1, <2>3 DEF Asked, Unwanted, Deciding
  <2> QED
    BY <2>1, <2>3, <2>4 DEF Same
<1>3. ASSUME NEW u \in Types, SyncNext(u)
      PROVE  Same(t)
  <2>1. CallSync(Rec, u) /\ UNCHANGED <<srvVars, ctxDone, todo, resp, rpc>> /\ rpc = "sync"
    BY <1>3 DEF SyncNext
  <2>2. /\ Object(t)' = Object(t) /\ Stage(t)' = Stage(t) /\ UNCHANGED alive
        /\ pc[Rec] = "idle" /\ op'[Rec] = "sync"
    BY <2>1, EnteringSame
  <2>3. (Asked(t)' <=> Asked(t)) /\ (Unwanted(t)' <=> Unwanted(t))
    BY <2>1, <2>2 DEF Asked, Unwanted, Deciding
  <2> QED
    BY <2>1, <2>2, <2>3 DEF Same
<1>4. ASSUME NEW u \in Types, RemoveUnwanted(u)
      PROVE  Same(t)
  <2>1. /\ CallRemove(Rec, u) /\ UNCHANGED <<srvVars, ctxDone, todo, resp, rpc>>
        /\ rpc = "remove" /\ u \in left /\ left' = left \ {u}
    BY <1>4 DEF RemoveUnwanted
  <2>2. /\ Object(t)' = Object(t) /\ Stage(t)' = Stage(t) /\ UNCHANGED alive
        /\ pc[Rec] = "idle" /\ op'[Rec] = "remove" /\ typ'[Rec] = u /\ pc'[Rec] = "getlock"
    BY <2>1, EnteringSame
  <2>3. (Asked(t)' <=> Asked(t)) /\ (Unwanted(t)' <=> Unwanted(t))
    BY <2>1, <2>2 DEF Asked, Unwanted, Deciding
  <2> QED
    BY <2>1, <2>2, <2>3 DEF Same
<1>5. ASSUME NEW u \in Types, UpsertNext(u)
      PROVE  Same(t)
  <2>1. /\ CallUpsert(Rec, u, resp[u].id, resp[u].cfg)
        /\ UNCHANGED <<srvVars, ctxDone, left, resp>>
        /\ rpc = "upsert" /\ rpc' = "compare" /\ u \in todo /\ todo' = todo \ {u}
    BY <1>5 DEF UpsertNext
  <2>2. /\ Object(t)' = Object(t) /\ Stage(t)' = Stage(t) /\ UNCHANGED alive
        /\ pc[Rec] = "idle" /\ op'[Rec] = "upsert" /\ typ'[Rec] = u /\ pc'[Rec] = "getlock"
    BY <2>1, EnteringSame
  <2>3. (Asked(t)' <=> Asked(t)) /\ (Unwanted(t)' <=> Unwanted(t))
    BY <2>1, <2>2 DEF Asked, Unwanted, Deciding
  <2> QED
    BY <2>1, <2>2, <2>3 DEF Same
<1> QED
  BY <1>1, <1>2, <1>3, <1>4, <1>5 DEF Reconciler

\* The answer of the server is what it wants: what differs from it has been counted as
\* a wish.
LEMMA AnswerOwes ==
  ASSUME RInv, Rounds, ServerAnswers
  PROVE  TypesOwe' <= TypesOwe /\ TypesOwe \in Nat /\ TypesOwe' \in Nat
<1>1. /\ At("sync") /\ left = {} /\ ~ctxDone /\ ~ctxDone' /\ resp' = want /\ rpc' = "remove"
      /\ UNCHANGED <<vars, want>>
      /\ \A t \in todo' : want[t] # Null
      /\ \A t \in left' : want[t] = Null
  BY DEF ServerAnswers, srvVars, ctlVars, RInv, Reconciling
<1>2. rpc = "sync" /\ pc[Rec] = "idle" /\ todo = {}
  BY <1>1 DEF At, Rounds
<1>3. \A t \in Types : /\ Object(t)' = Object(t) /\ Stage(t)' = Stage(t)
                       /\ UNCHANGED <<alive, pc, op, typ>>
  BY <1>1, NothingMoved
<1>4. ASSUME NEW t \in Types
      PROVE  /\ ~Asked(t) /\ ~Unwanted(t)
             /\ Asked(t)' => want[t] # Null
             /\ Unwanted(t)' => want[t] = Null
  BY <1>1, <1>2, <1>3 DEF Asked, Unwanted, Deciding
<1>5. ASSUME NEW t \in Types
      PROVE  /\ Decided(t)' => Decided(t)
             /\ Lost(t)' => Lost(t)
             /\ ~CutShort(t)'
             /\ FromAnswer(t)' => FromWish(t) /\ ~FromWish(t)'
             /\ FromWish(t)' => FromWish(t)
  <2>1. (Decided(t)' => Decided(t)) /\ (Lost(t)' => Lost(t))
    BY <1>3 DEF Decided, Lost
  <2>2. ~CutShort(t)'
    BY <1>1 DEF CutShort
  <2>3. Planned(t) = Object(t)
    BY <1>4 DEF Planned
  <2>4. Planned(t)' = want[t] \/ (Unwanted(t)' /\ Planned(t)' = Null) \/ Planned(t)' = Object(t)
    BY <1>1, <1>3 DEF Planned
  <2>5. /\ FromAnswer(t)' => FromWish(t) /\ ~FromWish(t)'
        /\ FromWish(t)' => FromWish(t)
    BY <1>1, <1>3, <1>4, <2>3, <2>4 DEF FromAnswer, FromWish, Differs
  <2> QED
    BY <2>1, <2>2, <2>5
<1> DEFINE S1 == {u \in Types : Decided(u)}     R1 == {u \in Types : Decided(u)'}
           S2 == {u \in Types : Lost(u)}        R2 == {u \in Types : Lost(u)'}
           S3 == {u \in Types : FromAnswer(u)}  R3 == {u \in Types : FromAnswer(u)'}
           S4 == {u \in Types : FromWish(u)}    R4 == {u \in Types : FromWish(u)'}
           S5 == {u \in Types : CutShort(u)}    R5 == {u \in Types : CutShort(u)'}
<1>6. /\ TypesOwe = Cardinality(S1) + Cardinality(S2) + Cardinality(S3) + Cardinality(S4)
                    + Cardinality(S5)
      /\ TypesOwe' = Cardinality(R1) + Cardinality(R2) + Cardinality(R3) + Cardinality(R4)
                     + Cardinality(R5)
  BY DEF TypesOwe
<1>7. /\ S1 \in SUBSET Types /\ S2 \in SUBSET Types /\ S3 \in SUBSET Types
      /\ S4 \in SUBSET Types /\ S5 \in SUBSET Types
      /\ R3 \in SUBSET Types /\ R4 \in SUBSET Types
  OBVIOUS
<1>8. /\ R1 \in SUBSET S1 /\ R2 \in SUBSET S2 /\ R5 \in SUBSET S5
      /\ R3 \cup R4 \in SUBSET S4 /\ R3 \cap R4 = {}
  BY <1>5
<1> HIDE DEF S1, S2, S3, S4, S5, R1, R2, R3, R4, R5
<1>9. \A S \in SUBSET Types, R \in SUBSET Types : R \subseteq S =>
        Cardinality(S) \in Nat /\ Cardinality(R) \in Nat /\ Cardinality(R) <= Cardinality(S)
  BY SomeTypes, FS_Subset
<1>10. /\ Cardinality(S1) \in Nat /\ Cardinality(R1) \in Nat /\ Cardinality(R1) <= Cardinality(S1)
       /\ Cardinality(S2) \in Nat /\ Cardinality(R2) \in Nat /\ Cardinality(R2) <= Cardinality(S2)
       /\ Cardinality(S5) \in Nat /\ Cardinality(R5) \in Nat /\ Cardinality(R5) <= Cardinality(S5)
       /\ Cardinality(S3) \in Nat /\ Cardinality(S4) \in Nat
       /\ Cardinality(R3) \in Nat /\ Cardinality(R4) \in Nat
       /\ Cardinality(R3 \cup R4) \in Nat /\ Cardinality(R3 \cup R4) <= Cardinality(S4)
  BY <1>7, <1>8, <1>9
<1>11. Cardinality(R3 \cup R4) = Cardinality(R3) + Cardinality(R4)
  <2>1. IsFiniteSet(R3) /\ IsFiniteSet(R4)
    BY <1>7, SomeTypes
  <2>2. Cardinality(R3 \cup R4) = Cardinality(R3) + Cardinality(R4) - Cardinality(R3 \cap R4)
    BY <2>1, FS_Union
  <2>3. Cardinality(R3 \cap R4) = 0
    BY <1>8, FS_EmptySet
  <2> QED
    BY <1>10, <2>2, <2>3
<1> QED
  BY <1>10, <1>11, <1>6

LEMMA ReconcilerCounted ==
  ASSUME RInv, RInv', Rounds, Rounds', Amortised, Reconciler
  PROVE  Amortised'
<1>1. faults' = faults \/ faults' = faults + 1
  BY DEF Reconciler, Reconcile, ServerAnswers, ReconcileFails, AllRemovedNow, CompareTasks,
         AcquireTasks, Reconciled, ReconcilerStops, SyncNext, RemoveUnwanted, UpsertNext,
         RemoveTasks, AssignTasks, ServerFails, Fault, NoFault
<1>2. UNCHANGED <<starts, inbox, changes, ctxDone>>
  <2>1. UNCHANGED <<srvVars, ctxDone>>
    BY DEF Reconciler, Reconcile, ServerAnswers, ReconcileFails, AllRemovedNow, CompareTasks,
           AcquireTasks, Reconciled, ReconcilerStops, SyncNext, RemoveUnwanted, UpsertNext,
           RemoveTasks, AssignTasks, ctlVars
  <2>2. starts' = starts
    BY DEF Reconciler, Reconcile, ServerAnswers, ReconcileFails, AllRemovedNow, CompareTasks,
           AcquireTasks, Reconciled, ReconcilerStops, SyncNext, RemoveUnwanted, UpsertNext,
           RemoveTasks, AssignTasks, TaskRequest, CallTasks, CallSync, CallRemove, CallUpsert,
           Call, vars, portVars
  <2> QED
    BY <2>1, <2>2 DEF srvVars
<1>3. Upserts' = Upserts /\ Upserting' = Upserting
  BY <1>2, ReconcilerStaysInside DEF Upserts, Upserting, Handlers
<1>4. TypesOwe' <= TypesOwe /\ TypesOwe \in Nat /\ TypesOwe' \in Nat
  <2>1. CASE ServerAnswers
    BY <2>1, AnswerOwes
  <2>2. CASE ~ServerAnswers
    <3>1. \A t \in Types : NoMore(t)
      BY <2>2, ReconcilerSame, SameOwesNoMore
    <3> QED
      BY <3>1, OweNoMore
  <2> QED
    BY <2>1, <2>2
<1> QED
  BY <1>1, <1>2, <1>3, <1>4, StillCounted

\* A handler that takes an event has its two starts from it.
LEMMA HandlersCounted ==
  ASSUME RInv, RInv', Rounds, Rounds', Amortised, NEW h \in Handlers, NEW e \in inbox,
         HandleUpsert(h, e) \/ HandleTaskAssign(h, e)
  PROVE  Amortised'
<1>1. /\ inbox' = inbox \ {e} /\ faults' = faults
      /\ UNCHANGED <<want, changes, recVars, ctxDone>>
  BY DEF HandleUpsert, HandleTaskAssign, Handling, NoFault, ctlVars
<1>2. h \in Callers /\ h # Rec /\ pc[h] = "idle"
  BY DEF Handlers, HandleUpsert, HandleTaskAssign, CallUpsert, Call, CallTasks
<1>3. /\ starts' = starts
      /\ \A b \in Callers \ {h} : UNCHANGED <<pc[b], op[b], typ[b]>>
      /\ HandleTaskAssign(h, e) => pc'[h] \in {"idle", "request"}
  <2>1. CASE HandleUpsert(h, e)
    BY <1>2, <2>1, CallStaysInside
    DEF HandleUpsert, HandleTaskAssign, CallUpsert, Call, portVars, RInv
  <2>2. CASE HandleTaskAssign(h, e)
    BY <1>2, <2>2
    DEF HandleTaskAssign, CallTasks, Goto, vars, callVars, portVars, RInv, IInv, Shape
  <2> QED
    BY <2>1, <2>2
<1>4. \A t \in Types : NoMore(t)
  <2>1. SUFFICES ASSUME NEW t \in Types PROVE Same(t)
    BY SameOwesNoMore
  <2>2. Object(t)' = Object(t) /\ Stage(t)' = Stage(t) /\ alive' = alive
    <3>1. \/ \E u, i, f : CallUpsert(h, u, i, f)
          \/ \E u, o, T : CallTasks(h, o, u, T)
          \/ UNCHANGED vars
      BY DEF HandleUpsert, HandleTaskAssign
    <3> QED
      BY <1>2, <3>1, EnteringSame, NothingMoved
  <2>3. UNCHANGED <<pc[Rec], op[Rec], typ[Rec]>>
    BY <1>2, <1>3, ReconcilerAssumption
  <2> QED
    BY <1>1, <2>2, <2>3 DEF Same, Asked, Unwanted, recVars
<1>5. /\ starts \in Nat /\ faults \in Nat /\ changes \in Nat /\ Cardinality(Types) \in Nat
      /\ IsFiniteSet(Upserts) /\ Cardinality(Upserts) \in Nat
      /\ IsFiniteSet(Upserting) /\ Cardinality(Upserting) \in Nat
  BY Numbers
<1>6. CASE HandleTaskAssign(h, e)
  <2>1. Upserts' \subseteq Upserts
    BY <1>1 DEF Upserts
  <2>2. Upserting' \subseteq Upserting
    BY <1>3, <1>6 DEF Upserting, Handlers, Deciding
  <2> QED
    BY <1>1, <1>3, <1>4, <2>1, <2>2, OweNoMore, StillCounted
<1>7. CASE HandleUpsert(h, e)
  <2>1. e \in Upserts /\ Upserts' = Upserts \ {e}
    BY <1>1, <1>7 DEF Upserts, HandleUpsert
  <2>2. h \notin Upserting /\ Upserting' \subseteq Upserting \cup {h}
    BY <1>2, <1>3 DEF Upserting, Handlers, Deciding
  <2>3. Cardinality(Upserts') \in Nat /\ Cardinality(Upserts') + 1 = Cardinality(Upserts)
    <3>1. IsFiniteSet(Upserts \ {e}) /\ Cardinality(Upserts \ {e}) = Cardinality(Upserts) - 1
      BY <1>5, <2>1, FS_RemoveElement
    <3>2. Cardinality(Upserts \ {e}) \in Nat
      BY <3>1, FS_CardinalityType
    <3> QED
      BY <1>5, <2>1, <3>1, <3>2
  <2>4. Cardinality(Upserting') \in Nat
        /\ Cardinality(Upserting') <= Cardinality(Upserting) + 1
    <3>1. /\ IsFiniteSet(Upserting \cup {h})
          /\ Cardinality(Upserting \cup {h}) = Cardinality(Upserting) + 1
      BY <1>5, <2>2, FS_AddElement
    <3> QED
      BY <2>2, <3>1, FS_Subset, FS_CardinalityType
  <2>5. TypesOwe' <= TypesOwe /\ TypesOwe \in Nat /\ TypesOwe' \in Nat
    BY <1>4, OweNoMore
  <2>6. Reasons \in Nat /\ Reasons' = Reasons
    BY <1>1, <1>5 DEF Reasons
  <2> DEFINE s == starts    w == TypesOwe    w1 == TypesOwe'
             u == Cardinality(Upserts)    u1 == Cardinality(Upserts')
             n == Cardinality(Upserting)  n1 == Cardinality(Upserting')
             r == Reasons
  <2>7. s + 2 * u1 + 2 * n1 + w1 <= r
    <3>1. /\ s \in Nat /\ w \in Nat /\ w1 \in Nat /\ u \in Nat /\ u1 \in Nat
          /\ n \in Nat /\ n1 \in Nat /\ r \in Nat
      BY <1>5, <2>3, <2>4, <2>5, <2>6
    <3>2. /\ u1 + 1 = u /\ n1 <= n + 1 /\ w1 <= w
          /\ s + 2 * u + 2 * n + w <= r
      BY <2>3, <2>4, <2>5 DEF Amortised
    <3> HIDE DEF s, w, w1, u, u1, n, n1, r
    <3> QED
      BY <3>1, <3>2
  <2> QED
    BY <1>3, <2>6, <2>7 DEF Amortised
<1> QED
  BY <1>6, <1>7

\* The server changes its mind: one start may follow from its wish, two from the event.
LEMMA ChangeCounted ==
  ASSUME RInv, RInv', Rounds, Rounds', Amortised, Change
  PROVE  Amortised'
<1>1. PICK t \in Types, w \in Wishes \cup {Null}, K \in SUBSET {"upsert", "assign"} :
        /\ want' = [want EXCEPT ![t] = w]
        /\ inbox' = inbox \cup {[kind |-> k, type |-> t, wish |-> w] :
                                  k \in IF w = Null THEN {} ELSE K}
  BY DEF Change
<1>2. UNCHANGED <<vars, recVars, ctxDone, faults>> /\ changes' = changes + 1
  BY DEF Change, ctlVars
<1>3. /\ starts \in Nat /\ faults \in Nat /\ changes \in Nat /\ Cardinality(Types) \in Nat
      /\ IsFiniteSet(Upserts) /\ Cardinality(Upserts) \in Nat /\ Cardinality(Upserting) \in Nat
      /\ starts' = starts
  BY <1>2, Numbers DEF vars, portVars
<1>4. \A u \in Types : /\ Object(u)' = Object(u) /\ Stage(u)' = Stage(u)
                       /\ UNCHANGED <<alive, pc, op, typ>>
  BY <1>2, NothingMoved
<1>5. \A u \in Types : (Asked(u)' <=> Asked(u)) /\ (Unwanted(u)' <=> Unwanted(u))
  BY <1>2, <1>4 DEF Asked, Unwanted, recVars
<1>6. \A u \in Types \ {t} : NoMore(u)
  <2>1. \A u \in Types \ {t} : want'[u] = want[u]
    BY <1>1 DEF RInv, Reconciling
  <2>2. \A u \in Types \ {t} : Same(u)
    BY <1>2, <1>4, <1>5, <2>1 DEF Same, recVars
  <2> QED
    BY <2>2, SameOwesNoMore
<1>7. /\ Decided(t)' <=> Decided(t)
      /\ Lost(t)' <=> Lost(t)
      /\ FromAnswer(t)' <=> FromAnswer(t)
      /\ CutShort(t)' <=> CutShort(t)
  <2>1. Planned(t)' = Planned(t)
    BY <1>2, <1>4, <1>5 DEF Planned, recVars
  <2> QED
    BY <1>2, <1>4, <1>5, <2>1 DEF Decided, Lost, FromAnswer, CutShort
<1>8. Owes(t)' <= Owes(t) + 1
  BY <1>7 DEF Owes, One
<1>9. /\ TypesOwe \in Nat /\ TypesOwe' \in Nat /\ Owes(t) \in Nat /\ Owes(t)' \in Nat
      /\ TypesOwe' + Owes(t) <= TypesOwe + Owes(t)'
  BY <1>6, OweAtOne
<1>10. Cardinality(Upserts') \in Nat /\ Cardinality(Upserts') <= Cardinality(Upserts) + 1
  <2> DEFINE e == [kind |-> "upsert", type |-> t, wish |-> w]
  <2>1. Upserts' \subseteq Upserts \cup {e}
    <3>1. SUFFICES ASSUME NEW x \in inbox', x.kind = "upsert", x \notin inbox
                   PROVE  x = e
      BY DEF Upserts
    <3>2. PICK k \in {"upsert", "assign"} : x = [kind |-> k, type |-> t, wish |-> w]
      BY <1>1, <3>1
    <3> QED
      BY <3>1, <3>2
  <2>2. /\ IsFiniteSet(Upserts \cup {e})
        /\ \/ Cardinality(Upserts \cup {e}) = Cardinality(Upserts)
           \/ Cardinality(Upserts \cup {e}) = Cardinality(Upserts) + 1
    BY <1>3, FS_AddElement
  <2>3. /\ IsFiniteSet(Upserts') /\ Cardinality(Upserts') <= Cardinality(Upserts \cup {e})
    BY <2>1, <2>2, FS_Subset
  <2>4. Cardinality(Upserts') \in Nat /\ Cardinality(Upserts \cup {e}) \in Nat
    BY <2>2, <2>3, FS_CardinalityType
  <2> QED
    BY <1>3, <2>2, <2>3, <2>4
<1>11. Upserting' = Upserting
  BY <1>4, <1>2 DEF Upserting, vars, callVars
<1>12. Reasons \in Nat /\ Reasons' = Reasons + 3
  BY <1>2, <1>3 DEF Reasons
<1> DEFINE s == starts    o == TypesOwe    o1 == TypesOwe'   a == Owes(t)   a1 == Owes(t)'
           u == Cardinality(Upserts)    u1 == Cardinality(Upserts')
           n == Cardinality(Upserting)  r == Reasons
<1>13. s + 2 * u1 + 2 * n + o1 <= r + 3
  <2>1. /\ s \in Nat /\ o \in Nat /\ o1 \in Nat /\ a \in Nat /\ a1 \in Nat
        /\ u \in Nat /\ u1 \in Nat /\ n \in Nat /\ r \in Nat
    BY <1>3, <1>9, <1>10, <1>12
  <2>2. /\ u1 <= u + 1 /\ o1 + a <= o + a1 /\ a1 <= a + 1
        /\ s + 2 * u + 2 * n + o <= r
    BY <1>8, <1>9, <1>10 DEF Amortised
  <2> HIDE DEF s, o, o1, a, a1, u, u1, n, r
  <2> QED
    BY <2>1, <2>2
<1> QED
  BY <1>3, <1>11, <1>12, <1>13 DEF Amortised

\* The context is cancelled: no wish counts any longer, and the requests of each type may
\* be cut short.
LEMMA SignalCounted ==
  ASSUME RInv, RInv', Rounds, Rounds', Amortised, Signal
  PROVE  Amortised'
<1>1. UNCHANGED <<vars, srvVars, recVars, faults>> /\ ctxDone'
  BY DEF Signal, NoFault
<1>2. /\ starts \in Nat /\ faults \in Nat /\ changes \in Nat /\ Cardinality(Types) \in Nat
      /\ Cardinality(Upserts) \in Nat /\ Cardinality(Upserting) \in Nat
      /\ starts' = starts /\ faults' = faults /\ changes' = changes
  BY <1>1, Numbers DEF vars, portVars, srvVars
<1>3. \A u \in Types : /\ Object(u)' = Object(u) /\ Stage(u)' = Stage(u)
                       /\ UNCHANGED <<alive, pc, op, typ>>
  BY <1>1, NothingMoved
<1>4. \A u \in Types : (Asked(u)' <=> Asked(u)) /\ (Unwanted(u)' <=> Unwanted(u))
  BY <1>1, <1>3 DEF Asked, Unwanted, recVars
<1>5. Upserts' = Upserts /\ Upserting' = Upserting
  BY <1>1 DEF Upserts, Upserting, vars, callVars, srvVars
<1>6. CASE ctxDone
  <2>1. \A u \in Types : Same(u)
    BY <1>1, <1>3, <1>4, <1>6 DEF Same, recVars, srvVars
  <2> QED
    BY <1>1, <1>2, <1>5, <1>6, <2>1, SameOwesNoMore, OweNoMore, StillCounted
<1>7. CASE ~ctxDone
  <2> DEFINE S1 == {u \in Types : Decided(u)}     R1 == {u \in Types : Decided(u)'}
             S2 == {u \in Types : Lost(u)}        R2 == {u \in Types : Lost(u)'}
             S3 == {u \in Types : FromAnswer(u)}  R3 == {u \in Types : FromAnswer(u)'}
             S4 == {u \in Types : FromWish(u)}    R4 == {u \in Types : FromWish(u)'}
             S5 == {u \in Types : CutShort(u)}    R5 == {u \in Types : CutShort(u)'}
  <2>1. /\ TypesOwe = Cardinality(S1) + Cardinality(S2) + Cardinality(S3) + Cardinality(S4)
                      + Cardinality(S5)
        /\ TypesOwe' = Cardinality(R1) + Cardinality(R2) + Cardinality(R3) + Cardinality(R4)
                       + Cardinality(R5)
    BY DEF TypesOwe
  <2>2. /\ S1 \in SUBSET Types /\ S2 \in SUBSET Types /\ S3 \in SUBSET Types
        /\ S4 \in SUBSET Types /\ S5 \in SUBSET Types /\ R5 \in SUBSET Types
    OBVIOUS
  <2>3. R1 = S1 /\ R2 = S2
    BY <1>3 DEF Decided, Lost
  <2>4. R3 = S3
    <3>1. \A u \in Types : Planned(u)' = Planned(u)
      BY <1>1, <1>3, <1>4 DEF Planned, recVars
    <3> QED
      BY <1>3, <3>1 DEF FromAnswer
  <2>5. R4 = {}
    BY <1>1 DEF FromWish
  <2> HIDE DEF S1, S2, S3, S4, S5, R1, R2, R3, R4, R5
  <2>6. /\ Cardinality(S1) \in Nat /\ Cardinality(S2) \in Nat /\ Cardinality(S3) \in Nat
        /\ Cardinality(S4) \in Nat /\ Cardinality(S5) \in Nat
        /\ Cardinality(R5) \in Nat /\ Cardinality(R5) <= Cardinality(Types)
        /\ Cardinality(R4) = 0
    BY <2>2, <2>5, SomeTypes, FS_EmptySet
  <2>7. /\ TypesOwe \in Nat /\ TypesOwe' \in Nat
        /\ TypesOwe' <= TypesOwe + Cardinality(Types)
    BY <1>2, <2>6, <2>3, <2>4, <2>1
  <2>8. Reasons \in Nat /\ Reasons' = Reasons + Cardinality(Types)
    BY <1>1, <1>2, <1>7 DEF Reasons
  <2> DEFINE s == starts    o == TypesOwe    o1 == TypesOwe'   u == Cardinality(Upserts)
             n == Cardinality(Upserting)   r == Reasons   d == Cardinality(Types)
  <2>9. s + 2 * u + 2 * n + o1 <= r + d
    <3>1. /\ s \in Nat /\ o \in Nat /\ o1 \in Nat /\ u \in Nat /\ n \in Nat /\ r \in Nat
          /\ d \in Nat
      BY <1>2, <2>7, <2>8
    <3>2. o1 <= o + d /\ s + 2 * u + 2 * n + o <= r
      BY <2>7 DEF Amortised
    <3> HIDE DEF s, o, o1, u, n, r, d
    <3> QED
      BY <3>1, <3>2
  <2> QED
    BY <1>2, <1>5, <2>8, <2>9 DEF Amortised
<1> QED
  BY <1>6, <1>7

\* A process dies: one start for it, which the fault accounts for.
LEMMA CrashCounted ==
  ASSUME RInv, RInv', Rounds, Rounds', Amortised, ProcessDies
  PROVE  Amortised'
<1>1. PICK p \in alive : alive' = alive \ {p}
  BY DEF ProcessDies, Crash
<1>2. /\ UNCHANGED <<mapVars, portVars, pc, callVars, srvVars, recVars, ctxDone>>
      /\ faults' = faults + 1
  BY DEF ProcessDies, Crash, Fault, ctlVars
<1>3. \A u \in Types : Object(u)' = Object(u) /\ Stage(u)' = Stage(u)
  BY <1>2 DEF Object, Stage, Replaced, mapVars, callVars
<1>4. \A u \in Types : (Asked(u)' <=> Asked(u)) /\ (Unwanted(u)' <=> Unwanted(u))
  BY <1>2 DEF Asked, Unwanted, recVars, callVars
<1>5. /\ UNCHANGED <<starts, changes, ctxDone>> /\ starts \in Nat
      /\ Upserts' = Upserts /\ Upserting' = Upserting
  BY <1>2, Numbers DEF Upserts, Upserting, portVars, srvVars, callVars
<1>6. ASSUME NEW u \in Types, Object(u) = Null \/ Object(u).proc # p
      PROVE  NoMore(u)
  <2>1. Same(u)
    BY <1>1, <1>2, <1>3, <1>4, <1>6 DEF Same, recVars, srvVars
  <2> QED
    BY <2>1, SameOwesNoMore
<1>7. CASE \A u \in Types : Object(u) = Null \/ Object(u).proc # p
  BY <1>2, <1>5, <1>6, <1>7, OweNoMore, StillCounted
<1>8. CASE \E t \in Types : Object(t) # Null /\ Object(t).proc = p
  <2>1. PICK t \in Types : Object(t) # Null /\ Object(t).proc = p
    BY <1>8
  <2>2. p # 0
    BY DEF RInv, PInv, Procs
  <2>3. ASSUME NEW u \in Types \ {t}
        PROVE  NoMore(u)
    <3>1. SUFFICES ASSUME Object(u) # Null PROVE Object(u).proc # p
      BY <1>6
    <3>2. Describes(Object(t), t) /\ Describes(Object(u), u)
      BY <2>1, <3>1, ObjectDescribed
    <3> QED
      BY <2>1, <2>2, <3>2 DEF Describes
  <2>4. /\ Decided(t)' <=> Decided(t)
        /\ FromAnswer(t)' <=> FromAnswer(t)
        /\ FromWish(t)' <=> FromWish(t)
        /\ CutShort(t)' <=> CutShort(t)
    <3>1. Planned(t)' = Planned(t)
      BY <1>2, <1>3, <1>4 DEF Planned, recVars
    <3> QED
      BY <1>2, <1>3, <1>4, <3>1
      DEF Decided, FromAnswer, FromWish, CutShort, Differs, srvVars
  <2>5. Owes(t)' + 0 <= Owes(t) + 1
    BY <2>4 DEF Owes, One
  <2>6. starts' = starts + 0
    BY <1>5
  <2> QED
    BY <1>2, <1>5, <2>3, <2>5, <2>6, CountedAtOne
<1> QED
  BY <1>7, <1>8

LEMMA ShutdownCounted ==
  ASSUME RInv, RInv', Rounds, Rounds', Amortised, Shutdown \/ UNCHANGED rvars
  PROVE  Amortised'
<1> USE ReconcilerAssumption
<1>1. /\ UNCHANGED <<srvVars, recVars, ctxDone, faults>>
      /\ UNCHANGED vars \/ CallRemoveAll(Main)
  BY DEF Shutdown, ReconcilerHasStopped, PollerHasStopped, ShutdownReturns, NoFault, rvars,
         ctlVars
<1>2. /\ UNCHANGED <<alive, starts, locks, entry, typ, ds>>
      /\ \A b \in Callers \ {Main} : UNCHANGED <<pc[b], op[b]>>
      /\ pc'[Main] = pc[Main] \/ (pc[Main] = "idle" /\ pc'[Main] = "lockall")
  <2>1. CASE UNCHANGED vars
    BY <2>1 DEF vars, mapVars, portVars, callVars, procVars
  <2>2. CASE CallRemoveAll(Main)
    BY <2>2 DEF CallRemoveAll, Goto, mapVars, portVars, procVars, RInv, IInv, Shape
  <2> QED
    BY <1>1, <2>1, <2>2
<1>3. \A t \in Types : NoMore(t)
  <2>1. SUFFICES ASSUME NEW t \in Types PROVE Same(t)
    BY SameOwesNoMore
  <2>2. Object(t)' = Object(t) /\ Stage(t)' = Stage(t)
    <3>1. pc'[Main] = pc[Main] \/ (pc[Main] \notin Replacing /\ pc'[Main] \notin Replacing)
      BY <1>2 DEF Replacing
    <3>2. locks[t] \in Callers \cup {Null}
      BY DEF RInv, IInv, Shape
    <3>3. Replaced(t)' <=> Replaced(t)
      BY <1>2, <3>1, <3>2, ManagerAssumption DEF Replaced
    <3>4. Replaced(t) => pc'[locks[t]] = pc[locks[t]]
      BY <1>2, <3>1, <3>2, ManagerAssumption DEF Replaced
    <3> QED
      BY <1>2, <3>3, <3>4 DEF Object, Stage
  <2>3. UNCHANGED <<pc[Rec], op[Rec], typ[Rec]>>
    BY <1>2
  <2> QED
    BY <1>1, <1>2, <2>2, <2>3 DEF Same, Asked, Unwanted, recVars, srvVars
<1>4. Upserts' = Upserts /\ Upserting' = Upserting
  BY <1>1, <1>2 DEF Upserts, Upserting, Handlers, srvVars
<1> QED
  BY <1>1, <1>2, <1>3, <1>4, OweNoMore, StillCounted DEF srvVars

-----------------------------------------------------------------------------
(* What the count rests on. *)

\* Before it has decided a caller keeps its object, and what it has looked up.
LEMMA StepDecides ==
  ASSUME RInv, Decisions, NEW c \in Callers, Step(c)
  PROVE  /\ \A b \in Callers \ {c} : UNCHANGED <<pc[b], op[b], typ[b], ds[b]>>
         /\ pc'[c] \in Deciding =>
              pc[c] \in Deciding /\ (op[c] = "upsert" => ds'[c] = ds[c])
         /\ pc'[c] = "list" =>
              /\ UNCHANGED <<entry, typ>>
              /\ ds'[c].cfg = entry[typ[c]].cfg
              /\ op[c] = "sync" => entry[typ[c]].healthy
         /\ pc'[c] \in {"stopold", "getport"} => ds'[c].cfg \notin NoExecutable
         /\ entry' = entry \/ pc[c] \in Critical \cup {"removeall"}
<1> USE DEF RInv, IInv, Shape, Goto, mapVars, callVars
<1>1. CASE GetLock(c) \/ Lock(c)
  BY <1>1 DEF GetLock, Lock, Deciding
<1>2. CASE LookupUpsert(c)
  <2>1. /\ pc[c] = "lookup" /\ UNCHANGED <<entry, typ, ds, op>>
        /\ pc'[c] \in {"list", "download"} /\ \A b \in Callers \ {c} : pc'[b] = pc[b]
        /\ pc'[c] = "list" => ds[c].cfg = entry[typ[c]].cfg
    BY <1>2 DEF LookupUpsert, SameConfig
  <2>2. op[c] = "upsert"
    BY <1>2 DEF LookupUpsert
  <2> QED
    BY <2>1, <2>2 DEF Deciding
<1>3. CASE LookupSync(c)
  <2>1. /\ pc[c] = "lookup" /\ op[c] = "sync" /\ UNCHANGED <<entry, typ, op>>
        /\ pc'[c] \in {"list", "unlock"}
        /\ \A b \in Callers \ {c} : UNCHANGED <<pc[b], ds[b]>>
        /\ pc'[c] = "list" => ds'[c] = entry[typ[c]] /\ entry[typ[c]].healthy
    BY <1>3 DEF LookupSync
  <2> QED
    BY <2>1 DEF Deciding
<1>4. CASE ListSucceeds(c) \/ Store(c)
  BY <1>4 DEF ListSucceeds, Store, Deciding, Critical
<1>5. CASE ListFails(c) \/ Downloaded(c) \/ GetPort(c) \/ BumpPort(c)
  BY <1>5 DEF ListFails, Downloaded, GetPort, BumpPort, Deciding
<1>6. CASE DownloadFails(c) \/ SpawnFails(c) \/ BecomesHealthy(c) \/ HealthTimeout(c)
  BY <1>6 DEF DownloadFails, SpawnFails, BecomesHealthy, HealthTimeout, Outcome, Deciding
<1>7. CASE StopOld(c) \/ Remove(c)
  BY <1>7 DEF StopOld, Remove, Deciding, Critical, Decisions
<1>8. CASE Spawn(c)
  BY <1>8 DEF Spawn, Deciding
<1>9. CASE Unlock(c)
  BY <1>9 DEF Unlock, Deciding
<1>10. CASE Request(c) \/ RequestFails(c)
  BY <1>10 DEF Request, RequestFails, Answered, Deciding
<1>11. CASE LockAll(c) \/ UnlockAll(c)
  BY <1>11 DEF LockAll, UnlockAll, Deciding
<1>12. ASSUME NEW t \in Types, RemoveNext(c, t)
       PROVE  UNCHANGED <<pc, op, typ, ds>> /\ pc[c] = "removeall"
  BY <1>12 DEF RemoveNext
<1> QED
  BY <1>1, <1>2, <1>3, <1>4, <1>5, <1>6, <1>7, <1>8, <1>9, <1>10, <1>11, <1>12
  DEF Step, Progress, Fails, Deciding

LEMMA ServeKeepsRounds ==
  ASSUME RInv, Rounds, Decisions, NEW c \in Callers, Serve(c)
  PROVE  Rounds' /\ Decisions'
<1> USE ReconcilerAssumption
<1>1. Step(c) /\ UNCHANGED <<inbox, rpc, left, todo, resp, ctxDone, shut>>
  BY ServeIsStep DEF srvVars, recVars, ctlVars
<1>2. /\ \A b \in Callers \ {c} : UNCHANGED <<pc[b], op[b], typ[b], ds[b]>>
      /\ pc[c] # "idle"
      /\ \/ UNCHANGED <<op[c], typ[c]>>
         \/ pc'[c] = "idle"
  BY <1>1, StepStaysInside, StepDecides DEF RInv
<1>3. /\ pc'[c] \in Deciding =>
           pc[c] \in Deciding /\ (op[c] = "upsert" => ds'[c] = ds[c])
      /\ pc'[c] = "list" =>
           /\ UNCHANGED <<entry, typ>>
           /\ ds'[c].cfg = entry[typ[c]].cfg
           /\ op[c] = "sync" => entry[typ[c]].healthy
      /\ pc'[c] \in {"stopold", "getport"} => ds'[c].cfg \notin NoExecutable
      /\ entry' = entry \/ pc[c] \in Critical \cup {"removeall"}
  BY <1>1, StepDecides
<1>4. Rounds'
  BY <1>1, <1>2, <1>3 DEF Rounds, Deciding
<1>5. ASSUME NEW b \in Callers
      PROVE  /\ op'[b] = "sync" /\ pc'[b] # "idle" => b = Rec /\ rpc' = "sync"
             /\ op'[b] = "remove" /\ pc'[b] # "idle" => b = Rec /\ rpc' = "remove"
             /\ pc'[b] \in {"stopold", "getport"} => ds'[b].cfg \notin NoExecutable
  BY <1>1, <1>2, <1>3 DEF Decisions
<1>6. ASSUME NEW b \in Callers, pc'[b] = "list"
      PROVE  /\ ds'[b].cfg = entry'[typ'[b]].cfg
             /\ op'[b] = "sync" => entry'[typ'[b]].healthy
  <2>1. CASE b = c
    BY <1>2, <1>3, <1>6, <2>1
  <2>2. CASE b # c
    <3>1. pc[b] = "list" /\ UNCHANGED <<typ[b], op[b], ds[b]>>
      BY <1>2, <1>6, <2>2
    <3>2. typ[b] \in Types /\ locks[typ[b]] = b
      BY <3>1 DEF RInv, IInv, HoldsLock, Critical
    <3>3. pc[c] # "removeall"
      BY <2>2, <3>1 DEF RInv, IInv, Stopping, RemovingAll
    <3>4. entry'[typ[b]] = entry[typ[b]]
      <4>1. CASE pc[c] \in Critical
        <5>1. typ[c] # typ[b]
          BY <2>2, <3>2, <4>1 DEF RInv, IInv, HoldsLock
        <5> QED
          BY <1>1, <3>2, <3>3, <5>1, StepTouches
      <4>2. CASE pc[c] \notin Critical
        BY <1>3, <3>3, <4>2
      <4> QED
        BY <4>1, <4>2
    <3> QED
      BY <3>1, <3>4 DEF Decisions
  <2> QED
    BY <2>1, <2>2
<1>7. Decisions'
  BY <1>5, <1>6 DEF Decisions
<1> QED
  BY <1>4, <1>7

\* Who enters an operation has not decided.
LEMMA EnteringKeepsDecisions ==
  ASSUME RInv, NEW c \in Callers, NEW u, NEW i, NEW f, NEW T,
         \/ CallUpsert(c, u, i, f) \/ CallSync(c, u) \/ CallRemove(c, u)
         \/ CallTasks(c, "assign", u, T) \/ CallTasks(c, "unassign", u, T)
  PROVE  /\ \A b \in Callers \ {c} : UNCHANGED <<pc[b], op[b], typ[b], ds[b]>>
         /\ pc[c] = "idle" /\ pc'[c] \in {"getlock", "request"} /\ entry' = entry
         /\ CallUpsert(c, u, i, f) => /\ op'[c] = "upsert" /\ typ'[c] = u
                                      /\ ds'[c].cfg = f
         /\ CallSync(c, u) => op'[c] = "sync"
         /\ CallRemove(c, u) => op'[c] = "remove" /\ typ'[c] = u
         /\ CallTasks(c, "assign", u, T) => op'[c] = "assign"
         /\ CallTasks(c, "unassign", u, T) => op'[c] = "unassign"
<1> USE DEF RInv, IInv, Shape, Goto, Call, mapVars
<1>1. CASE CallUpsert(c, u, i, f)
  BY <1>1 DEF CallUpsert, CallSync, CallRemove, CallTasks
<1>2. CASE CallSync(c, u) \/ CallRemove(c, u)
  BY <1>2 DEF CallUpsert, CallSync, CallRemove, CallTasks
<1>3. CASE CallTasks(c, "assign", u, T) \/ CallTasks(c, "unassign", u, T)
  BY <1>3 DEF CallUpsert, CallSync, CallRemove, CallTasks
<1> QED
  BY <1>1, <1>2, <1>3

LEMMA HandlersKeepRounds ==
  ASSUME RInv, Rounds, Decisions, NEW h \in Handlers, NEW e \in inbox,
         HandleUpsert(h, e) \/ HandleTaskAssign(h, e)
  PROVE  Rounds' /\ Decisions'
<1> USE ReconcilerAssumption
<1>1. /\ inbox' = inbox \ {e} /\ UNCHANGED <<rpc, left, todo, resp, ctxDone, shut>>
      /\ h \in Callers /\ h # Rec
  BY DEF HandleUpsert, HandleTaskAssign, Handling, Handlers, recVars, ctlVars
<1>2. /\ \A b \in Callers \ {h} : UNCHANGED <<pc[b], op[b], typ[b], ds[b]>>
      /\ entry' = entry
      /\ \/ UNCHANGED <<pc, op, typ, ds>>
         \/ pc'[h] \in {"getlock", "request"} /\ op'[h] \in {"upsert", "assign"}
  <2>1. CASE HandleUpsert(h, e)
    BY <1>1, <2>1, EnteringKeepsDecisions DEF HandleUpsert
  <2>2. CASE HandleTaskAssign(h, e) /\ ~UNCHANGED vars
    BY <1>1, <2>2, EnteringKeepsDecisions DEF HandleTaskAssign
  <2>3. CASE UNCHANGED vars
    BY <2>3 DEF vars, mapVars, callVars
  <2> QED
    BY <2>1, <2>2, <2>3
<1>3. IsFiniteSet(inbox')
  BY <1>1, FS_Subset DEF Rounds
<1>4. UNCHANGED <<pc[Rec], op[Rec], typ[Rec], ds[Rec]>>
  BY <1>1, <1>2
<1>5. Rounds'
  BY <1>1, <1>3, <1>4 DEF Rounds
<1>6. Decisions'
  BY <1>1, <1>2 DEF Decisions
<1> QED
  BY <1>5, <1>6

LEMMA ReconcilerKeepsRounds ==
  ASSUME RInv, Rounds, Decisions, Reconciler
  PROVE  Rounds' /\ Decisions'
<1> USE ReconcilerAssumption DEF At, srvVars, ctlVars
<1>1. UNCHANGED <<inbox, ctxDone, shut>> /\ pc[Rec] = "idle"
  BY DEF Reconciler, Reconcile, ServerAnswers, ReconcileFails, AllRemovedNow, CompareTasks,
         AcquireTasks, Reconciled, ReconcilerStops, SyncNext, RemoveUnwanted, UpsertNext,
         RemoveTasks, AssignTasks
<1>2. CASE \/ Reconcile \/ ServerAnswers \/ ReconcileFails \/ AllRemovedNow
           \/ CompareTasks \/ AcquireTasks \/ Reconciled \/ ReconcilerStops
  <2>1. UNCHANGED vars
    BY <1>2
    DEF Reconcile, ServerAnswers, ReconcileFails, AllRemovedNow, CompareTasks, AcquireTasks,
        Reconciled, ReconcilerStops
  <2>2. UNCHANGED <<pc, op, typ, ds, entry>>
    BY <2>1 DEF vars, mapVars, callVars
  <2>3. Decisions'
    BY <1>1, <2>2 DEF Decisions
  <2>4. /\ rpc' \in {"wait", "sync", "stopped"} => todo' = {}
        /\ rpc' = "remove" => left' \cap todo' = {}
    <3>1. CASE ServerAnswers
      BY <3>1 DEF ServerAnswers
    <3>2. CASE Reconcile \/ ReconcileFails \/ AllRemovedNow \/ Reconciled \/ ReconcilerStops
      BY <3>2
      DEF Reconcile, ReconcileFails, AllRemovedNow, Reconciled, ReconcilerStops, Rounds
    <3>3. CASE CompareTasks \/ AcquireTasks
      BY <3>3 DEF CompareTasks, AcquireTasks
    <3> QED
      BY <1>2, <3>1, <3>2, <3>3
  <2> QED
    BY <1>1, <2>2, <2>3, <2>4 DEF Rounds, Deciding
<1>3. ASSUME NEW u \in Types, SyncNext(u)
      PROVE  Rounds' /\ Decisions'
  <2>1. CallSync(Rec, u) /\ UNCHANGED <<todo, resp, rpc>> /\ rpc = "sync"
    BY <1>3 DEF SyncNext
  <2>2. /\ \A b \in Callers \ {Rec} : UNCHANGED <<pc[b], op[b], typ[b], ds[b]>>
        /\ pc'[Rec] \in {"getlock", "request"} /\ entry' = entry /\ op'[Rec] = "sync"
    BY <2>1, EnteringKeepsDecisions
  <2> QED
    BY <1>1, <2>1, <2>2 DEF Rounds, Decisions
<1>4. ASSUME NEW u \in Types, RemoveUnwanted(u)
      PROVE  Rounds' /\ Decisions'
  <2>1. /\ CallRemove(Rec, u) /\ UNCHANGED <<todo, resp, rpc>>
        /\ rpc = "remove" /\ u \in left /\ left' = left \ {u}
    BY <1>4 DEF RemoveUnwanted
  <2>2. /\ \A b \in Callers \ {Rec} : UNCHANGED <<pc[b], op[b], typ[b], ds[b]>>
        /\ pc'[Rec] \in {"getlock", "request"} /\ entry' = entry
        /\ op'[Rec] = "remove" /\ typ'[Rec] = u
    BY <2>1, EnteringKeepsDecisions
  <2> QED
    BY <1>1, <2>1, <2>2 DEF Rounds, Decisions
<1>5. ASSUME NEW u \in Types, UpsertNext(u)
      PROVE  Rounds' /\ Decisions'
  <2>1. /\ CallUpsert(Rec, u, resp[u].id, resp[u].cfg)
        /\ UNCHANGED <<left, resp>>
        /\ rpc = "upsert" /\ rpc' = "compare" /\ u \in todo /\ todo' = todo \ {u}
    BY <1>5 DEF UpsertNext
  <2>2. /\ \A b \in Callers \ {Rec} : UNCHANGED <<pc[b], op[b], typ[b], ds[b]>>
        /\ pc'[Rec] \in {"getlock", "request"} /\ entry' = entry
        /\ op'[Rec] = "upsert" /\ typ'[Rec] = u /\ ds'[Rec].cfg = resp[u].cfg
    BY <2>1 DEF CallUpsert, Call, Goto, mapVars, RInv, IInv, Shape
  <2>3. resp[u] # Null
    BY <2>1 DEF RInv, Reconciling
  <2> QED
    BY <1>1, <2>1, <2>2, <2>3 DEF Rounds, Decisions
<1>6. CASE RemoveTasks \/ AssignTasks
  <2>1. UNCHANGED <<todo, left, resp>> /\ rpc' \in {"acquire", "upsert"}
    BY <1>6 DEF RemoveTasks, AssignTasks
  <2>2. \/ UNCHANGED vars
        \/ \E T : CallTasks(Rec, "assign", cur, T) \/ CallTasks(Rec, "unassign", cur, T)
    BY <1>6 DEF RemoveTasks, AssignTasks, TaskRequest
  <2>3. /\ \A b \in Callers \ {Rec} : UNCHANGED <<pc[b], op[b], typ[b], ds[b]>>
        /\ entry' = entry
        /\ \/ pc'[Rec] = "idle"
           \/ pc'[Rec] \in {"getlock", "request"} /\ op'[Rec] \in {"assign", "unassign"}
    <3>1. CASE UNCHANGED vars
      BY <1>1, <3>1 DEF vars, mapVars, callVars
    <3>2. CASE \E T : CallTasks(Rec, "assign", cur, T) \/ CallTasks(Rec, "unassign", cur, T)
      BY <3>2, EnteringKeepsDecisions
    <3> QED
      BY <2>2, <3>1, <3>2
  <2> QED
    BY <1>1, <2>1, <2>3 DEF Rounds, Decisions, Deciding
<1> QED
  BY <1>2, <1>3, <1>4, <1>5, <1>6 DEF Reconciler

LEMMA OthersKeepRounds ==
  ASSUME RInv, Rounds, Decisions,
         Change \/ Signal \/ Shutdown \/ ProcessDies \/ UNCHANGED rvars
  PROVE  Rounds' /\ Decisions'
<1> USE ReconcilerAssumption
<1>1. CASE Change
  <2>1. UNCHANGED <<pc, op, typ, ds, entry, recVars, ctlVars>>
    BY <1>1 DEF Change, vars, mapVars, callVars
  <2>2. IsFiniteSet(inbox')
    <3>1. PICK t \in Types, w \in Wishes \cup {Null}, K \in SUBSET {"upsert", "assign"} :
            inbox' = inbox \cup {[kind |-> k, type |-> t, wish |-> w] :
                                   k \in IF w = Null THEN {} ELSE K}
      BY <1>1 DEF Change
    <3> DEFINE E == {[kind |-> k, type |-> t, wish |-> w] : k \in {"upsert", "assign"}}
    <3>3. IsFiniteSet(E)
      <4> DEFINE e1 == [kind |-> "upsert", type |-> t, wish |-> w]
                 e2 == [kind |-> "assign", type |-> t, wish |-> w]
      <4>1. E = {e1} \cup {e2}
        OBVIOUS
      <4> HIDE DEF E, e1, e2
      <4>2. IsFiniteSet({e1}) /\ IsFiniteSet({e2})
        BY FS_Singleton
      <4>3. IsFiniteSet({e1} \cup {e2})
        BY <4>2, FS_Union
      <4> QED
        BY <4>1, <4>3
    <3>4. inbox' \subseteq inbox \cup E
      BY <3>1
    <3> HIDE DEF E
    <3>5. IsFiniteSet(inbox \cup E)
      BY <3>3, FS_Union DEF Rounds
    <3> QED
      BY <3>4, <3>5, FS_Subset
  <2> QED
    BY <2>1, <2>2 DEF Rounds, Decisions, recVars, ctlVars
<1>2. CASE Signal
  BY <1>2 DEF Signal, Rounds, Decisions, vars, mapVars, callVars, recVars, srvVars
<1>3. CASE ReconcilerHasStopped \/ ShutdownReturns \/ UNCHANGED rvars
  BY <1>3
  DEF ReconcilerHasStopped, ShutdownReturns, Rounds, Decisions, rvars, vars, mapVars,
      callVars, recVars, srvVars, ctlVars
<1>4. CASE PollerHasStopped
  <2>1. /\ \A b \in Callers \ {Main} : UNCHANGED <<pc[b], op[b]>>
        /\ UNCHANGED <<typ, ds, entry, inbox, recVars, ctxDone>>
        /\ op'[Main] = "removeall" /\ pc'[Main] = "lockall" /\ shut = "poller"
    BY <1>4
    DEF PollerHasStopped, CallRemoveAll, Goto, mapVars, srvVars, RInv, IInv, Shape
  <2> QED
    BY <2>1 DEF Rounds, Decisions, recVars
<1>5. CASE ProcessDies
  BY <1>5
  DEF ProcessDies, Crash, Rounds, Decisions, mapVars, callVars, recVars, srvVars, ctlVars
<1> QED
  BY <1>1, <1>2, <1>3, <1>4, <1>5 DEF Shutdown

LEMMA RoundsInductive ==
  ASSUME RInv, Rounds, Decisions, [RNext]_rvars
  PROVE  Rounds' /\ Decisions'
BY ServeKeepsRounds, HandlersKeepRounds, ReconcilerKeepsRounds, OthersKeepRounds DEF RNext

LEMMA AmortisedInductive ==
  ASSUME RInv, RInv', Rounds, Rounds', Decisions, Amortised, [RNext]_rvars
  PROVE  Amortised'
BY ServeCounted, HandlersCounted, ReconcilerCounted, ChangeCounted, SignalCounted,
   ShutdownCounted, CrashCounted DEF RNext

LEMMA InitAmortised == RInit => Rounds /\ Decisions /\ Amortised
<1> SUFFICES ASSUME RInit PROVE Rounds /\ Decisions /\ Amortised
  OBVIOUS
<1>1. Rounds /\ Decisions
  BY ReconcilerAssumption, FS_EmptySet DEF RInit, Init, Rounds, Decisions, Deciding
<1>2. Upserts = {} /\ Upserting = {}
  BY DEF RInit, Init, Upserts, Upserting, Deciding, Handlers
<1>3. \A t \in Types : /\ ~Decided(t) /\ ~Lost(t) /\ ~FromAnswer(t) /\ ~FromWish(t)
                       /\ ~CutShort(t)
  <2>1. SUFFICES ASSUME NEW t \in Types
                 PROVE  /\ ~Decided(t) /\ ~Lost(t) /\ ~FromAnswer(t) /\ ~FromWish(t)
                        /\ ~CutShort(t)
    OBVIOUS
  <2>2. Object(t) = Null /\ Stage(t) = "store" /\ want[t] = Null /\ ~ctxDone
    BY DEF RInit, Init, Object, Stage, Replaced
  <2>3. ~Asked(t) /\ ~Unwanted(t)
    BY ReconcilerAssumption DEF RInit, Init, Asked, Unwanted, Deciding
  <2> QED
    BY <2>2, <2>3
    DEF Decided, Lost, FromAnswer, FromWish, CutShort, Planned, Differs
<1>4. TypesOwe = 0
  <2>1. /\ {t \in Types : Decided(t)} = {} /\ {t \in Types : Lost(t)} = {}
        /\ {t \in Types : FromAnswer(t)} = {} /\ {t \in Types : FromWish(t)} = {}
        /\ {t \in Types : CutShort(t)} = {}
    BY <1>3
  <2> QED
    BY <2>1, FS_EmptySet DEF TypesOwe
<1>5. Amortised
  BY <1>2, <1>4, FS_EmptySet DEF RInit, Init, Amortised, Reasons
<1> QED
  BY <1>1, <1>5

\* A process is started only for a reason: three starts for a change of what the server
\* wants, one for a failure or a crash, and one for a type whose request the cancelled
\* context cuts short.  However often it is reconciled, a daemon set that runs as it
\* should is not started again.
THEOREM NoChurnHolds == RSpec => []NoChurn
<1>1. RInv /\ Rounds /\ Decisions /\ Amortised /\ RInv' /\ [RNext]_rvars
        => Rounds' /\ Decisions' /\ Amortised'
  BY RoundsInductive, AmortisedInductive
<1>2. RInv /\ Rounds /\ Amortised => NoChurn
  <2>1. SUFFICES ASSUME RInv, Rounds, Amortised
                 PROVE  NoChurn
    OBVIOUS
  <2>2. TypesOwe \in Nat
    <3> DEFINE S1 == {t \in Types : Decided(t)}     S2 == {t \in Types : Lost(t)}
               S3 == {t \in Types : FromAnswer(t)}  S4 == {t \in Types : FromWish(t)}
               S5 == {t \in Types : CutShort(t)}
    <3>1. TypesOwe = Cardinality(S1) + Cardinality(S2) + Cardinality(S3) + Cardinality(S4)
                     + Cardinality(S5)
      BY DEF TypesOwe
    <3>2. /\ S1 \in SUBSET Types /\ S2 \in SUBSET Types /\ S3 \in SUBSET Types
          /\ S4 \in SUBSET Types /\ S5 \in SUBSET Types
      OBVIOUS
    <3> HIDE DEF S1, S2, S3, S4, S5
    <3>3. /\ Cardinality(S1) \in Nat /\ Cardinality(S2) \in Nat /\ Cardinality(S3) \in Nat
          /\ Cardinality(S4) \in Nat /\ Cardinality(S5) \in Nat
      BY <3>2, SomeTypes
    <3> QED
      BY <3>3, <3>1
  <2>3. /\ starts \in Nat /\ Cardinality(Upserts) \in Nat /\ Cardinality(Upserting) \in Nat
    BY <2>1, Numbers
  <2>4. Reasons \in Nat
    BY <2>1, <2>2, DebtIsNumber
  <2> DEFINE s == starts   o == TypesOwe   u == Cardinality(Upserts)
             n == Cardinality(Upserting)   r == Reasons
  <2>5. s <= r
    <3>1. s \in Nat /\ o \in Nat /\ u \in Nat /\ n \in Nat /\ r \in Nat
      BY <2>2, <2>3, <2>4
    <3>2. s + 2 * u + 2 * n + o <= r
      BY <2>1 DEF Amortised
    <3> HIDE DEF s, o, u, n, r
    <3> QED
      BY <3>1, <3>2
  <2> QED
    BY <2>5 DEF NoChurn, Reasons
<1> QED
  BY <1>1, <1>2, InitAmortised, RInvHolds, PTL DEF RSpec
=============================================================================
