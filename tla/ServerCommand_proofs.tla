------------------------ MODULE ServerCommand_proofs ------------------------
(***************************************************************************)
(* Proofs about ServerCommand, for every number of workers and tasks, with *)
(* and without a VM pool.                                                  *)
(***************************************************************************)
EXTENDS ServerCommand, TLAPS

Early == {"wire", "pool", "trap", "register", "start"}
Late == {"unregister", "stop", "cleanup", "exited"}

\* The errgroup is started once, and what it has started tells where it is.
Begun ==
  /\ main \in Early => started = {}
  /\ poller = "off" <=> "poller" \notin started
  /\ beating => "heartbeat" \in started
  /\ busy \in Nat /\ underway \in Nat

\* The workers have no task before the poller starts and after it is done; main
\* goes on to Unregister only then.
Idle ==
  /\ poller \in {"off", "done"} => busy = 0
  /\ main \in Late => poller \in {"off", "done"}

\* An HTTP server that is down has waited for the context.
ServerDown ==
  /\ http = "down" => ctxDone
  /\ main \in Late /\ started # {} => http \in {"down", "refused"}

\* The inductive invariant.
IInv == Begun /\ Idle /\ ServerDown

LEMMA MainKeepsIInv == IInv /\ Main => IInv'
<1> SUFFICES ASSUME IInv, Main PROVE IInv'
  OBVIOUS
<1> USE DEF IInv, Begun, Idle, ServerDown, Early, Late, Goto, sigVars, pollVars, outside
<1>1. CASE Wire \/ SetupPool \/ Trap \/ Register \/ Group
  BY <1>1 DEF Wire, SetupPool, Trap, Register, Group
<1>2. ASSUME NEW x \in Processes, Begin(x)
      PROVE  IInv'
  BY <1>2 DEF Begin
<1>3. CASE AllReturned
  BY <1>3 DEF AllReturned, Processes
<1>4. CASE Unregister \/ StopTrap \/ Cleanup
  BY <1>4 DEF Unregister, StopTrap, Cleanup
<1> QED
  BY <1>1, <1>2, <1>3, <1>4 DEF Main

LEMMA ProcessKeepsIInv ==
  IInv /\ (Process \/ TaskBegins \/ DaemonStarts \/ Beat \/ Arrives) => IInv'
<1> SUFFICES ASSUME IInv, Process \/ TaskBegins \/ DaemonStarts \/ Beat \/ Arrives
             PROVE  IInv'
  OBVIOUS
<1> USE DEF IInv, Begun, Idle, ServerDown, Early, Late, sigVars, pollVars, outside
<1>1. CASE PollerEnds \/ TaskEnds \/ PollerDone
  BY <1>1 DEF PollerEnds, TaskEnds, PollerDone
<1>2. CASE RecStops \/ BeatStops \/ HttpStops \/ PoolCleaned
  BY <1>2 DEF RecStops, BeatStops, HttpStops, PoolCleaned
<1>3. CASE TaskBegins
  BY <1>3 DEF TaskBegins
<1>4. CASE DaemonStarts
  BY <1>4 DEF DaemonStarts
<1>5. CASE Beat \/ Arrives
  <2>1. underway' \in Nat
    BY <1>5 DEF Beat, Arrives
  <2> QED
    BY <1>5, <2>1 DEF Beat, Arrives
<1> QED
  BY <1>1, <1>2, <1>3, <1>4, <1>5 DEF Process

LEMMA SignalKeepsIInv == IInv /\ (Signal \/ CancelCtx \/ Watcher) => IInv'
BY DEF IInv, Begun, Idle, ServerDown, Signal, CancelCtx, Watcher, Watch, TakesSignal,
       TakesDone, StopReconciler, StopPoller, RemoveAll, WatcherCancels, pollVars,
       outside

LEMMA Inductive == Spec => []IInv
<1>1. Init => IInv
  <2> SUFFICES ASSUME Init PROVE IInv
    OBVIOUS
  <2>1. ~beating
    BY Zenon DEF Init
  <2> QED
    BY <2>1 DEF Init, IInv, Begun, Idle, ServerDown, Early, Late
<1>2. IInv /\ [Next]_vars => IInv'
  <2>1. ASSUME IInv, UNCHANGED vars PROVE IInv'
    BY <2>1 DEF IInv, Begun, Idle, ServerDown, vars, sigVars, pollVars, outside
  <2> QED
    BY <2>1, MainKeepsIInv, ProcessKeepsIInv, SignalKeepsIInv DEF Next, Exited
<1> QED
  BY <1>1, <1>2, PTL DEF Spec

\* The runner unregisters when no task is in progress.
THEOREM UnregistersIdleHolds == Spec => []UnregistersIdle
<1>1. IInv => UnregistersIdle
  BY DEF IInv, Idle, UnregistersIdle, Late
<1> QED
  BY <1>1, Inductive, PTL

\* After Unregister the manager takes the runner for being back only because of a request
\* that was on its way by then, and once for each of these: no heartbeat is begun, unless
\* the HTTP server refused to start.
THEOREM BackOnlyByLateRequestsHolds == Spec => BackOnlyByLateRequests
<1>1. IInv /\ [Next]_vars =>
        [/\ main \in {"unregister", "stop", "cleanup", "exited"}
         /\ http # "refused"
         => /\ underway' <= underway
            /\ (told = "gone" /\ told' # "gone") => underway' < underway]_vars
  <2> SUFFICES ASSUME IInv, Next, main \in Late, http # "refused"
               PROVE  /\ underway' <= underway
                      /\ (told = "gone" /\ told' # "gone") => underway' < underway
    BY DEF Late
  <2>1. underway \in Nat
    BY DEF IInv, Begun
  <2>2. CASE Main
    <3>1. UNCHANGED underway /\ (told = "gone" => told' = "gone")
      BY <2>2 DEF Main, Wire, SetupPool, Trap, Register, Group, Begin, AllReturned,
                  Unregister, StopTrap, Cleanup, outside, Late
    <3> QED
      BY <2>1, <3>1
  <2>3. CASE Beat
    <3>1. started # {} /\ ~ctxDone
      BY <2>3 DEF Beat, IInv, Begun
    <3> QED
      BY <3>1 DEF IInv, ServerDown
  <2>4. CASE Arrives
    BY <2>1, <2>4 DEF Arrives
  <2>5. CASE Process \/ TaskBegins \/ DaemonStarts
    <3>1. UNCHANGED <<underway, told>>
      BY <2>5 DEF Process, PollerEnds, TaskEnds, PollerDone, RecStops, BeatStops,
                  HttpStops, PoolCleaned, TaskBegins, DaemonStarts, outside
    <3> QED
      BY <2>1, <3>1
  <2>6. CASE Signal \/ CancelCtx \/ Watcher \/ Exited
    <3>1. UNCHANGED <<underway, told>>
      BY <2>6 DEF Signal, CancelCtx, Watcher, Watch, TakesSignal, TakesDone,
                  StopReconciler, StopPoller, RemoveAll, WatcherCancels, Exited, vars,
                  outside
    <3> QED
      BY <2>1, <3>1
  <2> QED
    BY <2>2, <2>3, <2>4, <2>5, <2>6 DEF Next
<1> QED
  BY <1>1, Inductive, PTL DEF Spec, BackOnlyByLateRequests

\* There is a pool only between its set-up and the deferred clean-up, which no way
\* out of run that comes after the set-up passes by.
PoolBetween ==
  /\ main \in {"wire", "pool"} => pool \in {"none", "configured"}
  /\ main = "exited" => pool # "up"

\* No way out of run leaves a VM pool behind.
THEOREM PoolLeftCleanHolds == Spec => []PoolLeftClean
<1>1. Init => PoolBetween
  BY DEF Init, PoolBetween
<1>2. PoolBetween /\ [Next]_vars => PoolBetween'
  <2> SUFFICES ASSUME PoolBetween, [Next]_vars PROVE PoolBetween'
    OBVIOUS
  <2> USE DEF PoolBetween, Goto
  <2>1. CASE Main
    BY <2>1 DEF Main, Wire, SetupPool, Trap, Register, Group, Begin, AllReturned,
                Unregister, StopTrap, Cleanup, UsesPool
  <2>2. CASE Process \/ TaskBegins \/ DaemonStarts \/ Beat \/ Arrives
    BY <2>2 DEF Process, PollerEnds, TaskEnds, PollerDone, RecStops, BeatStops,
                HttpStops, PoolCleaned, TaskBegins, DaemonStarts, Beat, Arrives
  <2>3. CASE Signal \/ CancelCtx \/ Watcher
    BY <2>3 DEF Signal, CancelCtx, Watcher, Watch, TakesSignal, TakesDone,
                StopReconciler, StopPoller, RemoveAll, WatcherCancels
  <2>4. CASE UNCHANGED vars
    BY <2>4 DEF vars
  <2> QED
    BY <2>1, <2>2, <2>3, <2>4 DEF Next, Exited
<1>3. PoolBetween => PoolLeftClean
  BY DEF PoolBetween, PoolLeftClean
<1> QED
  BY <1>1, <1>2, <1>3, PTL DEF Spec

-----------------------------------------------------------------------------
(* Types, in three parts: places, flags and counters.                        *)

Places ==
  /\ main \in {"wire", "pool", "trap", "register", "start", "wait", "unregister",
               "stop", "cleanup", "exited"}
  /\ s \in {"untrapped", "empty", "signal", "stopped"}
  /\ watcher \in {"off", "select", "stoprec", "waitrec", "waitpoller", "cancel",
                  "returned", "unexpected"}
  /\ rec \in {"off", "on", "stopping", "stopped"}
  /\ poller \in {"off", "polling", "ended", "done"}
  /\ http \in {"off", "up", "broken", "down", "refused"}
  /\ pool \in {"none", "configured", "up", "cleaned"}
  /\ told \in {"nothing", "here", "gone"}
  /\ started \subseteq Processes

Flags == {ctxDone, notified, signalled, stopReq, beating, daemons} \subseteq BOOLEAN

Counters ==
  /\ busy \in 0..MaxBusy /\ begun \in busy..MaxTasks
  /\ underway \in 0..MaxUnderway

LEMMA PlacesInductive == Places /\ [Next]_vars => Places'
<1> SUFFICES ASSUME Places, [Next]_vars PROVE Places'
  OBVIOUS
<1> USE DEF Places, Processes, AllProcesses, UsesPool, Goto, sigVars, pollVars, outside
<1>1. CASE Wire \/ SetupPool \/ Trap \/ Register \/ Group
  BY <1>1 DEF Wire, SetupPool, Trap, Register, Group
<1>2. ASSUME NEW x \in Processes, Begin(x)
      PROVE  Places'
  BY <1>2 DEF Begin
<1>3. CASE AllReturned \/ Unregister \/ StopTrap \/ Cleanup
  <2>1. CASE AllReturned \/ Unregister \/ StopTrap
    BY <2>1 DEF AllReturned, Unregister, StopTrap
  <2>2. CASE Cleanup
    <3>1. pool' \in {"none", "cleaned"} /\ (pool' = "none" <=> pool = "none")
      BY <2>2 DEF Cleanup
    <3> QED
      BY <2>2, <3>1 DEF Cleanup
  <2> QED
    BY <1>3, <2>1, <2>2
<1>4. CASE Process \/ TaskBegins \/ DaemonStarts \/ Beat \/ Arrives
  BY <1>4 DEF Process, PollerEnds, TaskEnds, PollerDone, RecStops, BeatStops, HttpStops,
              PoolCleaned, TaskBegins, DaemonStarts, Beat, Arrives
<1>5. CASE Signal \/ CancelCtx \/ Watcher
  BY <1>5 DEF Signal, CancelCtx, Watcher, Watch, TakesSignal, TakesDone, StopReconciler,
              StopPoller, RemoveAll, WatcherCancels
<1>6. CASE UNCHANGED vars
  BY <1>6 DEF vars
<1> QED
  BY <1>1, <1>2, <1>3, <1>4, <1>5, <1>6 DEF Next, Main, Exited

LEMMA FlagsInductive == Flags /\ [Next]_vars => Flags'
<1> SUFFICES ASSUME Flags, [Next]_vars PROVE Flags'
  OBVIOUS
<1> USE DEF Flags, sigVars, pollVars, outside
<1>1. CASE Wire \/ SetupPool \/ Trap \/ Register \/ Group
  BY <1>1 DEF Wire, SetupPool, Trap, Register, Group
<1>2. ASSUME NEW x \in Processes, Begin(x)
      PROVE  Flags'
  <2>1. beating' \in BOOLEAN
    BY <1>2, Zenon DEF Begin
  <2> QED
    BY <1>2, <2>1 DEF Begin
<1>3. CASE AllReturned \/ Unregister \/ StopTrap \/ Cleanup
  BY <1>3 DEF AllReturned, Unregister, StopTrap, Cleanup
<1>4. CASE Process \/ TaskBegins \/ DaemonStarts \/ Beat \/ Arrives
  BY <1>4 DEF Process, PollerEnds, TaskEnds, PollerDone, RecStops, BeatStops, HttpStops,
              PoolCleaned, TaskBegins, DaemonStarts, Beat, Arrives
<1>5. CASE Signal \/ CancelCtx \/ Watcher
  BY <1>5 DEF Signal, CancelCtx, Watcher, Watch, TakesSignal, TakesDone, StopReconciler,
              StopPoller, RemoveAll, WatcherCancels
<1>6. CASE UNCHANGED vars
  BY <1>6 DEF vars
<1> QED
  BY <1>1, <1>2, <1>3, <1>4, <1>5, <1>6 DEF Next, Main, Exited

LEMMA CountersInductive == Counters /\ [Next]_vars => Counters'
<1> SUFFICES ASSUME Counters, [Next]_vars PROVE Counters'
  OBVIOUS
<1> USE ServerAssumption DEF Counters
<1>1. CASE TaskBegins
  BY <1>1, SMT DEF TaskBegins, outside
<1>2. CASE TaskEnds
  BY <1>2, SMT DEF TaskEnds, outside
<1>3. CASE UNCHANGED <<busy, begun>> /\ underway' \in 0..MaxUnderway
  BY <1>3
<1>4. CASE Register \/ Beat \/ Arrives
  BY <1>4, SMT DEF Register, Beat, Arrives, pollVars
<1>5. Main => Register \/ UNCHANGED <<busy, begun, underway>>
  BY DEF Main, Wire, SetupPool, Trap, Group, Begin, AllReturned, Unregister, StopTrap,
         Cleanup, pollVars, outside
<1>6. Process => TaskEnds \/ UNCHANGED <<busy, begun, underway>>
  BY DEF Process, PollerEnds, PollerDone, RecStops, BeatStops, HttpStops, PoolCleaned,
         pollVars, outside
<1>7. DaemonStarts \/ Signal \/ CancelCtx \/ Watcher => UNCHANGED <<busy, begun, underway>>
  BY DEF DaemonStarts, Signal, CancelCtx, Watcher, Watch, TakesSignal, TakesDone,
         StopReconciler, StopPoller, RemoveAll, WatcherCancels, pollVars, outside
<1>8. UNCHANGED vars => UNCHANGED <<busy, begun, underway>>
  BY DEF vars, pollVars, outside
<1> QED
  BY <1>1, <1>2, <1>3, <1>4, <1>5, <1>6, <1>7, <1>8 DEF Next, Exited

\* The program keeps its types, for every number of workers and tasks: no more tasks are in
\* progress than there are workers (server_command.go:37).
THEOREM TypeOKHolds == Spec => []TypeOK
<1>1. Init => Places /\ Flags /\ Counters
  <2>1. Init => Places
    BY DEF Init, Places
  <2>2. Init => Flags
    BY DEF Init, Flags
  <2>3. Init => Counters
    BY ServerAssumption, SMT DEF Init, Counters
  <2> QED
    BY <2>1, <2>2, <2>3
<1>2. Places /\ Flags /\ Counters => TypeOK
  BY DEF Places, Flags, Counters, TypeOK
<1> QED
  BY <1>1, <1>2, PlacesInductive, FlagsInductive, CountersInductive, PTL DEF Spec
=============================================================================
