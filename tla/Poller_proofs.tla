--------------------------- MODULE Poller_proofs ---------------------------
(***************************************************************************)
(* Proofs about Poller, for every number of workers, every set of task ids *)
(* and all bounds.                                                         *)
(***************************************************************************)
EXTENDS Poller, FiniteSetTheorems, SequenceTheorems, TLAPS

\* A task id occurs a natural number of times in a sequence of events.
LEMMA CountType ==
  ASSUME NEW t, NEW s \in Seq(TaskIDs)
  PROVE  Count(t, s) \in Nat
<1>1. /\ IsFiniteSet(1..Len(s))
      /\ {i \in DOMAIN s : s[i] = t} \subseteq 1..Len(s)
  BY FS_Interval
<1>2. IsFiniteSet({i \in DOMAIN s : s[i] = t})
  BY <1>1, FS_Subset
<1> QED
  BY <1>2, FS_CardinalityType DEF Count

\* The capacity of the channel is a positive number.
LEMMA CapacityType == n \in Nat /\ n > 0
  BY PollerAssumption, FS_CardinalityType, FS_EmptySet DEF n

-----------------------------------------------------------------------------
(* Type correctness, action by action. *)

\* What becomes of the variables of a worker when it is finished with an event.
LEMMA DisposeType ==
  ASSUME TypeOK, NEW w \in Workers, cur[w] \in TaskIDs, Dispose(w)
  PROVE  /\ disposed' \in [TaskIDs -> Nat]
         /\ cur' \in [Workers -> TaskIDs \cup {NoTask}]
         /\ pc' \in [Workers -> PCs]
         /\ \A v \in Workers : cur'[v] = NoTask <=> pc'[v] \in {"idle", "exited"}
<1> USE DEF TypeOK, WorkerType, HistType
<1>1. disposed' \in [TaskIDs -> Nat]
  BY DEF Dispose
<1>2. cur' \in [Workers -> TaskIDs \cup {NoTask}] /\ pc' \in [Workers -> PCs]
  BY DEF Dispose, PCs
<1>3. \A v \in Workers : cur'[v] = NoTask <=> pc'[v] \in {"idle", "exited"}
  BY DEF Dispose
<1> QED
  BY <1>1, <1>2, <1>3

\* The steps of a worker that change nothing about it but its place.
LEMMA MoveType ==
  ASSUME TypeOK, NEW w \in Workers, NEW next \in PCs \ {"idle", "exited"},
         pc[w] \notin {"idle", "exited"}, pc' = [pc EXCEPT ![w] = next],
         UNCHANGED cur
  PROVE  /\ pc' \in [Workers -> PCs]
         /\ cur' \in [Workers -> TaskIDs \cup {NoTask}]
         /\ \A v \in Workers : cur'[v] = NoTask <=> pc'[v] \in {"idle", "exited"}
<1> USE DEF TypeOK, WorkerType
<1>1. pc' \in [Workers -> PCs]
  OBVIOUS
<1>2. \A v \in Workers : cur'[v] = NoTask <=> pc'[v] \in {"idle", "exited"}
  OBVIOUS
<1> QED
  BY <1>1, <1>2

LEMMA ProducerType == TypeOK /\ Producer => TypeOK'
<1> SUFFICES ASSUME TypeOK, Producer PROVE TypeOK'
  OBVIOUS
<1>1. UNCHANGED <<workerVars, ctlVars>>
  BY DEF Producer, ProdReset, TimerFires, ProdSelectCtxDone, ProdSelectStop,
         ProdDrain, ProdSelectTick, ProdFetch, ProdEnqueue,
         ProdEnqueueCtxDone, ProdBatchSent, ProdClose
<1>2. WorkerType' /\ CtlType'
  BY <1>1 DEF TypeOK, WorkerType, CtlType, workerVars, ctlVars
<1>3. CASE ProdFetch
  <2>1. PICK b \in Answers :
          /\ batch' = b
          /\ polled' = [t \in TaskIDs |-> polled[t] + Count(t, b)]
    BY <1>3 DEF ProdFetch
  <2>2. b \in Seq(TaskIDs)
    <3>1. PICK k \in {j \in 0..MaxBatch : SumOver(polled, TaskIDs) + j <= MaxEvents} :
            b \in [1..k -> TaskIDs]
      BY <2>1 DEF Answers
    <3>2. k \in Nat
      OBVIOUS
    <3> QED
      BY <3>1, <3>2
  <2>3. polled' \in [TaskIDs -> Nat]
    BY <2>1, <2>2, CountType DEF TypeOK, HistType
  <2>4. ProdType'
    BY <1>3, <2>1, <2>2 DEF ProdFetch, TypeOK, ProdType, ProdStates
  <2>5. ChanType' /\ HistType'
    BY <1>3, <2>3 DEF ProdFetch, TypeOK, ChanType, HistType, chanVars
  <2> QED
    BY <1>2, <2>4, <2>5 DEF TypeOK
<1>4. CASE ProdEnqueue
  <2>1. ChanType'
    <3>1. events' = Append(events, Head(batch)) /\ Head(batch) \in TaskIDs
      BY <1>4 DEF ProdEnqueue, TypeOK, ProdType
    <3>2. events' \in Seq(TaskIDs) /\ Len(events') = Len(events) + 1
      BY <3>1 DEF TypeOK, ChanType
    <3>3. Len(events') <= n
      BY <1>4, <3>2, CapacityType DEF ProdEnqueue, TypeOK, ChanType
    <3> QED
      BY <1>4, <3>2, <3>3 DEF ProdEnqueue, TypeOK, ChanType
  <2>2. ProdType'
    BY <1>4 DEF ProdEnqueue, TypeOK, ProdType
  <2>3. HistType'
    BY <1>4 DEF ProdEnqueue, TypeOK, HistType, histVars
  <2> QED
    BY <1>2, <2>1, <2>2, <2>3 DEF TypeOK
<1>5. CASE ProdClose
  <2>1. ProdType' /\ ChanType'
    BY <1>5 DEF ProdClose, TypeOK, ProdType, ChanType, ProdStates
  <2>2. HistType'
    BY <1>5 DEF ProdClose, TypeOK, HistType, histVars
  <2> QED
    BY <1>2, <2>1, <2>2 DEF TypeOK
<1>6. CASE \/ ProdReset \/ TimerFires \/ ProdSelectCtxDone \/ ProdSelectStop
           \/ ProdDrain \/ ProdSelectTick \/ ProdEnqueueCtxDone \/ ProdBatchSent
  <2>1. ProdType'
    BY <1>6 DEF ProdReset, TimerFires, ProdSelectCtxDone, ProdSelectStop,
                ProdDrain, ProdSelectTick, ProdEnqueueCtxDone, ProdBatchSent,
                TypeOK, ProdType, ProdStates
  <2>2. UNCHANGED <<chanVars, histVars>>
    BY <1>6 DEF ProdReset, TimerFires, ProdSelectCtxDone, ProdSelectStop,
                ProdDrain, ProdSelectTick, ProdEnqueueCtxDone, ProdBatchSent
  <2>3. ChanType' /\ HistType'
    BY <2>2 DEF TypeOK, ChanType, HistType, chanVars, histVars
  <2> QED
    BY <1>2, <2>1, <2>3 DEF TypeOK
<1> QED
  BY <1>3, <1>4, <1>5, <1>6 DEF Producer

LEMMA WorkerStepType ==
  ASSUME TypeOK, NEW w \in Workers, Worker(w)
  PROVE  TypeOK'
<1>1. UNCHANGED <<prodVars, ctlVars>>
  BY DEF Worker, Take, Duplicate, Claim, Acquire, BeginRequest, Handle,
         SendStatus, NoMoreRequests, Return, Exit
<1>2. ProdType' /\ CtlType'
  BY <1>1 DEF TypeOK, ProdType, CtlType, prodVars, ctlVars
<1>3. CASE Take(w)
  <2>1. events \in Seq(TaskIDs) /\ events # <<>> /\ events' = Tail(events)
    BY <1>3 DEF Take, TypeOK, ChanType
  <2>2. /\ Head(events) \in TaskIDs
        /\ events' \in Seq(TaskIDs) /\ Len(events') = Len(events) - 1
    BY <2>1
  <2>3. ChanType'
    BY <1>3, <2>2, CapacityType DEF Take, TypeOK, ChanType
  <2>4. WorkerType'
    BY <1>3, <2>2, PollerAssumption DEF Take, TypeOK, WorkerType, PCs
  <2>5. HistType'
    BY <1>3 DEF Take, TypeOK, HistType, histVars
  <2> QED
    BY <1>2, <2>3, <2>4, <2>5 DEF TypeOK
<1>4. CASE Duplicate(w)
  <2>1. cur[w] \in TaskIDs /\ Dispose(w)
    BY <1>4 DEF Duplicate, TypeOK, WorkerType
  <2>2. UNCHANGED <<chanVars, reqs, begun, m, running, polled, acquired>>
    BY <1>4 DEF Duplicate
  <2>3. WorkerType' /\ HistType'
    BY <2>1, <2>2, DisposeType DEF TypeOK, WorkerType, HistType
  <2>4. ChanType'
    BY <2>2 DEF TypeOK, ChanType, chanVars
  <2> QED
    BY <1>2, <2>3, <2>4 DEF TypeOK
<1>5. CASE Return(w)
  <2>1. cur[w] \in TaskIDs /\ Dispose(w)
    BY <1>5 DEF Return, TypeOK, WorkerType
  <2>2. running' \in Int /\ m' \in SUBSET TaskIDs
    BY <1>5 DEF Return, TypeOK, WorkerType
  <2>3. /\ begun' \in [Workers -> 0..MaxRequests]
        /\ reqs' \in [Workers -> 0..MaxRequests]
    BY <1>5, PollerAssumption DEF Return, TypeOK, WorkerType
  <2>4. UNCHANGED <<chanVars, polled, acquired>>
    BY <1>5 DEF Return
  <2>5. WorkerType' /\ HistType'
    BY <2>1, <2>2, <2>3, <2>4, DisposeType DEF TypeOK, WorkerType, HistType
  <2>6. ChanType'
    BY <2>4 DEF TypeOK, ChanType, chanVars
  <2> QED
    BY <1>2, <2>5, <2>6 DEF TypeOK
<1>6. CASE Acquire(w)
  <2>1. pc[w] = "acquire" /\ cur[w] \in TaskIDs
    BY <1>6 DEF Acquire, TypeOK, WorkerType
  <2>2. HistType'
    BY <1>6, <2>1 DEF Acquire, TypeOK, HistType
  <2>3. reqs' \in [Workers -> 0..MaxRequests]
    <3>1. CASE UNCHANGED reqs
      BY <3>1 DEF TypeOK, WorkerType
    <3>2. CASE \E k \in 0..MaxRequests : reqs' = [reqs EXCEPT ![w] = k]
      BY <3>2 DEF TypeOK, WorkerType
    <3> QED
      BY <1>6, <3>1, <3>2 DEF Acquire
  <2>4. \E next \in {"loop", "return"} : pc' = [pc EXCEPT ![w] = next]
    BY <1>6 DEF Acquire
  <2>5. UNCHANGED <<chanVars, cur, begun, m, running>>
    BY <1>6 DEF Acquire
  <2>6. WorkerType'
    BY <2>1, <2>3, <2>4, <2>5, MoveType DEF TypeOK, WorkerType, PCs
  <2>7. ChanType'
    BY <2>5 DEF TypeOK, ChanType, chanVars
  <2> QED
    BY <1>2, <2>2, <2>6, <2>7 DEF TypeOK
<1>7. CASE Claim(w) \/ BeginRequest(w) \/ Handle(w) \/ SendStatus(w) \/ NoMoreRequests(w)
  <2>1. UNCHANGED <<chanVars, cur, reqs, histVars>>
    BY <1>7 DEF Claim, BeginRequest, Handle, SendStatus, NoMoreRequests
  <2>2. /\ pc[w] \notin {"idle", "exited"}
        /\ \E next \in PCs \ {"idle", "exited"} : pc' = [pc EXCEPT ![w] = next]
    BY <1>7 DEF Claim, BeginRequest, Handle, SendStatus, NoMoreRequests, PCs
  <2>3. cur[w] \in TaskIDs
    BY <2>2 DEF TypeOK, WorkerType
  <2>4. m' \in SUBSET TaskIDs
    BY <1>7, <2>3 DEF Claim, BeginRequest, Handle, SendStatus, NoMoreRequests,
                      TypeOK, WorkerType
  <2>5. begun' \in [Workers -> 0..MaxRequests] /\ running' \in Int
    <3>1. CASE BeginRequest(w)
      BY <3>1, PollerAssumption DEF BeginRequest, TypeOK, WorkerType
    <3>2. CASE UNCHANGED <<begun, running>>
      BY <3>2 DEF TypeOK, WorkerType
    <3> QED
      BY <1>7, <3>1, <3>2 DEF Claim, Handle, SendStatus, NoMoreRequests
  <2>6. WorkerType'
    BY <2>1, <2>2, <2>4, <2>5, MoveType DEF TypeOK, WorkerType
  <2>7. ChanType' /\ HistType'
    BY <2>1 DEF TypeOK, ChanType, HistType, chanVars, histVars
  <2> QED
    BY <1>2, <2>6, <2>7 DEF TypeOK
<1>8. CASE Exit(w)
  <2>1. ChanType' /\ HistType'
    BY <1>8 DEF Exit, TypeOK, ChanType, HistType, chanVars, histVars
  <2>2. WorkerType'
    BY <1>8 DEF Exit, TypeOK, WorkerType, PCs
  <2> QED
    BY <1>2, <2>1, <2>2 DEF TypeOK
<1> QED
  BY <1>3, <1>4, <1>5, <1>6, <1>7, <1>8 DEF Worker

LEMMA TypeOKInductive == TypeOK /\ [Next]_vars => TypeOK'
<1> SUFFICES ASSUME TypeOK, [Next]_vars PROVE TypeOK'
  OBVIOUS
<1>1. CASE Producer
  BY <1>1, ProducerType
<1>2. ASSUME NEW w \in Workers, Worker(w) PROVE TypeOK'
  BY <1>2, WorkerStepType
<1>3. CASE AllDone \/ StopPollingForTasks \/ WaitForTasks \/ Cancel
  <2>1. UNCHANGED <<prodVars, chanVars, workerVars, histVars>>
    BY <1>3 DEF AllDone, StopPollingForTasks, WaitForTasks, Cancel
  <2>2. ProdType' /\ ChanType' /\ WorkerType' /\ HistType'
    BY <2>1 DEF TypeOK, ProdType, ChanType, WorkerType, HistType,
                prodVars, chanVars, workerVars, histVars
  <2>3. CtlType'
    BY <1>3 DEF AllDone, StopPollingForTasks, WaitForTasks, Cancel, TypeOK, CtlType
  <2> QED
    BY <2>2, <2>3 DEF TypeOK
<1>4. CASE UNCHANGED vars
  BY <1>4 DEF TypeOK, ProdType, ChanType, WorkerType, CtlType, HistType,
              vars, prodVars, chanVars, workerVars, ctlVars, histVars
<1> QED
  BY <1>1, <1>2, <1>3, <1>4 DEF Next, Terminated

\* Every variable keeps to its type; the channel never exceeds its capacity, and
\* a worker at the range statement holds no event.
THEOREM TypeCorrect == Spec => []TypeOK
<1>1. Init => TypeOK
  <2> SUFFICES ASSUME Init PROVE TypeOK
    OBVIOUS
  <2>1. ProdType
    <3>1. prod \in ProdStates /\ batch \in Seq(TaskIDs)
      BY DEF Init, ProdStates
    <3>2. timerOn \in BOOLEAN /\ tick \in BOOLEAN
      BY Zenon DEF Init
    <3> QED
      BY <3>1, <3>2 DEF ProdType
  <2>2. ChanType
    <3>1. events \in Seq(TaskIDs) /\ Len(events) <= n
      BY CapacityType DEF Init
    <3>2. closed \in BOOLEAN
      BY Zenon DEF Init
    <3> QED
      BY <3>1, <3>2 DEF ChanType
  <2>3. WorkerType
    BY PollerAssumption DEF Init, WorkerType, PCs
  <2>4. CtlType
    BY DEF Init, CtlType
  <2>5. HistType
    BY DEF Init, HistType
  <2> QED
    BY <2>1, <2>2, <2>3, <2>4, <2>5 DEF TypeOK
<1> QED
  BY <1>1, TypeOKInductive, PTL DEF Spec

-----------------------------------------------------------------------------
(* Exclusive processing.  Neither of the two parts is inductive alone: Claim *)
(* keeps the workers apart because the map covers all that are at a task,    *)
(* and Return keeps the map right because no other worker is at that task.   *)

\* A step that leaves the map alone, and moves no worker into or out of the
\* processing of its event, keeps the invariant.
LEMMA SameProcessing ==
  ASSUME ProcessingInv, m' = m,
         \A v \in Workers : /\ pc'[v] \in Processing <=> pc[v] \in Processing
                            /\ pc[v] \in Processing => cur'[v] = cur[v]
  PROVE  ProcessingInv'
<1>1. {v \in Workers : pc'[v] \in Processing} = {v \in Workers : pc[v] \in Processing}
  OBVIOUS
<1>2. MapIsInProcess'
  BY <1>1 DEF ProcessingInv, MapIsInProcess
<1>3. ExclusiveProcessing'
  BY DEF ProcessingInv, ExclusiveProcessing
<1> QED
  BY <1>2, <1>3 DEF ProcessingInv

\* A worker that is not processing claims a task that is not in the map.
LEMMA ClaimKeepsProcessingInv ==
  ASSUME TypeOK, ProcessingInv, NEW w \in Workers, Claim(w)
  PROVE  ProcessingInv'
<1>1. /\ pc[w] \notin Processing /\ pc'[w] \in Processing
      /\ cur' = cur /\ m' = m \cup {cur[w]} /\ cur[w] \notin m
      /\ \A v \in Workers \ {w} : pc'[v] = pc[v]
  BY DEF TypeOK, WorkerType, Claim, Processing
<1>2. MapIsInProcess'
  BY <1>1 DEF ProcessingInv, MapIsInProcess
<1>3. \A v \in Workers : pc[v] \in Processing => cur[v] # cur[w]
  BY <1>1 DEF ProcessingInv, MapIsInProcess
<1>4. ExclusiveProcessing'
  BY <1>1, <1>3 DEF ProcessingInv, ExclusiveProcessing
<1> QED
  BY <1>2, <1>4 DEF ProcessingInv

\* A worker that returns is the only one at the task it removes from the map.
LEMMA ReturnKeepsProcessingInv ==
  ASSUME TypeOK, ProcessingInv, NEW w \in Workers, Return(w)
  PROVE  ProcessingInv'
<1>1. /\ pc[w] \in Processing /\ pc'[w] \notin Processing
      /\ m' = m \ {cur[w]}
      /\ \A v \in Workers \ {w} : pc'[v] = pc[v] /\ cur'[v] = cur[v]
  BY DEF TypeOK, WorkerType, Return, Dispose, Processing
<1>2. \A v \in Workers \ {w} : pc[v] \in Processing => cur[v] # cur[w]
  BY <1>1 DEF ProcessingInv, ExclusiveProcessing
<1>3. MapIsInProcess'
  BY <1>1, <1>2 DEF ProcessingInv, MapIsInProcess
<1>4. ExclusiveProcessing'
  BY <1>1 DEF ProcessingInv, ExclusiveProcessing
<1> QED
  BY <1>3, <1>4 DEF ProcessingInv

LEMMA ProcessingInductive ==
  TypeOK /\ ProcessingInv /\ [Next]_vars => ProcessingInv'
<1> SUFFICES ASSUME TypeOK, ProcessingInv, [Next]_vars PROVE ProcessingInv'
  OBVIOUS
<1>1. CASE UNCHANGED workerVars
  BY <1>1, SameProcessing DEF workerVars
<1>2. ASSUME NEW w \in Workers, Worker(w) PROVE ProcessingInv'
  <2>1. CASE Claim(w)
    BY <2>1, ClaimKeepsProcessingInv
  <2>2. CASE Return(w)
    BY <2>2, ReturnKeepsProcessingInv
  <2>3. CASE Take(w) \/ Duplicate(w) \/ Exit(w)
    <3>1. /\ m' = m
          /\ pc[w] \notin Processing /\ pc'[w] \notin Processing
          /\ \A v \in Workers \ {w} : pc'[v] = pc[v] /\ cur'[v] = cur[v]
      BY <2>3 DEF TypeOK, WorkerType, Take, Duplicate, Exit, Dispose, Processing
    <3> QED
      BY <3>1, SameProcessing
  <2>4. CASE \/ Acquire(w) \/ BeginRequest(w) \/ Handle(w) \/ SendStatus(w)
             \/ NoMoreRequests(w)
    <3>1. /\ m' = m /\ cur' = cur
          /\ pc[w] \in Processing /\ pc'[w] \in Processing
          /\ \A v \in Workers \ {w} : pc'[v] = pc[v]
      BY <2>4 DEF TypeOK, WorkerType, Acquire, BeginRequest, Handle, SendStatus,
                  NoMoreRequests, Processing
    <3> QED
      BY <3>1, SameProcessing
  <2> QED
    BY <1>2, <2>1, <2>2, <2>3, <2>4 DEF Worker
<1>3. CASE Producer
  BY <1>1, <1>3
     DEF Producer, ProdReset, TimerFires, ProdSelectCtxDone, ProdSelectStop,
         ProdDrain, ProdSelectTick, ProdFetch, ProdEnqueue,
         ProdEnqueueCtxDone, ProdBatchSent, ProdClose
<1>4. CASE AllDone \/ StopPollingForTasks \/ WaitForTasks \/ Cancel
  BY <1>1, <1>4 DEF AllDone, StopPollingForTasks, WaitForTasks, Cancel
<1>5. CASE UNCHANGED vars
  BY <1>1, <1>5 DEF vars
<1> QED
  BY <1>2, <1>3, <1>4, <1>5 DEF Next, Terminated

\* Who is let into process is decided by the map, and the map holds exactly who is in it:
\* neither part lasts without the other (poller.go, process).
THEOREM ProcessingInvHolds == Spec => []ProcessingInv
<1>1. Init => ProcessingInv
  BY DEF Init, ProcessingInv, MapIsInProcess, ExclusiveProcessing, Processing
<1> QED
  BY <1>1, TypeCorrect, ProcessingInductive, PTL DEF Spec

\* No two workers are ever between LoadOrStore and Delete with one task id.
THEOREM ExclusiveProcessingHolds == Spec => []ExclusiveProcessing
<1>1. ProcessingInv => ExclusiveProcessing
  BY DEF ProcessingInv
<1> QED
  BY <1>1, ProcessingInvHolds, PTL

\* The map holds exactly the task ids the workers are at: a task id is never
\* left in it by any way out of process.
THEOREM MapIsInProcessHolds == Spec => []MapIsInProcess
<1>1. ProcessingInv => MapIsInProcess
  BY DEF ProcessingInv
<1> QED
  BY <1>1, ProcessingInvHolds, PTL

-----------------------------------------------------------------------------
(* The timer.  While the producer waits in its select, the timer is either  *)
(* running or has put its value into pollTimer.C.                           *)

TimerInv ==
  /\ prod = "select" => timerOn \/ tick
  /\ DrainFindsTick

\* The receive on pollTimer.C in the stop case never blocks.
THEOREM DrainFindsTickHolds == Spec => []DrainFindsTick
<1>1. Init => TimerInv
  BY DEF Init, TimerInv, DrainFindsTick
<1>2. TimerInv /\ [Next]_vars => TimerInv'
  <2> SUFFICES ASSUME TimerInv, [Next]_vars PROVE TimerInv'
    OBVIOUS
  <2>1. CASE UNCHANGED prodVars
    BY <2>1 DEF prodVars, TimerInv, DrainFindsTick
  <2>2. CASE Producer
    BY <2>2
       DEF Producer, ProdReset, TimerFires, ProdSelectCtxDone, ProdSelectStop,
           ProdDrain, ProdSelectTick, ProdFetch, ProdEnqueue,
           ProdEnqueueCtxDone, ProdBatchSent, ProdClose, TimerInv,
           DrainFindsTick
  <2>3. ASSUME NEW w \in Workers, Worker(w) PROVE UNCHANGED prodVars
    BY <2>3
       DEF Worker, Take, Duplicate, Claim, Acquire, BeginRequest, Handle,
           SendStatus, NoMoreRequests, Return, Exit
  <2>4. CASE AllDone \/ StopPollingForTasks \/ WaitForTasks \/ Cancel
    BY <2>1, <2>4 DEF AllDone, StopPollingForTasks, WaitForTasks, Cancel
  <2>5. CASE UNCHANGED vars
    BY <2>1, <2>5 DEF vars
  <2> QED
    BY <2>1, <2>2, <2>3, <2>4, <2>5 DEF Next, Terminated
<1>3. TimerInv => DrainFindsTick
  BY DEF TimerInv
<1> QED
  BY <1>1, <1>2, <1>3, PTL DEF Spec

\* Once the producer has left its loop it stays out, and no more events are
\* asked for.
THEOREM NoPollAfterStopSeenHolds == Spec => NoPollAfterStopSeen
<1>1. [Next]_vars => [StopSeen => StopSeen' /\ polled' = polled]_vars
  <2> SUFFICES ASSUME [Next]_vars, StopSeen
               PROVE  StopSeen' /\ polled' = polled
    OBVIOUS
  <2>1. CASE UNCHANGED <<prodVars, polled>>
    BY <2>1 DEF prodVars, StopSeen
  <2>2. CASE Producer
    BY <2>2
       DEF Producer, ProdReset, TimerFires, ProdSelectCtxDone, ProdSelectStop,
           ProdDrain, ProdSelectTick, ProdFetch, ProdEnqueue,
           ProdEnqueueCtxDone, ProdBatchSent, ProdClose, StopSeen, histVars
  <2>3. ASSUME NEW w \in Workers, Worker(w) PROVE UNCHANGED <<prodVars, polled>>
    BY <2>3
       DEF Worker, Take, Duplicate, Claim, Acquire, BeginRequest, Handle,
           SendStatus, NoMoreRequests, Return, Exit, histVars
  <2>4. CASE AllDone \/ StopPollingForTasks \/ WaitForTasks \/ Cancel
    BY <2>1, <2>4 DEF AllDone, StopPollingForTasks, WaitForTasks, Cancel, histVars
  <2>5. CASE UNCHANGED vars
    BY <2>1, <2>5 DEF vars, histVars
  <2> QED
    BY <2>1, <2>2, <2>3, <2>4, <2>5 DEF Next, Terminated
<1> QED
  BY <1>1, PTL DEF Spec, NoPollAfterStopSeen

-----------------------------------------------------------------------------
(* Counting: the occurrences of a task id in a sequence of events.          *)

LEMMA CountedIsFinite ==
  ASSUME NEW t, NEW s \in Seq(TaskIDs)
  PROVE  IsFiniteSet({i \in DOMAIN s : s[i] = t})
<1>1. /\ IsFiniteSet(1..Len(s))
      /\ {i \in DOMAIN s : s[i] = t} \in SUBSET (1..Len(s))
  BY FS_Interval
<1> QED
  BY <1>1, FS_Subset

LEMMA CountEmpty == ASSUME NEW t PROVE Count(t, <<>>) = 0
<1>1. {i \in DOMAIN <<>> : <<>>[i] = t} = {}
  OBVIOUS
<1> QED
  BY <1>1, FS_EmptySet DEF Count

LEMMA CountAppend ==
  ASSUME NEW t, NEW s \in Seq(TaskIDs), NEW e \in TaskIDs
  PROVE  Count(t, Append(s, e)) = Count(t, s) + (IF e = t THEN 1 ELSE 0)
<1> DEFINE A == {i \in DOMAIN s : s[i] = t}
           B == {i \in DOMAIN Append(s, e) : Append(s, e)[i] = t}
<1>1. /\ DOMAIN s = 1..Len(s) /\ Len(s) \in Nat
      /\ DOMAIN Append(s, e) = 1..(Len(s) + 1)
      /\ \A i \in 1..Len(s) : Append(s, e)[i] = s[i]
      /\ Append(s, e)[Len(s) + 1] = e
  BY AppendProperties
<1>2. IsFiniteSet(A) /\ Cardinality(A) \in Nat
  BY CountedIsFinite, FS_CardinalityType
<1>3. Count(t, s) = Cardinality(A) /\ Count(t, Append(s, e)) = Cardinality(B)
  BY DEF Count
<1>4. CASE e = t
  <2>1. B = A \cup {Len(s) + 1} /\ Len(s) + 1 \notin A
    BY <1>1, <1>4
  <2>2. Cardinality(B) = Cardinality(A) + 1
    BY <1>2, <2>1, FS_AddElement
  <2> HIDE DEF A, B
  <2> QED
    BY <1>3, <1>2, <1>4, <2>2
<1>5. CASE e # t
  <2>1. B = A
    BY <1>1, <1>5
  <2> HIDE DEF A, B
  <2> QED
    BY <1>3, <1>2, <1>5, <2>1
<1> QED
  BY <1>4, <1>5

\* Taking the head off moves every other occurrence down by one place.
LEMMA CountTail ==
  ASSUME NEW t, NEW s \in Seq(TaskIDs), s # <<>>
  PROVE  Count(t, s) = Count(t, Tail(s)) + (IF Head(s) = t THEN 1 ELSE 0)
<1> DEFINE A == {i \in DOMAIN s : s[i] = t}
           B == {i \in DOMAIN Tail(s) : Tail(s)[i] = t}
           f == [i \in B |-> i + 1]
<1>1. /\ DOMAIN s = 1..Len(s) /\ Len(s) \in Nat /\ Len(s) > 0
      /\ Tail(s) \in Seq(TaskIDs) /\ DOMAIN Tail(s) = 1..(Len(s) - 1)
      /\ \A i \in 1..(Len(s) - 1) : Tail(s)[i] = s[i + 1]
      /\ Head(s) = s[1]
  BY HeadTailProperties
<1>2. /\ IsFiniteSet(A) /\ Cardinality(A) \in Nat
      /\ IsFiniteSet(B) /\ Cardinality(B) \in Nat
  BY <1>1, CountedIsFinite, FS_CardinalityType
<1>3. f \in Bijection(B, A \ {1})
  <2>1. f \in [B -> A \ {1}]
    BY <1>1
  <2>2. \A i, j \in B : f[i] = f[j] => i = j
    BY <1>1
  <2>3. \A k \in A \ {1} : \E i \in B : f[i] = k
    <3> SUFFICES ASSUME NEW k \in A \ {1} PROVE k - 1 \in B /\ f[k - 1] = k
      OBVIOUS
    <3>1. k \in 2..Len(s) /\ s[k] = t
      BY <1>1
    <3>2. k - 1 \in 1..(Len(s) - 1) /\ (k - 1) + 1 = k
      BY <3>1, <1>1
    <3>3. k - 1 \in B
      BY <1>1, <3>1, <3>2
    <3> QED
      BY <3>2, <3>3
  <2> QED
    BY <2>1, <2>2, <2>3 DEF Bijection, Injection, Surjection, IsInjective
<1>4. Cardinality(A \ {1}) = Cardinality(B)
  BY <1>2, <1>3, FS_Bijection DEF ExistsBijection
<1>5. 1 \in A <=> Head(s) = t
  BY <1>1
<1>6. Cardinality(A \ {1}) = IF 1 \in A THEN Cardinality(A) - 1 ELSE Cardinality(A)
  BY <1>2, FS_RemoveElement
<1>7. Count(t, s) = Cardinality(A) /\ Count(t, Tail(s)) = Cardinality(B)
  BY DEF Count
<1> HIDE DEF A, B
<1>8. CASE Head(s) = t
  BY <1>7, <1>2, <1>4, <1>5, <1>6, <1>8
<1>9. CASE Head(s) # t
  BY <1>7, <1>2, <1>4, <1>5, <1>6, <1>9
<1> QED
  BY <1>8, <1>9

-----------------------------------------------------------------------------
(* Counting: the workers that hold an event of a task.                      *)

LEMMA SomeWorkers ==
  ASSUME NEW P \in SUBSET Workers
  PROVE  IsFiniteSet(P) /\ Cardinality(P) \in Nat
  BY PollerAssumption, FS_Subset, FS_CardinalityType

LEMMA OneWorkerMore ==
  ASSUME NEW P \in SUBSET Workers, NEW w \in Workers \ P
  PROVE  Cardinality(P \cup {w}) = Cardinality(P) + 1
  BY SomeWorkers, FS_AddElement

\* A worker that held nothing gets an event.
LEMMA HandsGain ==
  ASSUME TypeOK, NEW w \in Workers, cur[w] = NoTask, NEW e \in TaskIDs,
         cur' = [cur EXCEPT ![w] = e], NEW t \in TaskIDs
  PROVE  InHands(t)' = InHands(t) + (IF e = t THEN 1 ELSE 0)
<1> DEFINE P == {v \in Workers : cur[v] = t}
           Q == {v \in Workers : cur'[v] = t}
<1>1. cur \in [Workers -> TaskIDs \cup {NoTask}] /\ NoTask \notin TaskIDs
  BY PollerAssumption DEF TypeOK, WorkerType
<1>2. InHands(t) = Cardinality(P) /\ InHands(t)' = Cardinality(Q)
  BY DEF InHands
<1>3. P \in SUBSET Workers /\ Cardinality(P) \in Nat
  BY SomeWorkers
<1>4. CASE e = t
  <2>1. w \notin P /\ Q = P \cup {w}
    BY <1>1, <1>4
  <2>2. Cardinality(Q) = Cardinality(P) + 1
    BY <1>3, <2>1, OneWorkerMore
  <2> HIDE DEF P, Q
  <2> QED
    BY <1>2, <1>3, <1>4, <2>2
<1>5. CASE e # t
  <2>1. Q = P
    BY <1>1, <1>5
  <2> HIDE DEF P, Q
  <2> QED
    BY <1>2, <1>3, <1>5, <2>1
<1> QED
  BY <1>4, <1>5

\* A worker gives up the event it held.
LEMMA HandsLoss ==
  ASSUME TypeOK, NEW w \in Workers, cur[w] \in TaskIDs,
         cur' = [cur EXCEPT ![w] = NoTask], NEW t \in TaskIDs
  PROVE  InHands(t) = InHands(t)' + (IF cur[w] = t THEN 1 ELSE 0)
<1> DEFINE P == {v \in Workers : cur[v] = t}
           Q == {v \in Workers : cur'[v] = t}
<1>1. cur \in [Workers -> TaskIDs \cup {NoTask}] /\ NoTask \notin TaskIDs
  BY PollerAssumption DEF TypeOK, WorkerType
<1>2. InHands(t) = Cardinality(P) /\ InHands(t)' = Cardinality(Q)
  BY DEF InHands
<1>3. Q \in SUBSET Workers /\ Cardinality(Q) \in Nat
  BY SomeWorkers
<1>4. CASE cur[w] = t
  <2>1. w \notin Q /\ P = Q \cup {w}
    BY <1>1, <1>4
  <2>2. Cardinality(P) = Cardinality(Q) + 1
    BY <1>3, <2>1, OneWorkerMore
  <2> HIDE DEF P, Q
  <2> QED
    BY <1>2, <1>3, <1>4, <2>2
<1>5. CASE cur[w] # t
  <2>1. Q = P
    BY <1>1, <1>5
  <2> HIDE DEF P, Q
  <2> QED
    BY <1>2, <1>3, <1>5, <2>1
<1> QED
  BY <1>4, <1>5

-----------------------------------------------------------------------------
(* Conservation of the events.  The producer asks for more only when the    *)
(* batch of its last poll is sent: without that a poll would overwrite what *)
(* is left of the batch.                                                    *)

BatchInv == prod \in {"reset", "select", "fetch"} => batch = <<>>

LEMMA BatchInductive == BatchInv /\ [Next]_vars => BatchInv'
<1> SUFFICES ASSUME BatchInv, [Next]_vars PROVE BatchInv'
  OBVIOUS
<1>1. CASE UNCHANGED prodVars
  BY <1>1 DEF prodVars, BatchInv
<1>2. CASE Producer
  BY <1>2
     DEF Producer, ProdReset, TimerFires, ProdSelectCtxDone, ProdSelectStop,
         ProdDrain, ProdSelectTick, ProdFetch, ProdEnqueue,
         ProdEnqueueCtxDone, ProdBatchSent, ProdClose, BatchInv
<1>3. ASSUME NEW w \in Workers, Worker(w) PROVE UNCHANGED prodVars
  BY <1>3
     DEF Worker, Take, Duplicate, Claim, Acquire, BeginRequest, Handle,
         SendStatus, NoMoreRequests, Return, Exit
<1>4. CASE AllDone \/ StopPollingForTasks \/ WaitForTasks \/ Cancel
  BY <1>1, <1>4 DEF AllDone, StopPollingForTasks, WaitForTasks, Cancel
<1>5. CASE UNCHANGED vars
  BY <1>1, <1>5 DEF vars
<1> QED
  BY <1>1, <1>2, <1>3, <1>4, <1>5 DEF Next, Terminated

\* The numbers the equation is about.
LEMMA EventNumbers ==
  ASSUME TypeOK, NEW t \in TaskIDs
  PROVE  /\ Count(t, batch) \in Nat /\ Count(t, events) \in Nat
         /\ InHands(t) \in Nat /\ polled[t] \in Nat /\ disposed[t] \in Nat
<1>1. {w \in Workers : cur[w] = t} \in SUBSET Workers
  OBVIOUS
<1>2. InHands(t) \in Nat
  BY <1>1, SomeWorkers DEF InHands
<1> QED
  BY <1>2, CountType DEF TypeOK, ProdType, ChanType, HistType

LEMMA ConservedByProducer ==
  ASSUME TypeOK, TypeOK', BatchInv, EventsConserved, Producer
  PROVE  EventsConserved'
<1> SUFFICES ASSUME NEW t \in TaskIDs
             PROVE  polled'[t] = Count(t, batch') + Count(t, events')
                                   + InHands(t)' + disposed'[t]
  BY DEF EventsConserved
<1>1. polled[t] = Count(t, batch) + Count(t, events) + InHands(t) + disposed[t]
  BY DEF EventsConserved
<1>2. InHands(t)' = InHands(t) /\ disposed' = disposed
  BY DEF Producer, ProdReset, TimerFires, ProdSelectCtxDone, ProdSelectStop,
         ProdDrain, ProdSelectTick, ProdFetch, ProdEnqueue, ProdEnqueueCtxDone,
         ProdBatchSent, ProdClose, InHands, workerVars, histVars
<1>3. CASE ProdFetch
  <2>1. /\ events' = events
        /\ polled'[t] = polled[t] + Count(t, batch')
    BY <1>3 DEF ProdFetch, chanVars
  <2>2. Count(t, batch) = 0
    BY <1>3, CountEmpty DEF ProdFetch, BatchInv
  <2>3. Count(t, batch') \in Nat
    BY EventNumbers, CountType DEF TypeOK, ProdType
  <2> QED
    BY <1>1, <1>2, <2>1, <2>2, <2>3, EventNumbers
<1>4. CASE ProdEnqueue
  <2>1. /\ batch \in Seq(TaskIDs) /\ batch # <<>> /\ events \in Seq(TaskIDs)
        /\ events' = Append(events, Head(batch)) /\ batch' = Tail(batch)
        /\ polled' = polled
    BY <1>4 DEF ProdEnqueue, TypeOK, ProdType, ChanType, histVars
  <2>2. Head(batch) \in TaskIDs /\ Tail(batch) \in Seq(TaskIDs)
    BY <2>1
  <2>3. Count(t, events') = Count(t, events) + (IF Head(batch) = t THEN 1 ELSE 0)
    BY <2>1, <2>2, CountAppend
  <2>4. Count(t, batch) = Count(t, batch') + (IF Head(batch) = t THEN 1 ELSE 0)
    BY <2>1, CountTail
  <2>5. Count(t, batch') \in Nat
    BY <2>1, <2>2, CountType
  <2> QED
    BY <1>1, <1>2, <2>1, <2>3, <2>4, <2>5, EventNumbers
<1>5. CASE \/ ProdReset \/ TimerFires \/ ProdSelectCtxDone \/ ProdSelectStop
           \/ ProdDrain \/ ProdSelectTick \/ ProdEnqueueCtxDone \/ ProdBatchSent
           \/ ProdClose
  <2>1. batch' = batch /\ events' = events /\ polled' = polled
    BY <1>5 DEF ProdReset, TimerFires, ProdSelectCtxDone, ProdSelectStop,
                ProdDrain, ProdSelectTick, ProdEnqueueCtxDone, ProdBatchSent,
                ProdClose, chanVars, histVars
  <2> QED
    BY <1>1, <1>2, <2>1
<1> QED
  BY <1>3, <1>4, <1>5 DEF Producer

LEMMA ConservedByWorker ==
  ASSUME TypeOK, EventsConserved, NEW w \in Workers, Worker(w)
  PROVE  EventsConserved'
<1> SUFFICES ASSUME NEW t \in TaskIDs
             PROVE  polled'[t] = Count(t, batch') + Count(t, events')
                                   + InHands(t)' + disposed'[t]
  BY DEF EventsConserved
<1>1. polled[t] = Count(t, batch) + Count(t, events) + InHands(t) + disposed[t]
  BY DEF EventsConserved
<1>2. batch' = batch /\ polled' = polled
  BY DEF Worker, Take, Duplicate, Claim, Acquire, BeginRequest, Handle,
         SendStatus, NoMoreRequests, Return, Exit, prodVars, histVars
<1>3. CASE Take(w)
  <2>1. /\ events \in Seq(TaskIDs) /\ events # <<>> /\ events' = Tail(events)
        /\ cur' = [cur EXCEPT ![w] = Head(events)] /\ disposed' = disposed
        /\ cur[w] = NoTask
    BY <1>3 DEF Take, TypeOK, ChanType, WorkerType, histVars
  <2>2. Head(events) \in TaskIDs /\ Tail(events) \in Seq(TaskIDs)
    BY <2>1
  <2>3. Count(t, events) = Count(t, events') + (IF Head(events) = t THEN 1 ELSE 0)
    BY <2>1, CountTail
  <2>4. InHands(t)' = InHands(t) + (IF Head(events) = t THEN 1 ELSE 0)
    BY <2>1, <2>2, HandsGain
  <2>5. Count(t, events') \in Nat
    BY <2>1, <2>2, CountType
  <2> QED
    BY <1>1, <1>2, <2>1, <2>3, <2>4, <2>5, EventNumbers
<1>4. CASE Duplicate(w) \/ Return(w)
  <2>1. /\ events' = events /\ cur[w] \in TaskIDs
        /\ cur' = [cur EXCEPT ![w] = NoTask]
        /\ disposed' = [disposed EXCEPT ![cur[w]] = @ + 1]
    BY <1>4 DEF Duplicate, Return, Dispose, TypeOK, WorkerType, chanVars
  <2>2. InHands(t) = InHands(t)' + (IF cur[w] = t THEN 1 ELSE 0)
    BY <2>1, HandsLoss
  <2>3. disposed'[t] = disposed[t] + (IF cur[w] = t THEN 1 ELSE 0)
    BY <2>1 DEF TypeOK, HistType
  <2>4. {v \in Workers : cur'[v] = t} \in SUBSET Workers
    OBVIOUS
  <2>5. InHands(t)' \in Nat
    BY <2>4, SomeWorkers DEF InHands
  <2> QED
    BY <1>1, <1>2, <2>1, <2>2, <2>3, <2>5, EventNumbers
<1>5. CASE \/ Claim(w) \/ Acquire(w) \/ BeginRequest(w) \/ Handle(w)
           \/ SendStatus(w) \/ NoMoreRequests(w) \/ Exit(w)
  <2>1. events' = events /\ cur' = cur /\ disposed' = disposed
    BY <1>5 DEF Claim, Acquire, BeginRequest, Handle, SendStatus,
                NoMoreRequests, Exit, chanVars, histVars
  <2>2. InHands(t)' = InHands(t)
    BY <2>1 DEF InHands
  <2> QED
    BY <1>1, <1>2, <2>1, <2>2
<1> QED
  BY <1>3, <1>4, <1>5 DEF Worker

LEMMA ConservedInductive ==
  TypeOK /\ BatchInv /\ EventsConserved /\ [Next]_vars => EventsConserved'
<1> SUFFICES ASSUME TypeOK, BatchInv, EventsConserved, [Next]_vars
             PROVE  EventsConserved'
  OBVIOUS
<1>1. CASE Producer
  BY <1>1, TypeOKInductive, ConservedByProducer
<1>2. ASSUME NEW w \in Workers, Worker(w) PROVE EventsConserved'
  BY <1>2, ConservedByWorker
<1>3. CASE UNCHANGED <<prodVars, chanVars, workerVars, histVars>>
  BY <1>3 DEF EventsConserved, InHands, prodVars, chanVars, workerVars, histVars
<1>4. CASE AllDone \/ StopPollingForTasks \/ WaitForTasks \/ Cancel
  BY <1>3, <1>4 DEF AllDone, StopPollingForTasks, WaitForTasks, Cancel
<1>5. CASE UNCHANGED vars
  BY <1>3, <1>5 DEF vars
<1> QED
  BY <1>1, <1>2, <1>4, <1>5 DEF Next, Terminated

\* No event the manager handed out is lost or dealt with twice between the
\* answer and the end of its processing, for any number of workers and events.
THEOREM EventsConservedHolds == Spec => []EventsConserved
<1>1. Init => BatchInv
  BY DEF Init, BatchInv
<1>2. Init => EventsConserved
  <2> SUFFICES ASSUME Init, NEW t \in TaskIDs
               PROVE  polled[t] = Count(t, batch) + Count(t, events)
                                    + InHands(t) + disposed[t]
    BY DEF EventsConserved
  <2>1. Count(t, batch) = 0 /\ Count(t, events) = 0
    BY CountEmpty DEF Init
  <2>2. {w \in Workers : cur[w] = t} = {}
    BY PollerAssumption DEF Init
  <2>3. InHands(t) = 0
    BY <2>2, FS_EmptySet DEF InHands
  <2> QED
    BY <2>1, <2>3 DEF Init
<1> QED
  BY <1>1, <1>2, TypeCorrect, BatchInductive, ConservedInductive, PTL DEF Spec

-----------------------------------------------------------------------------
(* The end of the poller.  A worker leaves only a channel that is closed    *)
(* and empty, and nothing is put on it again: the producer has returned.    *)

EndInv ==
  /\ closed => prod = "returned"
  /\ \A w \in Workers : pc[w] = "exited" => closed /\ events = <<>>
  /\ done => \A w \in Workers : pc[w] = "exited"

LEMMA EndInductive == TypeOK /\ EndInv /\ [Next]_vars => EndInv'
<1> SUFFICES ASSUME TypeOK, EndInv, [Next]_vars PROVE EndInv'
  OBVIOUS
<1>1. CASE UNCHANGED <<prod, events, closed, pc, done>>
  BY <1>1 DEF EndInv
<1>2. CASE Producer
  <2>1. UNCHANGED <<pc, done>>
    BY <1>2 DEF Producer, ProdReset, TimerFires, ProdSelectCtxDone,
                ProdSelectStop, ProdDrain, ProdSelectTick, ProdFetch,
                ProdEnqueue, ProdEnqueueCtxDone, ProdBatchSent, ProdClose,
                workerVars, ctlVars
  <2>2. CASE ProdClose
    BY <2>1, <2>2 DEF ProdClose, EndInv
  <2>3. CASE ProdEnqueue
    BY <2>1, <2>3 DEF ProdEnqueue, EndInv
  <2>4. CASE TimerFires
    BY <2>1, <2>4 DEF TimerFires, EndInv, chanVars
  <2>5. CASE \/ ProdReset \/ ProdSelectCtxDone \/ ProdSelectStop \/ ProdDrain
             \/ ProdSelectTick \/ ProdFetch \/ ProdEnqueueCtxDone \/ ProdBatchSent
    <3>1. prod # "returned" /\ UNCHANGED <<events, closed>>
      BY <2>5 DEF ProdReset, ProdSelectCtxDone, ProdSelectStop, ProdDrain,
                  ProdSelectTick, ProdFetch, ProdEnqueueCtxDone, ProdBatchSent,
                  chanVars
    <3>2. ~closed
      BY <3>1 DEF EndInv
    <3> QED
      BY <2>1, <3>1, <3>2 DEF EndInv
  <2> QED
    BY <1>2, <2>2, <2>3, <2>4, <2>5 DEF Producer
<1>3. ASSUME NEW w \in Workers, Worker(w) PROVE EndInv'
  <2>1. /\ UNCHANGED <<prod, closed, done>> /\ pc[w] # "exited"
        /\ pc' \in [Workers -> PCs]
        /\ \A v \in Workers \ {w} : pc'[v] = pc[v]
        /\ events = <<>> => events' = <<>>
        /\ pc'[w] = "exited" => closed /\ events = <<>>
    <3>1. TypeOK'
      BY <1>3, WorkerStepType
    <3>2. pc' \in [Workers -> PCs] /\ pc \in [Workers -> PCs]
      BY <3>1 DEF TypeOK, WorkerType
    <3>3. CASE Exit(w)
      BY <3>2, <3>3 DEF Exit, prodVars, chanVars, ctlVars
    <3>4. CASE Take(w) \/ Duplicate(w) \/ Return(w)
      BY <3>2, <3>4 DEF Take, Duplicate, Return, Dispose, prodVars, chanVars, ctlVars
    <3>5. CASE \/ Claim(w) \/ Acquire(w) \/ BeginRequest(w) \/ Handle(w)
               \/ SendStatus(w) \/ NoMoreRequests(w)
      BY <3>2, <3>5 DEF Claim, Acquire, BeginRequest, Handle, SendStatus,
                        NoMoreRequests, prodVars, chanVars, ctlVars
    <3> QED
      BY <1>3, <3>3, <3>4, <3>5 DEF Worker
  <2> QED
    BY <2>1 DEF EndInv
<1>4. CASE AllDone
  BY <1>4 DEF AllDone, EndInv, prodVars, chanVars, workerVars
<1>5. CASE StopPollingForTasks \/ WaitForTasks \/ Cancel
  BY <1>1, <1>5 DEF StopPollingForTasks, WaitForTasks, Cancel,
                    prodVars, chanVars, workerVars
<1>6. CASE UNCHANGED vars
  BY <1>1, <1>6 DEF vars, prodVars, chanVars, workerVars, ctlVars
<1> QED
  BY <1>2, <1>3, <1>4, <1>5, <1>6 DEF Next, Terminated

LEMMA EndInvHolds == Spec => []EndInv
<1>1. Init => EndInv
  BY DEF Init, EndInv
<1> QED
  BY <1>1, TypeCorrect, EndInductive, PTL DEF Spec

-----------------------------------------------------------------------------
(* The gauge.  A worker whose event is not in process has nothing to        *)
(* decrement, so that it leaves nothing of the gauge behind when it exits.  *)

GaugeInv ==
  /\ \A w \in Workers : pc[w] \in {"idle", "check", "acquire", "exited"} => begun[w] = 0
  /\ running = Cardinality(Due)

LEMMA DueIsFinite ==
  ASSUME NEW D \in SUBSET (Workers \X (1..MaxRequests))
  PROVE  IsFiniteSet(D) /\ Cardinality(D) \in Nat
<1>1. IsFiniteSet(1..MaxRequests)
  BY PollerAssumption, FS_Interval
<1>2. IsFiniteSet(Workers \X (1..MaxRequests))
  BY <1>1, PollerAssumption, FS_Product
<1> QED
  BY <1>2, FS_Subset, FS_CardinalityType

LEMMA GaugeByBegin ==
  ASSUME TypeOK, GaugeInv, NEW w \in Workers, BeginRequest(w)
  PROVE  GaugeInv'
<1> DEFINE r == <<w, begun[w] + 1>>
<1>1. /\ begun \in [Workers -> 0..MaxRequests] /\ begun[w] < MaxRequests
      /\ begun' = [begun EXCEPT ![w] = begun[w] + 1]
      /\ running' = running + 1
  BY PollerAssumption DEF BeginRequest, TypeOK, WorkerType
<1>2. Due' = Due \cup {r}
  <2>1. \A v \in Workers, i \in 1..MaxRequests :
          i <= begun'[v] <=> i <= begun[v] \/ (v = w /\ i = begun[w] + 1)
    BY <1>1, PollerAssumption
  <2>2. r \in Workers \X (1..MaxRequests)
    BY <1>1, PollerAssumption
  <2>3. ASSUME NEW d \in Workers \X (1..MaxRequests)
        PROVE  d \in Due' <=> d \in Due \cup {r}
    <3>1. PICK v \in Workers, i \in 1..MaxRequests : d = <<v, i>>
      OBVIOUS
    <3> QED
      BY <2>1, <3>1 DEF Due
  <2>4. Due' \subseteq Workers \X (1..MaxRequests) /\ Due \subseteq Workers \X (1..MaxRequests)
    BY DEF Due
  <2> QED
    BY <2>2, <2>3, <2>4
<1>3. Due \in SUBSET (Workers \X (1..MaxRequests)) /\ r \notin Due
  BY <1>1, PollerAssumption DEF Due
<1>4. Cardinality(Due') = Cardinality(Due) + 1
  BY <1>2, <1>3, DueIsFinite, FS_AddElement
<1>5. pc[w] = "loop" /\ pc' = [pc EXCEPT ![w] = "handle"]
  BY DEF BeginRequest
<1>6. \A v \in Workers : pc'[v] \in {"idle", "check", "acquire", "exited"} => begun'[v] = 0
  BY <1>1, <1>5 DEF GaugeInv, TypeOK, WorkerType
<1> QED
  BY <1>1, <1>4, <1>6 DEF GaugeInv

LEMMA GaugeByReturn ==
  ASSUME TypeOK, GaugeInv, NEW w \in Workers, Return(w)
  PROVE  GaugeInv'
<1> DEFINE D == {w} \X (1..begun[w])
<1>1. /\ begun \in [Workers -> 0..MaxRequests]
      /\ begun' = [begun EXCEPT ![w] = 0]
      /\ running' = running - begun[w]
  BY DEF Return, TypeOK, WorkerType
<1>2. Due' = Due \ D /\ D \subseteq Due
  <2>1. \A v \in Workers, i \in 1..MaxRequests :
          i <= begun'[v] <=> i <= begun[v] /\ v # w
    BY <1>1, PollerAssumption
  <2>2. ASSUME NEW d \in Workers \X (1..MaxRequests)
        PROVE  d \in Due' <=> d \in Due \ D
    <3>1. PICK v \in Workers, i \in 1..MaxRequests : d = <<v, i>>
      OBVIOUS
    <3>2. d \in D <=> v = w /\ i <= begun[v]
      BY <1>1, <3>1, PollerAssumption
    <3>3. d \in Due <=> i <= begun[v]
      BY <3>1 DEF Due
    <3>4. d \in Due' <=> i <= begun'[v]
      BY <3>1 DEF Due
    <3> QED
      BY <2>1, <3>1, <3>2, <3>3, <3>4
  <2>3. Due' \subseteq Workers \X (1..MaxRequests) /\ Due \subseteq Workers \X (1..MaxRequests)
    BY DEF Due
  <2>4. ASSUME NEW d \in D PROVE d \in Due
    <3>1. PICK i \in 1..begun[w] : d = <<w, i>>
      OBVIOUS
    <3>2. i \in 1..MaxRequests
      BY <1>1, <3>1, PollerAssumption
    <3> QED
      BY <3>1, <3>2, <1>1 DEF Due
  <2> QED
    BY <2>2, <2>3, <2>4
<1>3. IsFiniteSet(D) /\ Cardinality(D) = begun[w]
  <2>1. begun[w] \in Nat
    BY <1>1, PollerAssumption
  <2>2. IsFiniteSet(1..begun[w]) /\ Cardinality(1..begun[w]) = begun[w]
    BY <2>1, FS_Interval
  <2>3. IsFiniteSet({w}) /\ Cardinality({w}) = 1
    BY FS_Singleton
  <2>4. IsFiniteSet(D) /\ Cardinality(D) = Cardinality({w}) * Cardinality(1..begun[w])
    BY <2>2, <2>3, FS_Product
  <2> QED
    BY <2>1, <2>2, <2>3, <2>4
<1>4. Due \in SUBSET (Workers \X (1..MaxRequests)) /\ Due \cap D = D
  BY <1>2 DEF Due
<1>5. Cardinality(Due') = Cardinality(Due) - begun[w]
  <2> HIDE DEF D
  <2>1. IsFiniteSet(Due)
    BY <1>4, DueIsFinite
  <2>2. Cardinality(Due \ D) = Cardinality(Due) - Cardinality(Due \cap D)
    BY <2>1, FS_Difference
  <2> QED
    BY <1>2, <1>3, <1>4, <2>2
<1>6. \A v \in Workers : pc'[v] \in {"idle", "check", "acquire", "exited"} => begun'[v] = 0
  BY <1>1 DEF GaugeInv, TypeOK, WorkerType, Return, Dispose
<1> QED
  BY <1>1, <1>5, <1>6 DEF GaugeInv

LEMMA GaugeInductive == TypeOK /\ GaugeInv /\ [Next]_vars => GaugeInv'
<1> SUFFICES ASSUME TypeOK, GaugeInv, [Next]_vars PROVE GaugeInv'
  OBVIOUS
<1>1. CASE UNCHANGED workerVars
  BY <1>1 DEF workerVars, GaugeInv, Due
<1>2. ASSUME NEW w \in Workers, Worker(w) PROVE GaugeInv'
  <2>1. CASE BeginRequest(w)
    BY <2>1, GaugeByBegin
  <2>2. CASE Return(w)
    BY <2>2, GaugeByReturn
  <2>3. CASE \/ Take(w) \/ Duplicate(w) \/ Claim(w) \/ Acquire(w) \/ Handle(w)
             \/ SendStatus(w) \/ NoMoreRequests(w) \/ Exit(w)
    <3>1. UNCHANGED <<begun, running>>
      BY <2>3 DEF Take, Duplicate, Claim, Acquire, Handle, SendStatus,
                  NoMoreRequests, Exit
    <3>2. /\ \A v \in Workers \ {w} : pc'[v] = pc[v]
          /\ pc'[w] \in {"idle", "check", "acquire", "exited"} =>
               pc[w] \in {"idle", "check", "acquire", "exited"}
      BY <2>3 DEF Take, Duplicate, Dispose, Claim, Acquire, Handle, SendStatus,
                  NoMoreRequests, Exit, TypeOK, WorkerType
    <3> QED
      BY <3>1, <3>2 DEF GaugeInv, Due
  <2> QED
    BY <1>2, <2>1, <2>2, <2>3 DEF Worker
<1>3. CASE Producer
  BY <1>1, <1>3
     DEF Producer, ProdReset, TimerFires, ProdSelectCtxDone, ProdSelectStop,
         ProdDrain, ProdSelectTick, ProdFetch, ProdEnqueue,
         ProdEnqueueCtxDone, ProdBatchSent, ProdClose
<1>4. CASE AllDone \/ StopPollingForTasks \/ WaitForTasks \/ Cancel
  BY <1>1, <1>4 DEF AllDone, StopPollingForTasks, WaitForTasks, Cancel
<1>5. CASE UNCHANGED vars
  BY <1>1, <1>5 DEF vars
<1> QED
  BY <1>2, <1>3, <1>4, <1>5 DEF Next, Terminated

\* The gauge of running tasks is the number of requests some worker has begun and
\* still has to count down, whichever way process returned; it is zero when
\* the poller has shut down.
THEOREM RunningGaugeHolds == Spec => []RunningGauge
<1>1. Init => GaugeInv
  <2> SUFFICES ASSUME Init PROVE GaugeInv
    OBVIOUS
  <2>1. Due = {}
    BY PollerAssumption DEF Init, Due
  <2> QED
    BY <2>1, FS_EmptySet DEF Init, GaugeInv
<1>2. TypeOK /\ GaugeInv /\ EndInv => RunningGauge
  <2> SUFFICES ASSUME TypeOK, GaugeInv, EndInv, done PROVE running = 0
    BY DEF RunningGauge, GaugeInv
  <2>1. \A w \in Workers : begun[w] = 0
    BY DEF EndInv, GaugeInv
  <2>2. Due = {}
    BY <2>1, PollerAssumption DEF Due
  <2> QED
    BY <2>2, FS_EmptySet DEF GaugeInv
<1> QED
  BY <1>1, <1>2, TypeCorrect, GaugeInductive, EndInvHolds, PTL DEF Spec

-----------------------------------------------------------------------------
(* The poller implements TaskExecution.  What waits of a task is the part   *)
(* of the batch the producer has not given up, the channel, and the workers *)
(* on their way to the map; the lemmas count the third part.                *)

AtMap(t) == {w \in Workers : pc[w] = "check" /\ cur[w] = t}
InBatch(t) == IF prod = "enqueue" THEN Count(t, batch) ELSE 0

LEMMA WaitingParts ==
  ASSUME TypeOK, NEW t \in TaskIDs
  PROVE  /\ Waiting(t) = InBatch(t) + Count(t, events) + Cardinality(AtMap(t))
         /\ InBatch(t) \in Nat /\ Count(t, events) \in Nat
         /\ Cardinality(AtMap(t)) \in Nat /\ Waiting(t) \in Nat
<1>1. Cardinality(AtMap(t)) \in Nat
  BY SomeWorkers DEF AtMap
<1>2. InBatch(t) \in Nat
  BY EventNumbers DEF InBatch
<1>3. Waiting(t) = InBatch(t) + Count(t, events) + Cardinality(AtMap(t))
  BY DEF Waiting, InBatch, AtMap
<1> QED
  BY <1>1, <1>2, <1>3, EventNumbers

\* A worker with an event arrives at the map.
LEMMA AtMapGain ==
  ASSUME TypeOK, NEW w \in Workers, pc[w] # "check", NEW e \in TaskIDs,
         pc' = [pc EXCEPT ![w] = "check"], cur' = [cur EXCEPT ![w] = e],
         NEW t \in TaskIDs
  PROVE  Cardinality(AtMap(t)') = Cardinality(AtMap(t)) + (IF e = t THEN 1 ELSE 0)
<1>1. /\ pc'[w] = "check" /\ cur'[w] = e
      /\ \A v \in Workers \ {w} : pc'[v] = pc[v] /\ cur'[v] = cur[v]
  BY DEF TypeOK, WorkerType
<1>2. w \notin AtMap(t) /\ AtMap(t) \in SUBSET Workers
  BY DEF AtMap
<1>3. CASE e = t
  <2>1. AtMap(t)' = AtMap(t) \cup {w}
    BY <1>1, <1>3 DEF AtMap
  <2> QED
    BY <1>2, <1>3, <2>1, OneWorkerMore
<1>4. CASE e # t
  <2>1. AtMap(t)' = AtMap(t)
    BY <1>1, <1>2, <1>4 DEF AtMap
  <2> QED
    BY <1>2, <1>4, <2>1, SomeWorkers
<1> QED
  BY <1>3, <1>4

\* A worker leaves the map, having looked its task up.
LEMMA AtMapLoss ==
  ASSUME TypeOK, NEW w \in Workers, pc[w] = "check", pc'[w] # "check",
         \A v \in Workers \ {w} : pc'[v] = pc[v] /\ cur'[v] = cur[v],
         NEW t \in TaskIDs
  PROVE  Cardinality(AtMap(t)) = Cardinality(AtMap(t)') + (IF cur[w] = t THEN 1 ELSE 0)
<1>1. w \notin AtMap(t)' /\ AtMap(t)' \in SUBSET Workers
  BY DEF AtMap
<1>2. CASE cur[w] = t
  <2>1. AtMap(t) = AtMap(t)' \cup {w}
    BY <1>2 DEF AtMap
  <2> QED
    BY <1>1, <1>2, <2>1, OneWorkerMore
<1>3. CASE cur[w] # t
  <2>1. AtMap(t)' = AtMap(t)
    BY <1>3 DEF AtMap
  <2> QED
    BY <1>1, <1>3, <2>1, SomeWorkers
<1> QED
  BY <1>2, <1>3

LEMMA AtMapSame ==
  ASSUME NEW w \in Workers, pc[w] # "check", pc'[w] # "check",
         \A v \in Workers \ {w} : pc'[v] = pc[v] /\ cur'[v] = cur[v],
         NEW t \in TaskIDs
  PROVE  AtMap(t)' = AtMap(t)
  BY DEF AtMap

\* What the abstract specification sees of a step.
LEMMA AbstractStutter ==
  ASSUME UNCHANGED <<done, ctxDone, m>>, StopSeen' <=> StopSeen,
         \A t \in TaskIDs : Waiting(t)' = Waiting(t)
  PROVE  UNCHANGED Abstract!vars
  BY DEF Abstract!vars, StopSeen

\* The producer's steps: a poll lets events arrive, leaving the loop closes, and
\* a batch given up with the context is what Close may forget.
LEMMA ProducerRefines ==
  ASSUME TypeOK, TypeOK', BatchInv, EndInv, Producer
  PROVE  Abstract!Next \/ UNCHANGED Abstract!vars
<1>1. UNCHANGED <<workerVars, ctlVars>> /\ disposed' = disposed
  BY DEF Producer, ProdReset, TimerFires, ProdSelectCtxDone, ProdSelectStop,
         ProdDrain, ProdSelectTick, ProdFetch, ProdEnqueue,
         ProdEnqueueCtxDone, ProdBatchSent, ProdClose, histVars
<1>2. \A t \in TaskIDs : AtMap(t)' = AtMap(t)
  BY <1>1 DEF AtMap, workerVars
<1>3. \A t \in TaskIDs :
        /\ Waiting(t) = InBatch(t) + Count(t, events) + Cardinality(AtMap(t))
        /\ Waiting(t)' = InBatch(t)' + Count(t, events') + Cardinality(AtMap(t))
        /\ InBatch(t) \in Nat /\ Count(t, events) \in Nat
        /\ InBatch(t)' \in Nat /\ Count(t, events') \in Nat
        /\ Cardinality(AtMap(t)) \in Nat /\ Waiting(t) \in Nat
  <2> SUFFICES ASSUME NEW t \in TaskIDs
               PROVE  /\ Waiting(t)' = InBatch(t)' + Count(t, events') + Cardinality(AtMap(t))
                      /\ InBatch(t)' \in Nat /\ Count(t, events') \in Nat
    BY WaitingParts
  <2>1. Waiting(t)' = InBatch(t)' + Count(t, events') + Cardinality(AtMap(t)')
    BY DEF Waiting, InBatch, AtMap
  <2>2. Count(t, batch') \in Nat /\ Count(t, events') \in Nat
    BY CountType DEF TypeOK, ProdType, ChanType
  <2> QED
    BY <1>2, <2>1, <2>2 DEF InBatch
<1>4. ~done \/ prod = "returned"
  <2>1. \E w \in Workers : TRUE
    BY PollerAssumption
  <2> QED
    BY <2>1 DEF EndInv
<1>5. CASE ProdFetch
  <2>1. /\ prod = "fetch" /\ prod' = "enqueue" /\ events' = events
    BY <1>5 DEF ProdFetch, chanVars
  <2>2. ~done
    BY <1>4, <2>1
  <2>3. \A t \in TaskIDs : Waiting(t)' >= Waiting(t) /\ Waiting(t)' \in Nat
    BY <1>3, <2>1 DEF InBatch
  <2>4. Abstract!Arrive
    BY <1>1, <1>3, <2>1, <2>2, <2>3 DEF Abstract!Arrive, workerVars, ctlVars
  <2> QED
    BY <2>4 DEF Abstract!Next
<1>6. CASE ProdEnqueue
  <2>1. /\ prod = "enqueue" /\ prod' = prod
        /\ batch \in Seq(TaskIDs) /\ batch # <<>> /\ events \in Seq(TaskIDs)
        /\ events' = Append(events, Head(batch)) /\ batch' = Tail(batch)
    BY <1>6 DEF ProdEnqueue, TypeOK, ProdType, ChanType
  <2>2. Head(batch) \in TaskIDs
    BY <2>1
  <2>3. ASSUME NEW t \in TaskIDs PROVE Waiting(t)' = Waiting(t)
    <3>1. Count(t, events') = Count(t, events) + (IF Head(batch) = t THEN 1 ELSE 0)
      BY <2>1, <2>2, CountAppend
    <3>2. Count(t, batch) = Count(t, batch') + (IF Head(batch) = t THEN 1 ELSE 0)
      BY <2>1, CountTail
    <3>3. InBatch(t) = Count(t, batch) /\ InBatch(t)' = Count(t, batch')
      BY <2>1 DEF InBatch
    <3> QED
      BY <1>3, <3>1, <3>2, <3>3
  <2>4. UNCHANGED Abstract!vars
    BY <1>1, <2>1, <2>3, AbstractStutter DEF workerVars, ctlVars, StopSeen
  <2> QED
    BY <2>4
<1>7. CASE ProdSelectCtxDone \/ ProdSelectStop \/ ProdEnqueueCtxDone
  <2>1. /\ prod \in {"select", "enqueue"} /\ StopSeen' /\ events' = events
        /\ prod' # "enqueue" /\ (prod = "enqueue" => ctxDone)
    BY <1>7 DEF ProdSelectCtxDone, ProdSelectStop, ProdEnqueueCtxDone, StopSeen, chanVars
  <2>2. ~done /\ ~StopSeen
    BY <1>4, <2>1 DEF StopSeen
  <2>3. \A t \in TaskIDs : Waiting(t)' <= Waiting(t) /\ Waiting(t)' \in Nat
    BY <1>3, <2>1 DEF InBatch
  <2>4. prod = "select" => \A t \in TaskIDs : Waiting(t)' = Waiting(t)
    BY <1>3, <2>1 DEF InBatch
  <2>5. Abstract!Close
    BY <1>1, <1>3, <2>1, <2>2, <2>3, <2>4 DEF Abstract!Close, workerVars, ctlVars, StopSeen
  <2> QED
    BY <2>5 DEF Abstract!Next
<1>8. CASE ProdReset \/ TimerFires \/ ProdDrain \/ ProdSelectTick \/ ProdBatchSent \/ ProdClose
  <2>1. /\ events' = events /\ (StopSeen' <=> StopSeen)
        /\ \/ prod # "enqueue" /\ prod' # "enqueue"
           \/ prod' = prod /\ batch' = batch
           \/ prod' # "enqueue" /\ batch = <<>>
    BY <1>8 DEF ProdReset, TimerFires, ProdDrain, ProdSelectTick, ProdBatchSent,
                ProdClose, StopSeen, chanVars
  <2>2. \A t \in TaskIDs : InBatch(t)' = InBatch(t)
    BY <2>1, CountEmpty DEF InBatch
  <2>3. \A t \in TaskIDs : Waiting(t)' = Waiting(t)
    BY <1>3, <2>1, <2>2
  <2> QED
    BY <1>1, <2>1, <2>3, AbstractStutter DEF workerVars, ctlVars
<1> QED
  BY <1>5, <1>6, <1>7, <1>8 DEF Producer

\* A worker's steps: the look at the map begins or skips, the deferred Delete
\* ends, and everything between is inside an execution.
LEMMA WorkerRefines ==
  ASSUME TypeOK, TypeOK', ProcessingInv, NEW w \in Workers, Worker(w)
  PROVE  Abstract!Next \/ UNCHANGED Abstract!vars
<1>1. UNCHANGED <<prodVars, ctlVars>>
  BY DEF Worker, Take, Duplicate, Claim, Acquire, BeginRequest, Handle,
         SendStatus, NoMoreRequests, Return, Exit
<1>2. /\ UNCHANGED <<prod, done, ctxDone>> /\ (StopSeen' <=> StopSeen)
      /\ \A t \in TaskIDs : InBatch(t)' = InBatch(t)
  BY <1>1 DEF prodVars, ctlVars, StopSeen, InBatch
<1>3. \A t \in TaskIDs :
        /\ Waiting(t) = InBatch(t) + Count(t, events) + Cardinality(AtMap(t))
        /\ Waiting(t)' = InBatch(t) + Count(t, events') + Cardinality(AtMap(t)')
        /\ InBatch(t) \in Nat /\ Count(t, events) \in Nat /\ Count(t, events') \in Nat
        /\ Cardinality(AtMap(t)) \in Nat /\ Cardinality(AtMap(t)') \in Nat
        /\ Waiting(t) \in Nat
  <2> SUFFICES ASSUME NEW t \in TaskIDs
               PROVE  /\ Waiting(t)' = InBatch(t) + Count(t, events') + Cardinality(AtMap(t)')
                      /\ Count(t, events') \in Nat
                      /\ Cardinality(AtMap(t)') \in Nat
    BY WaitingParts
  <2>1. Waiting(t)' = InBatch(t)' + Count(t, events') + Cardinality(AtMap(t)')
    BY DEF Waiting, InBatch, AtMap
  <2>2. Count(t, events') \in Nat
    BY CountType DEF TypeOK, ChanType
  <2>3. AtMap(t)' \in SUBSET Workers
    BY DEF AtMap
  <2> QED
    BY <1>2, <2>1, <2>2, <2>3, SomeWorkers
<1>4. CASE Take(w)
  <2>1. /\ events \in Seq(TaskIDs) /\ events # <<>> /\ events' = Tail(events)
        /\ cur' = [cur EXCEPT ![w] = Head(events)]
        /\ pc[w] # "check" /\ pc' = [pc EXCEPT ![w] = "check"] /\ m' = m
    BY <1>4 DEF Take, TypeOK, ChanType
  <2>2. Head(events) \in TaskIDs
    BY <2>1
  <2>3. ASSUME NEW t \in TaskIDs PROVE Waiting(t)' = Waiting(t)
    <3>1. Count(t, events) = Count(t, events') + (IF Head(events) = t THEN 1 ELSE 0)
      BY <2>1, CountTail
    <3>2. Cardinality(AtMap(t)') = Cardinality(AtMap(t)) + (IF Head(events) = t THEN 1 ELSE 0)
      BY <2>1, <2>2, AtMapGain
    <3> QED
      BY <1>3, <3>1, <3>2
  <2> QED
    BY <1>2, <2>1, <2>3, AbstractStutter
<1>5. CASE Duplicate(w) \/ Claim(w)
  <2>1. /\ pc[w] = "check" /\ pc'[w] # "check" /\ cur[w] \in TaskIDs
        /\ \A v \in Workers \ {w} : pc'[v] = pc[v] /\ cur'[v] = cur[v]
        /\ events' = events
    BY <1>5 DEF Duplicate, Claim, Dispose, TypeOK, WorkerType, chanVars
  <2>2. ASSUME NEW t \in TaskIDs
        PROVE  Waiting(t) = Waiting(t)' + (IF cur[w] = t THEN 1 ELSE 0) /\ Waiting(t)' \in Nat
    <3>1. Cardinality(AtMap(t)) = Cardinality(AtMap(t)') + (IF cur[w] = t THEN 1 ELSE 0)
      BY <2>1, AtMapLoss
    <3> QED
      BY <1>3, <2>1, <3>1
  <2>3. Abstract!Remove(cur[w])
    BY <2>1, <2>2, <1>3 DEF Abstract!Remove
  <2>4. CASE Duplicate(w)
    <3>1. cur[w] \in m /\ m' = m
      BY <2>4 DEF Duplicate
    <3>2. Abstract!Skip(cur[w])
      BY <1>2, <2>3, <3>1 DEF Abstract!Skip, StopSeen
    <3> QED
      BY <2>1, <3>2 DEF Abstract!Next
  <2>5. CASE Claim(w)
    <3>1. cur[w] \notin m /\ m' = m \cup {cur[w]}
      BY <2>5 DEF Claim
    <3>2. Abstract!Begin(cur[w])
      BY <1>2, <2>3, <3>1 DEF Abstract!Begin, StopSeen
    <3> QED
      BY <2>1, <3>2 DEF Abstract!Next
  <2> QED
    BY <1>5, <2>4, <2>5
<1>6. CASE Return(w)
  <2>1. /\ pc[w] = "return" /\ pc'[w] # "check" /\ cur[w] \in TaskIDs
        /\ \A v \in Workers \ {w} : pc'[v] = pc[v] /\ cur'[v] = cur[v]
        /\ events' = events /\ m' = m \ {cur[w]}
    BY <1>6 DEF Return, Dispose, TypeOK, WorkerType, chanVars
  <2>2. cur[w] \in m
    BY <2>1 DEF ProcessingInv, MapIsInProcess, Processing
  <2>3. \A t \in TaskIDs : AtMap(t)' = AtMap(t)
    BY <2>1, AtMapSame
  <2>4. \A t \in TaskIDs : Waiting(t)' = Waiting(t)
    BY <1>3, <2>1, <2>3
  <2>5. Abstract!End(cur[w])
    BY <1>2, <2>1, <2>2, <2>4 DEF Abstract!End, StopSeen
  <2> QED
    BY <2>1, <2>5 DEF Abstract!Next
<1>7. CASE \/ Acquire(w) \/ BeginRequest(w) \/ Handle(w) \/ SendStatus(w)
           \/ NoMoreRequests(w) \/ Exit(w)
  <2>1. /\ pc[w] # "check" /\ pc'[w] # "check"
        /\ \A v \in Workers \ {w} : pc'[v] = pc[v] /\ cur'[v] = cur[v]
        /\ events' = events /\ m' = m
    BY <1>7 DEF Acquire, BeginRequest, Handle, SendStatus, NoMoreRequests, Exit,
                TypeOK, WorkerType, chanVars
  <2>2. \A t \in TaskIDs : AtMap(t)' = AtMap(t)
    BY <2>1, AtMapSame
  <2>3. \A t \in TaskIDs : Waiting(t)' = Waiting(t)
    BY <1>3, <2>1, <2>2
  <2> QED
    BY <1>2, <2>1, <2>3, AbstractStutter
<1> QED
  BY <1>4, <1>5, <1>6, <1>7 DEF Worker

LEMMA ControlRefines ==
  ASSUME TypeOK, ProcessingInv, EndInv,
         AllDone \/ StopPollingForTasks \/ WaitForTasks \/ Cancel
  PROVE  Abstract!Next \/ UNCHANGED Abstract!vars
<1>1. UNCHANGED <<prodVars, chanVars, workerVars>>
  BY DEF AllDone, StopPollingForTasks, WaitForTasks, Cancel
<1>2. \A t \in TaskIDs : Waiting(t)' = Waiting(t)
  BY <1>1 DEF Waiting, prodVars, chanVars, workerVars
<1>3. m' = m /\ prod' = prod /\ (StopSeen' <=> StopSeen)
  BY <1>1 DEF workerVars, prodVars, StopSeen
<1>4. CASE AllDone
  <2>1. PICK w \in Workers : TRUE
    BY PollerAssumption
  <2>2. /\ ~done /\ done' = TRUE /\ ctxDone' = ctxDone
        /\ \A v \in Workers : pc[v] = "exited"
    BY <1>4 DEF AllDone
  <2>3. prod = "returned" /\ events = <<>>
    BY <2>1, <2>2 DEF EndInv
  <2>4. m = {}
    BY <2>2 DEF ProcessingInv, MapIsInProcess, Processing
  <2>5. ASSUME NEW t \in TaskIDs PROVE Waiting(t) = 0
    <3>1. AtMap(t) = {}
      BY <2>2 DEF AtMap
    <3>2. InBatch(t) = 0 /\ Count(t, events) = 0 /\ Cardinality(AtMap(t)) = 0
      BY <2>3, <3>1, CountEmpty, FS_EmptySet DEF InBatch
    <3> QED
      BY <3>2, WaitingParts
  <2>6. Abstract!Finish
    BY <1>2, <1>3, <2>2, <2>3, <2>4, <2>5 DEF Abstract!Finish
  <2> QED
    BY <2>6 DEF Abstract!Next
<1>5. CASE Cancel
  <2>1. ctxDone' = TRUE /\ done' = done
    BY <1>5 DEF Cancel
  <2>2. Abstract!Cancel
    BY <1>2, <1>3, <2>1 DEF Abstract!Cancel
  <2> QED
    BY <2>2 DEF Abstract!Next
<1>6. CASE StopPollingForTasks \/ WaitForTasks
  <2>1. UNCHANGED <<done, ctxDone>>
    BY <1>6 DEF StopPollingForTasks, WaitForTasks
  <2> QED
    BY <1>2, <1>3, <2>1, AbstractStutter
<1> QED
  BY <1>4, <1>5, <1>6

\* Every behaviour of the poller, seen through the mapping, is one of
\* TaskExecution: no task executes twice at a time, an event is begun or
\* skipped exactly once, events are given up only with the context, and
\* doneChannel is closed only when nothing waits and nothing executes.
THEOREM PollerImplementsTaskExecution == Spec => ImplementsTaskExecution
<1>1. Init => Abstract!Init
  <2> SUFFICES ASSUME Init PROVE Abstract!Init
    OBVIOUS
  <2>1. ASSUME NEW t \in TaskIDs PROVE Waiting(t) = 0
    <3>1. AtMap(t) = {}
      BY DEF Init, AtMap
    <3>2. InBatch(t) = 0 /\ Count(t, events) = 0 /\ Cardinality(AtMap(t)) = 0
      BY <3>1, CountEmpty, FS_EmptySet DEF InBatch, Init
    <3>3. Waiting(t) = InBatch(t) + Count(t, events) + Cardinality(AtMap(t))
      BY DEF Waiting, InBatch, AtMap
    <3> QED
      BY <3>2, <3>3
  <2> QED
    BY <2>1 DEF Init, Abstract!Init
<1>2. TypeOK /\ TypeOK' /\ BatchInv /\ EndInv /\ ProcessingInv /\ [Next]_vars
        => [Abstract!Next]_(Abstract!vars)
  <2> SUFFICES ASSUME TypeOK, TypeOK', BatchInv, EndInv, ProcessingInv, [Next]_vars
               PROVE  Abstract!Next \/ UNCHANGED Abstract!vars
    OBVIOUS
  <2>1. CASE Producer
    BY <2>1, ProducerRefines
  <2>2. ASSUME NEW w \in Workers, Worker(w)
        PROVE  Abstract!Next \/ UNCHANGED Abstract!vars
    BY <2>2, WorkerRefines
  <2>3. CASE AllDone \/ StopPollingForTasks \/ WaitForTasks \/ Cancel
    BY <2>3, ControlRefines
  <2>4. CASE UNCHANGED vars
    <3>1. UNCHANGED <<prodVars, chanVars, workerVars, ctlVars>>
      BY <2>4 DEF vars
    <3>2. \A t \in TaskIDs : Waiting(t)' = Waiting(t)
      BY <3>1 DEF Waiting, prodVars, chanVars, workerVars
    <3> QED
      BY <3>1, <3>2, AbstractStutter DEF prodVars, workerVars, ctlVars, StopSeen
  <2> QED
    BY <2>1, <2>2, <2>3, <2>4 DEF Next, Terminated
<1>3. Init => BatchInv
  BY DEF Init, BatchInv
<1> QED
  BY <1>1, <1>2, <1>3, TypeCorrect, BatchInductive, EndInvHolds, ProcessingInvHolds, PTL
     DEF Spec, ImplementsTaskExecution, Abstract!Spec
=============================================================================
