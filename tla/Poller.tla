------------------------------- MODULE Poller -------------------------------
(***************************************************************************)
(* The task poller of the runner, delegateshell/poller/poller.go.          *)
(*                                                                         *)
(* PollRunnerEvents starts one producer goroutine, which asks the Harness  *)
(* manager for task events and puts them on a channel of capacity n, and n *)
(* worker goroutines, which take events off the channel and process them.  *)
(* The manager may hand out the same task id more than once; the map m is  *)
(* there so that two workers never work on one task at the same time.      *)
(* Shutdown closes stopChannel, and waits on doneChannel until the         *)
(* producer has closed the events channel and every worker has left.       *)
(*                                                                         *)
(* An event is abstracted to its task id, a request to its place in the    *)
(* payload.  The answers of the manager and of the task handlers are       *)
(* chosen nondeterministically.                                            *)
(***************************************************************************)
EXTENDS Integers, Sequences, FiniteSets, Functions

CONSTANTS Workers,      \* the worker goroutines, n of them
          TaskIDs,      \* the task ids the manager hands out
          MaxEvents,    \* bound: events the manager hands out in a behaviour
          MaxBatch,     \* bound: events in one answer of GetRunnerEvents
          MaxRequests,  \* bound: requests in one execution payload
          NoTask        \* what a worker without an event holds

ASSUME PollerAssumption ==
  /\ Workers # {} /\ IsFiniteSet(Workers)
  /\ TaskIDs # {} /\ IsFiniteSet(TaskIDs) /\ NoTask \notin TaskIDs
  /\ MaxEvents \in Nat /\ MaxBatch \in Nat /\ MaxRequests \in Nat

\* The number of workers is the capacity of the channel as well.
n == Cardinality(Workers)

VARIABLES
  prod,         \* where the producer goroutine is
  timerOn,      \* pollTimer is running
  tick,         \* pollTimer.C, a channel of capacity 1, holds a value
  batch,        \* the rest of the events of the last poll, not yet sent
  events,       \* the events channel
  closed,       \* the events channel is closed
  pc,           \* where each worker is
  cur,          \* the task id of the event a worker holds
  reqs,         \* the number of requests in the payload a worker got
  begun,        \* the number of them it has begun (and has to decrement)
  m,            \* the map of the task ids in process
  running,      \* the gauge of the running tasks
  stop,         \* stopChannel is closed
  done,         \* doneChannel is closed
  ctxDone,      \* the context of PollRunnerEvents is cancelled
  shut,         \* where the caller of Shutdown is
  polled,       \* history: events handed out, for each task id
  disposed,     \* history: events a worker is finished with
  acquired      \* history: calls of GetExecutionPayload

prodVars   == <<prod, timerOn, tick, batch>>
chanVars   == <<events, closed>>
workerVars == <<pc, cur, reqs, begun, m, running>>
ctlVars    == <<stop, done, ctxDone, shut>>
histVars   == <<polled, disposed, acquired>>
vars == <<prodVars, chanVars, workerVars, ctlVars, histVars>>

ProdStates == {"reset", "select", "fetch", "enqueue", "drain", "closing", "returned"}
PCs == {"idle", "check", "acquire", "loop", "handle", "send", "return", "exited"}

Init ==
  /\ prod = "reset" /\ timerOn = TRUE /\ tick = FALSE /\ batch = <<>>
  /\ events = <<>> /\ closed = FALSE
  /\ pc = [w \in Workers |-> "idle"]
  /\ cur = [w \in Workers |-> NoTask]
  /\ reqs = [w \in Workers |-> 0]
  /\ begun = [w \in Workers |-> 0]
  /\ m = {} /\ running = 0
  /\ stop = FALSE /\ done = FALSE /\ ctxDone = FALSE /\ shut = "idle"
  /\ polled = [t \in TaskIDs |-> 0]
  /\ disposed = [t \in TaskIDs |-> 0]
  /\ acquired = [t \in TaskIDs |-> 0]

-----------------------------------------------------------------------------
(* Helpers *)

\* The number of times a task id occurs in a sequence of events.
Count(t, s) == Cardinality({i \in DOMAIN s : s[i] = t})

Plus(x, y) == x + y

SumOver(f, S) == FoldFunctionOnSet(Plus, 0, f, S)

\* The answers the manager can still give to a poll.  No answer at all (an
\* error or the timeout of the call) looks like an empty one to the producer.
Answers ==
  UNION {[1..k -> TaskIDs] :
           k \in {j \in 0..MaxBatch : SumOver(polled, TaskIDs) + j <= MaxEvents}}

\* A worker is finished with the event it holds.
Dispose(w) ==
  /\ disposed' = [disposed EXCEPT ![cur[w]] = @ + 1]
  /\ cur' = [cur EXCEPT ![w] = NoTask]
  /\ pc' = [pc EXCEPT ![w] = "idle"]

-----------------------------------------------------------------------------
(* Variants of actions with a bug in them.  The specification does not use  *)
(* them: each is the mutant that some property has to tell from the action. *)

\* The batch is sent without regard for the capacity of the channel.
ProdEnqueueUnbounded ==
  /\ prod = "enqueue" /\ batch # <<>>
  /\ events' = Append(events, Head(batch))
  /\ batch' = Tail(batch)
  /\ UNCHANGED <<prod, timerOn, tick, closed, workerVars, ctlVars, histVars>>

\* A default case in the select drops the event when the channel is full.
ProdEnqueueOrDrop ==
  /\ prod = "enqueue" /\ batch # <<>>
  /\ events' = IF Len(events) < n THEN Append(events, Head(batch)) ELSE events
  /\ batch' = Tail(batch)
  /\ UNCHANGED <<prod, timerOn, tick, closed, workerVars, ctlVars, histVars>>

\* The test of pollTimer.Stop is the wrong way round.
ProdSelectStopInverted ==
  /\ prod = "select" /\ stop
  /\ timerOn' = FALSE
  /\ prod' = IF timerOn THEN "drain" ELSE "closing"
  /\ UNCHANGED <<tick, batch, chanVars, workerVars, ctlVars, histVars>>

\* A break instead of the return: it leaves the select, not the loop.
ProdDrainBreak ==
  /\ prod = "drain" /\ tick
  /\ tick' = FALSE
  /\ prod' = "reset"
  /\ UNCHANGED <<timerOn, batch, chanVars, workerVars, ctlVars, histVars>>

\* The Delete is deferred before the return of a duplicate.
DuplicateDeletes(w) ==
  /\ pc[w] = "check" /\ cur[w] \in m
  /\ m' = m \ {cur[w]}
  /\ Dispose(w)
  /\ UNCHANGED <<prodVars, chanVars, reqs, begun, running, ctlVars, polled, acquired>>

\* One decrement for the whole payload.
ReturnOneDecrement(w) ==
  /\ pc[w] = "return"
  /\ running' = IF begun[w] > 0 THEN running - 1 ELSE running
  /\ m' = m \ {cur[w]}
  /\ begun' = [begun EXCEPT ![w] = 0]
  /\ reqs' = [reqs EXCEPT ![w] = 0]
  /\ Dispose(w)
  /\ UNCHANGED <<prodVars, chanVars, ctlVars, polled, acquired>>

\* A worker leaves as soon as it sees the channel closed.
ExitEager(w) ==
  /\ pc[w] = "idle" /\ closed
  /\ pc' = [pc EXCEPT ![w] = "exited"]
  /\ UNCHANGED <<prodVars, chanVars, cur, reqs, begun, m, running, ctlVars, histVars>>

\* wg.Add is missing but for one worker.
AllDoneEarly ==
  /\ ~done
  /\ \E w \in Workers : pc[w] = "exited"
  /\ done' = TRUE
  /\ UNCHANGED <<prodVars, chanVars, workerVars, stop, ctxDone, shut, histVars>>

-----------------------------------------------------------------------------
(* The producer goroutine *)

\* pollTimer.Reset at the head of the loop.  It arms the timer and, with the
\* timer channels of this Go version, leaves a value in pollTimer.C there.
ProdReset ==
  /\ prod = "reset"
  /\ timerOn' = TRUE
  /\ prod' = "select"
  /\ UNCHANGED <<tick, batch, chanVars, workerVars, ctlVars, histVars>>

\* The runtime fires the timer: a send that is dropped when C is full.
TimerFires ==
  /\ timerOn
  /\ timerOn' = FALSE
  /\ tick' = TRUE
  /\ UNCHANGED <<prod, batch, chanVars, workerVars, ctlVars, histVars>>

ProdSelectCtxDone ==
  /\ prod = "select" /\ ctxDone
  /\ prod' = "closing"
  /\ UNCHANGED <<timerOn, tick, batch, chanVars, workerVars, ctlVars, histVars>>

\* The case of stopChannel: a timer that pollTimer.Stop finds expired has its
\* channel drained first.
ProdSelectStop ==
  /\ prod = "select" /\ stop
  /\ timerOn' = FALSE
  /\ prod' = IF timerOn THEN "closing" ELSE "drain"
  /\ UNCHANGED <<tick, batch, chanVars, workerVars, ctlVars, histVars>>

ProdDrain ==
  /\ prod = "drain" /\ tick
  /\ tick' = FALSE
  /\ prod' = "closing"
  /\ UNCHANGED <<timerOn, batch, chanVars, workerVars, ctlVars, histVars>>

ProdSelectTick ==
  /\ prod = "select" /\ tick
  /\ tick' = FALSE
  /\ prod' = "fetch"
  /\ UNCHANGED <<timerOn, batch, chanVars, workerVars, ctlVars, histVars>>

\* GetRunnerEvents: with a cancelled context the call fails.
ProdFetch ==
  /\ prod = "fetch"
  /\ \E b \in Answers :
       /\ ctxDone => b = <<>>
       /\ batch' = b
       /\ polled' = [t \in TaskIDs |-> polled[t] + Count(t, b)]
  /\ prod' = "enqueue"
  /\ UNCHANGED <<timerOn, tick, chanVars, workerVars, ctlVars, disposed, acquired>>

ProdEnqueue ==
  /\ prod = "enqueue" /\ batch # <<>>
  /\ Len(events) < n
  /\ events' = Append(events, Head(batch))
  /\ batch' = Tail(batch)
  /\ UNCHANGED <<prod, timerOn, tick, closed, workerVars, ctlVars, histVars>>

\* The rest of the batch is abandoned.
ProdEnqueueCtxDone ==
  /\ prod = "enqueue" /\ batch # <<>> /\ ctxDone
  /\ prod' = "closing"
  /\ UNCHANGED <<timerOn, tick, batch, chanVars, workerVars, ctlVars, histVars>>

ProdBatchSent ==
  /\ prod = "enqueue" /\ batch = <<>>
  /\ prod' = "reset"
  /\ UNCHANGED <<timerOn, tick, batch, chanVars, workerVars, ctlVars, histVars>>

\* The deferred calls of the producer: pollTimer.Stop, then close(events).
ProdClose ==
  /\ prod = "closing"
  /\ timerOn' = FALSE
  /\ closed' = TRUE
  /\ prod' = "returned"
  /\ UNCHANGED <<tick, batch, events, workerVars, ctlVars, histVars>>

Producer ==
  \/ ProdReset \/ TimerFires \/ ProdSelectCtxDone \/ ProdSelectStop
  \/ ProdDrain \/ ProdSelectTick \/ ProdFetch \/ ProdEnqueue
  \/ ProdEnqueueCtxDone \/ ProdBatchSent \/ ProdClose

-----------------------------------------------------------------------------
(* The worker goroutines *)

\* range events
Take(w) ==
  /\ pc[w] = "idle" /\ events # <<>>
  /\ cur' = [cur EXCEPT ![w] = Head(events)]
  /\ events' = Tail(events)
  /\ pc' = [pc EXCEPT ![w] = "check"]
  /\ UNCHANGED <<prodVars, closed, reqs, begun, m, running, ctlVars, histVars>>

\* LoadOrStore finds another worker at the task: the event is dropped.
Duplicate(w) ==
  /\ pc[w] = "check" /\ cur[w] \in m
  /\ Dispose(w)
  /\ UNCHANGED <<prodVars, chanVars, reqs, begun, m, running, ctlVars, polled, acquired>>

Claim(w) ==
  /\ pc[w] = "check" /\ cur[w] \notin m
  /\ m' = m \cup {cur[w]}
  /\ pc' = [pc EXCEPT ![w] = "acquire"]
  /\ UNCHANGED <<prodVars, chanVars, cur, reqs, begun, running, ctlVars, histVars>>

\* GetExecutionPayload
Acquire(w) ==
  /\ pc[w] = "acquire"
  /\ acquired' = [acquired EXCEPT ![cur[w]] = @ + 1]
  /\ \/ /\ ~ctxDone
        /\ \E k \in 0..MaxRequests : reqs' = [reqs EXCEPT ![w] = k]
        /\ pc' = [pc EXCEPT ![w] = "loop"]
     \/ /\ pc' = [pc EXCEPT ![w] = "return"]
        /\ UNCHANGED reqs
  /\ UNCHANGED <<prodVars, chanVars, cur, begun, m, running, ctlVars, polled, disposed>>

BeginRequest(w) ==
  /\ pc[w] = "loop" /\ begun[w] < reqs[w]
  /\ running' = running + 1
  /\ begun' = [begun EXCEPT ![w] = @ + 1]
  /\ pc' = [pc EXCEPT ![w] = "handle"]
  /\ UNCHANGED <<prodVars, chanVars, cur, reqs, m, ctlVars, histVars>>

\* router.Handle: no response to send, or a response (of success or failure).
Handle(w) ==
  /\ pc[w] = "handle"
  /\ \E next \in {"loop", "send"} : pc' = [pc EXCEPT ![w] = next]
  /\ UNCHANGED <<prodVars, chanVars, cur, reqs, begun, m, running, ctlVars, histVars>>

\* SendStatus; an error, of the call or of encoding the response, ends process.
SendStatus(w) ==
  /\ pc[w] = "send"
  /\ \/ ~ctxDone /\ pc' = [pc EXCEPT ![w] = "loop"]
     \/ pc' = [pc EXCEPT ![w] = "return"]
  /\ UNCHANGED <<prodVars, chanVars, cur, reqs, begun, m, running, ctlVars, histVars>>

NoMoreRequests(w) ==
  /\ pc[w] = "loop" /\ begun[w] = reqs[w]
  /\ pc' = [pc EXCEPT ![w] = "return"]
  /\ UNCHANGED <<prodVars, chanVars, cur, reqs, begun, m, running, ctlVars, histVars>>

\* The deferred calls of process: one decrement for each request it has
\* begun, whichever way it returns, and then the removal of the mapping.
Return(w) ==
  /\ pc[w] = "return"
  /\ running' = running - begun[w]
  /\ m' = m \ {cur[w]}
  /\ begun' = [begun EXCEPT ![w] = 0]
  /\ reqs' = [reqs EXCEPT ![w] = 0]
  /\ Dispose(w)
  /\ UNCHANGED <<prodVars, chanVars, ctlVars, polled, acquired>>

Exit(w) ==
  /\ pc[w] = "idle" /\ closed /\ events = <<>>
  /\ pc' = [pc EXCEPT ![w] = "exited"]
  /\ UNCHANGED <<prodVars, chanVars, cur, reqs, begun, m, running, ctlVars, histVars>>

Worker(w) ==
  \/ Take(w) \/ Duplicate(w) \/ Claim(w) \/ Acquire(w) \/ BeginRequest(w)
  \/ Handle(w) \/ SendStatus(w) \/ NoMoreRequests(w) \/ Return(w) \/ Exit(w)

-----------------------------------------------------------------------------
(* PollRunnerEvents, Shutdown and the context *)

\* wg.Wait returns, and doneChannel is closed.
AllDone ==
  /\ ~done
  /\ \A w \in Workers : pc[w] = "exited"
  /\ done' = TRUE
  /\ UNCHANGED <<prodVars, chanVars, workerVars, stop, ctxDone, shut, histVars>>

StopPollingForTasks ==
  /\ shut = "idle"
  /\ stop' = TRUE
  /\ shut' = "waiting"
  /\ UNCHANGED <<prodVars, chanVars, workerVars, done, ctxDone, histVars>>

WaitForTasks ==
  /\ shut = "waiting" /\ done
  /\ shut' = "returned"
  /\ UNCHANGED <<prodVars, chanVars, workerVars, stop, done, ctxDone, histVars>>

Cancel ==
  /\ ~ctxDone
  /\ ctxDone' = TRUE
  /\ UNCHANGED <<prodVars, chanVars, workerVars, stop, done, shut, histVars>>

\* The end of the poller, so that TLC reports every other state without a
\* successor as a deadlock.
Terminated == done /\ shut = "returned" /\ UNCHANGED vars

Next ==
  \/ Producer
  \/ \E w \in Workers : Worker(w)
  \/ AllDone \/ StopPollingForTasks \/ WaitForTasks \/ Cancel
  \/ Terminated

Spec == Init /\ [][Next]_vars

\* Goroutines that can run are run, calls of the manager and the handlers
\* return, and a select that meets a closed stopChannel again and again
\* takes that case at last (it picks uniformly among the cases that are ready).
Fairness ==
  /\ WF_vars(Producer)
  /\ SF_vars(ProdSelectStop)
  /\ \A w \in Workers : WF_vars(Worker(w))
  /\ WF_vars(AllDone) /\ WF_vars(WaitForTasks)

FairSpec == Spec /\ Fairness

-----------------------------------------------------------------------------
(* Properties *)

ProdType ==
  /\ prod \in ProdStates
  /\ timerOn \in BOOLEAN /\ tick \in BOOLEAN
  /\ batch \in Seq(TaskIDs)

ChanType ==
  /\ events \in Seq(TaskIDs) /\ Len(events) <= n
  /\ closed \in BOOLEAN

WorkerType ==
  /\ pc \in [Workers -> PCs]
  /\ cur \in [Workers -> TaskIDs \cup {NoTask}]
  /\ \A w \in Workers : cur[w] = NoTask <=> pc[w] \in {"idle", "exited"}
  /\ reqs \in [Workers -> 0..MaxRequests]
  /\ begun \in [Workers -> 0..MaxRequests]
  /\ m \in SUBSET TaskIDs
  /\ running \in Int

CtlType ==
  /\ stop \in BOOLEAN /\ done \in BOOLEAN /\ ctxDone \in BOOLEAN
  /\ shut \in {"idle", "waiting", "returned"}

HistType ==
  /\ polled \in [TaskIDs -> Nat]
  /\ disposed \in [TaskIDs -> Nat]
  /\ acquired \in [TaskIDs -> Nat]

\* Every variable keeps to its type; in particular the channel never holds more
\* than n events, a worker holds an event exactly while it is not at the range
\* statement, and begins no more requests than its payload has.
TypeOK == ProdType /\ ChanType /\ WorkerType /\ CtlType /\ HistType

\* The states of a worker between LoadOrStore and the deferred Delete.
Processing == {"acquire", "loop", "handle", "send", "return"}

\* "We need to make sure two different threads do not acquire the same task":
\* no two workers are between LoadOrStore and Delete with one task id, however
\* often the manager hands it out.
ExclusiveProcessing ==
  \A v, w \in Workers :
    v # w /\ pc[v] \in Processing /\ pc[w] \in Processing => cur[v] # cur[w]

\* The map never keeps a task id nobody works on (no event of that task would
\* ever be processed again) and never lacks one somebody works on.
MapIsInProcess ==
  m = {cur[w] : w \in {v \in Workers : pc[v] \in Processing}}

\* Both, for neither lasts without the other: who is let in is decided by the map.
ProcessingInv == MapIsInProcess /\ ExclusiveProcessing

\* The running gauge counts the requests the workers have begun and whose
\* decrement is due (each is its worker and its place in the payload), so that
\* it settles at zero on every return path.
Due == {d \in Workers \X (1..MaxRequests) : d[2] <= begun[d[1]]}
RunningGauge ==
  /\ running = Cardinality(Due)
  /\ done => running = 0

\* Every event handed out is in the batch, on the channel, with a worker or
\* finished with: none is lost or processed twice on the way.  So it is also when
\* doneChannel is closed, which ImplementsTaskExecution says happens only with nothing
\* waiting and nothing in process.
InHands(t) == Cardinality({w \in Workers : cur[w] = t})
EventsConserved ==
  \A t \in TaskIDs :
    polled[t] = Count(t, batch) + Count(t, events) + InHands(t) + disposed[t]

\* The stop case waits on pollTimer.C only when a value is there, so that it
\* cannot block the shutdown for ever.
DrainFindsTick == prod = "drain" => tick

\* Once the producer has taken the stop case, no worker is given a task that was
\* not handed out before: the manager is not asked for tasks again.
StopSeen == prod \in {"drain", "closing", "returned"}
NoPollAfterStopSeen == [][StopSeen => StopSeen' /\ polled' = polled]_vars

\* Shutdown returns once it has asked the poller to stop.
ShutdownReturns == shut = "waiting" ~> shut = "returned"

\* Without a cancelled context every event handed out is dealt with: when the
\* manager has no more of them, a worker has finished with each.
EveryEventDisposed == <>[](polled = disposed \/ ctxDone)

\* "This map makes sure Acquire() is called only once per task ID."
AcquiredOnce == \A t \in TaskIDs : acquired[t] <= 1

-----------------------------------------------------------------------------
(* The poller implements TaskExecution: an event waits from the answer of   *)
(* the manager to the look at the map, and a task executes as long as it is *)
(* in the map.  A batch the producer has given up does not wait any more.   *)

Waiting(t) ==
  (IF prod = "enqueue" THEN Count(t, batch) ELSE 0)
    + Count(t, events)
    + Cardinality({w \in Workers : pc[w] = "check" /\ cur[w] = t})

Abstract == INSTANCE TaskExecution WITH
  phase     <- IF done THEN "finished"
               ELSE IF prod \in {"drain", "closing", "returned"} THEN "closed"
               ELSE "open",
  cancelled <- ctxDone,
  pending   <- [t \in TaskIDs |-> Waiting(t)],
  executing <- m

ImplementsTaskExecution == Abstract!Spec
=============================================================================
