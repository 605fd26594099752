--------------------------- MODULE ServerCommand ---------------------------
(***************************************************************************)
(* The life of the program, cli/server/server_command.go with server.go    *)
(* and delegateshell/delegate_shell.go: how it is set up, registers the    *)
(* runner, starts its goroutines, takes a signal, and ends.                *)
(*                                                                         *)
(* A signal reaches the program twice: through signal.NotifyContext it     *)
(* cancels the context everything runs with, and through the channel s it  *)
(* has a goroutine (the watcher) call DelegateShell.Shutdown.  Neither     *)
(* waits for the other, and main waits for neither: it returns when the    *)
(* goroutines of its errgroup have returned.  Poller and reconciler are    *)
(* here no more than goroutines with work in progress; Poller and          *)
(* DaemonSetReconciler have their insides.                                 *)
(***************************************************************************)
EXTENDS Naturals, FiniteSets

CONSTANTS MaxBusy,   \* workers of the poller (ParallelWorkers)
          MaxTasks,  \* bound: tasks begun in a behaviour
          MaxUnderway \* bound: requests on their way at a time

ASSUME ServerAssumption == MaxBusy \in Nat /\ MaxTasks \in Nat /\ MaxUnderway \in Nat

VARIABLES
  main,      \* where run is
  ctxDone,   \* ctx of run is cancelled
  notified,  \* the signal waits at the channel of NotifyContext
  s,         \* the channel s: "untrapped", "empty", "signal", or "stopped"
  signalled, \* history: the signal has been sent
  watcher,   \* where the goroutine that watches s and ctx is
  started,   \* the processes that have been started
  rec,       \* the reconciler: "off", "on", "stopping" (cancelled) or "stopped"
  poller,    \* the producer: "off", "polling", "ended"; "done" with the workers
  stopReq,   \* stopChannel is closed
  busy,      \* tasks in progress
  begun,     \* tasks begun, for the bound
  beating,   \* the heartbeat goroutine runs
  http,      \* the server: "off", "up", "broken" (ListenAndServe failed), "down",
             \* or "refused" (Start returned at once, the certificates are bad)
  pool,      \* the VM pool: "none" is configured, or it is "configured", "up", "cleaned"
  daemons,   \* there are daemon set processes
  underway,  \* registrations and heartbeats past their last look at the context that
             \* the manager has not executed yet
  told       \* what the manager has heard last: "nothing", that the runner is "here"
             \* (register, heartbeat), or "gone" (unregister)

sigVars == <<notified, s, signalled>>
pollVars == <<poller, busy, begun>>
outside == <<daemons, underway, told>>
vars == <<main, ctxDone, sigVars, watcher, started, rec, pollVars, stopReq,
          beating, http, pool, outside>>

UsesPool == pool # "none"

\* What main starts with its errgroup and what StartRunnerProcesses starts.
AllProcesses == {"reconciler", "poller", "heartbeat", "http", "cleanup"}
Processes == IF UsesPool THEN AllProcesses ELSE AllProcesses \ {"cleanup"}

Init ==
  /\ main = "wire"
  /\ ctxDone = FALSE /\ notified = FALSE /\ s = "untrapped" /\ signalled = FALSE
  /\ watcher = "off" /\ started = {}
  /\ rec = "off" /\ poller = "off" /\ stopReq = FALSE /\ busy = 0 /\ begun = 0
  /\ beating = FALSE /\ http = "off" /\ pool \in {"none", "configured"}
  /\ daemons = FALSE /\ underway = 0 /\ told = "nothing"

\* Everything ends when main returns.
Running == main # "exited"

\* run goes on at l; when it returns, at the first of its deferred calls.
Goto(l) == main' = l

-----------------------------------------------------------------------------
(* Variants of actions with a bug in them, which the properties have to tell *)
(* from the actions; the specification does not use them.                    *)

\* StartRunnerProcesses returns at once, and the HTTP server when it fails.
AllReturnedEarly ==
  /\ main = "wait" /\ started = Processes
  /\ http # "up" \/ ctxDone
  /\ Goto("unregister")
  /\ http' = IF ctxDone THEN "down" ELSE http
  /\ UNCHANGED <<ctxDone, sigVars, watcher, started, rec, pollVars, stopReq, beating,
                 pool, outside>>

\* A server that could not listen is not shut down.
HttpStopsOnlyUp ==
  /\ http \in {"up", "broken"} /\ ctxDone
  /\ http' = IF http = "up" THEN "down" ELSE http
  /\ UNCHANGED <<main, ctxDone, sigVars, watcher, started, rec, pollVars, stopReq,
                 beating, pool, outside>>

\* The pool is cleaned up by the errgroup only.
CleanupForgotten ==
  /\ main = "cleanup" /\ Goto("exited")
  /\ UNCHANGED <<ctxDone, sigVars, watcher, started, rec, pollVars, stopReq, beating,
                 http, pool, outside>>

\* A heartbeat has a context of its own.
BeatOwnContext ==
  /\ beating
  /\ underway < MaxUnderway /\ underway' = underway + 1
  /\ UNCHANGED <<main, ctxDone, sigVars, watcher, started, rec, pollVars, stopReq,
                 beating, http, pool, daemons, told>>

-----------------------------------------------------------------------------
(* main *)

\* The initializer, which may fail, before the deferred calls are set up.
Wire ==
  /\ main = "wire"
  /\ Goto("pool") \/ Goto("exited")
  /\ UNCHANGED <<ctxDone, sigVars, watcher, started, rec, pollVars, stopReq, beating,
                 http, pool, outside>>

\* SetupPoolWithFile; its Cleanup is deferred whether it fails or not.
SetupPool ==
  /\ main = "pool"
  /\ IF UsesPool THEN pool' = "up" /\ (Goto("trap") \/ Goto("cleanup"))
                 ELSE Goto("trap") /\ UNCHANGED pool
  /\ UNCHANGED <<ctxDone, sigVars, watcher, started, rec, pollVars, stopReq, beating,
                 http, outside>>

\* signal.Notify, and the goroutine that waits for the signal.
Trap ==
  /\ main = "trap" /\ Goto("register")
  /\ s' = "empty" /\ watcher' = "select"
  /\ UNCHANGED <<ctxDone, notified, signalled, started, rec, pollVars, stopReq,
                 beating, http, pool, outside>>

\* The request may reach the manager although it fails here: it is lost on its
\* way back, or the context is cancelled meanwhile.  Earlier attempts, which were given
\* up, may be on their way still.
Register ==
  /\ main = "register"
  /\ \/ told' = "here" /\ ~ctxDone /\ Goto("start")
     \/ told' \in {"nothing", "here"} /\ Goto("stop")
  /\ underway' \in 0..MaxUnderway
  /\ UNCHANGED <<ctxDone, sigVars, watcher, started, rec, pollVars, stopReq, beating,
                 http, pool, daemons>>

Group ==
  /\ main = "start" /\ Goto("wait")
  /\ UNCHANGED <<ctxDone, sigVars, watcher, started, rec, pollVars, stopReq, beating,
                 http, pool, outside>>

\* The goroutines of the two errgroups get going, in any order.
Begin(x) ==
  /\ main = "wait" /\ x \in Processes \ started
  /\ started' = started \cup {x}
  /\ rec' = IF x # "reconciler" THEN rec ELSE IF rec = "stopping" THEN rec ELSE "on"
  /\ poller' = IF x = "poller" THEN "polling" ELSE poller
  /\ beating' = (beating \/ x = "heartbeat")
  /\ http' \in IF x = "http" THEN {"up", "broken", "refused"} ELSE {http}
  /\ UNCHANGED <<main, ctxDone, sigVars, watcher, stopReq, busy, begun, pool, outside>>

\* g.Wait: the poller has returned, the HTTP server too, and the pool is cleaned.
AllReturned ==
  /\ main = "wait" /\ started = Processes
  /\ poller = "done" /\ http \in {"down", "refused"} /\ (UsesPool => pool = "cleaned")
  /\ Goto("unregister")
  /\ UNCHANGED <<ctxDone, sigVars, watcher, started, rec, pollVars, stopReq, beating,
                 http, pool, outside>>

\* The deferred calls: Unregister, with a context of its own, whose failure is logged
\* only; ...
Unregister ==
  /\ main = "unregister" /\ Goto("stop")
  /\ told' \in {"gone", told}
  /\ UNCHANGED <<ctxDone, sigVars, watcher, started, rec, pollVars, stopReq, beating,
                 http, pool, daemons, underway>>

\* ... signal.Stop; ...
StopTrap ==
  /\ main = "stop" /\ Goto("cleanup")
  /\ s' = IF s = "signal" THEN s ELSE "stopped"
  /\ UNCHANGED <<ctxDone, notified, signalled, watcher, started, rec, pollVars, stopReq,
                 beating, http, pool, outside>>

\* ... and harness.Cleanup, if there is a pool.
Cleanup ==
  /\ main = "cleanup" /\ Goto("exited")
  /\ pool' = IF UsesPool THEN "cleaned" ELSE pool
  /\ UNCHANGED <<ctxDone, sigVars, watcher, started, rec, pollVars, stopReq, beating,
                 http, outside>>

Main == \/ Wire \/ SetupPool \/ Trap \/ Register \/ Group
        \/ \E x \in Processes : Begin(x)
        \/ AllReturned \/ Unregister \/ StopTrap \/ Cleanup

-----------------------------------------------------------------------------
(* The processes *)

\* The poller's producer leaves its loop at a stop, or with the context.
PollerEnds ==
  /\ poller = "polling" /\ (stopReq \/ ctxDone)
  /\ poller' = "ended"
  /\ UNCHANGED <<main, ctxDone, sigVars, watcher, started, rec, busy, begun, stopReq,
                 beating, http, pool, outside>>

\* A worker acquires a task, which it cannot with a cancelled context.
TaskBegins ==
  /\ poller \in {"polling", "ended"} /\ ~ctxDone
  /\ busy < MaxBusy /\ begun < MaxTasks
  /\ busy' = busy + 1 /\ begun' = begun + 1
  /\ UNCHANGED <<main, ctxDone, sigVars, watcher, started, rec, poller, stopReq,
                 beating, http, pool, outside>>

TaskEnds ==
  /\ busy > 0 /\ busy' = busy - 1
  /\ UNCHANGED <<main, ctxDone, sigVars, watcher, started, rec, poller, begun, stopReq,
                 beating, http, pool, outside>>

\* The workers are through: wg.Wait, and doneChannel is closed.
PollerDone ==
  /\ poller = "ended" /\ busy = 0 /\ poller' = "done"
  /\ UNCHANGED <<main, ctxDone, sigVars, watcher, started, rec, busy, begun, stopReq,
                 beating, http, pool, outside>>

\* A handler or the reconciler starts a daemon set.
DaemonStarts ==
  /\ busy > 0 \/ ("reconciler" \in started /\ rec # "stopped")
  /\ daemons' = TRUE
  /\ UNCHANGED <<main, ctxDone, sigVars, watcher, started, rec, pollVars, stopReq,
                 beating, http, pool, underway, told>>

\* The loop of the reconciler sees its context done.
RecStops ==
  /\ rec = "stopping" \/ (rec = "on" /\ ctxDone)
  /\ "reconciler" \in started
  /\ rec' = "stopped"
  /\ UNCHANGED <<main, ctxDone, sigVars, watcher, started, pollVars, stopReq, beating,
                 http, pool, outside>>

\* A heartbeat is past the transport's look at its context.  From here on it is on its
\* way: its goroutine, for which nobody waits, may be slow to send it, or give up waiting
\* for the answer, after 15 seconds or with the context, and go on to the next one.  (The
\* select may prefer the timer to a cancelled context: that heartbeat fails unsent.)
Beat ==
  /\ beating /\ ~ctxDone
  /\ underway < MaxUnderway /\ underway' = underway + 1
  /\ UNCHANGED <<main, ctxDone, sigVars, watcher, started, rec, pollVars, stopReq,
                 beating, http, pool, daemons, told>>

BeatStops ==
  /\ beating /\ ctxDone /\ beating' = FALSE
  /\ UNCHANGED <<main, ctxDone, sigVars, watcher, started, rec, pollVars, stopReq,
                 http, pool, outside>>

\* Server.Start waits for the context even when ListenAndServe has failed, and
\* returns its error then.
HttpStops ==
  /\ http \in {"up", "broken"} /\ ctxDone
  /\ http' = "down"
  /\ UNCHANGED <<main, ctxDone, sigVars, watcher, started, rec, pollVars, stopReq,
                 beating, pool, outside>>

\* The goroutine of the errgroup that cleans the pool up.
PoolCleaned ==
  /\ "cleanup" \in started /\ ctxDone /\ pool = "up"
  /\ pool' = "cleaned"
  /\ UNCHANGED <<main, ctxDone, sigVars, watcher, started, rec, pollVars, stopReq,
                 beating, http, outside>>

\* The manager executes a request whenever it arrives, or it is lost.
Arrives ==
  /\ underway > 0 /\ underway' = underway - 1
  /\ told' \in {told, "here"}
  /\ UNCHANGED <<main, ctxDone, sigVars, watcher, started, rec, pollVars, stopReq,
                 beating, http, pool, daemons>>

Process == \/ PollerEnds \/ TaskEnds \/ PollerDone \/ RecStops \/ BeatStops
           \/ HttpStops \/ PoolCleaned

-----------------------------------------------------------------------------
(* The signal, and the goroutine that watches for it *)

\* The runtime sends the signal to both channels, if s is registered yet.
Signal ==
  /\ ~signalled /\ signalled' = TRUE
  /\ notified' = TRUE
  /\ s' = IF s = "empty" THEN "signal" ELSE s
  /\ UNCHANGED <<main, ctxDone, watcher, started, rec, pollVars, stopReq, beating,
                 http, pool, outside>>

\* The goroutine of NotifyContext.
CancelCtx ==
  /\ notified /\ ctxDone' = TRUE /\ notified' = FALSE
  /\ UNCHANGED <<main, s, signalled, watcher, started, rec, pollVars, stopReq, beating,
                 http, pool, outside>>

\* The watcher moves on, and touches nothing but what its step names.
Watch(from, to) ==
  /\ watcher = from /\ watcher' = to
  /\ UNCHANGED <<main, notified, signalled, started, pollVars, beating, http, pool,
                 underway, told>>

TakesSignal ==
  /\ s = "signal" /\ s' = "empty" /\ Watch("select", "stoprec")
  /\ UNCHANGED <<ctxDone, rec, stopReq, daemons>>

\* "Received a done signal to exit server, this should not happen"
TakesDone ==
  /\ ctxDone /\ Watch("select", "unexpected")
  /\ UNCHANGED <<s, ctxDone, rec, stopReq, daemons>>

\* DelegateShell.Shutdown: DaemonSetReconciler.Stop, ...
StopReconciler ==
  /\ Watch("stoprec", "waitrec")
  /\ rec' = IF rec = "stopped" THEN rec ELSE "stopping"
  /\ UNCHANGED <<s, ctxDone, stopReq, daemons>>

\* ... Poller.Shutdown, ...
StopPoller ==
  /\ rec = "stopped" /\ Watch("waitrec", "waitpoller")
  /\ stopReq' = TRUE
  /\ UNCHANGED <<s, ctxDone, rec, daemons>>

\* ... and RemoveAllDaemonSets; ...
RemoveAll ==
  /\ poller = "done" /\ Watch("waitpoller", "cancel")
  /\ daemons' = FALSE
  /\ UNCHANGED <<s, ctxDone, rec, stopReq>>

\* ... at last cancel().
WatcherCancels ==
  /\ Watch("cancel", "returned") /\ ctxDone' = TRUE
  /\ UNCHANGED <<s, rec, stopReq, daemons>>

Watcher == TakesSignal \/ TakesDone \/ StopReconciler \/ StopPoller \/ RemoveAll
             \/ WatcherCancels

-----------------------------------------------------------------------------

Exited == ~Running /\ UNCHANGED vars

Next ==
  \/ Running /\ (Main \/ Process \/ TaskBegins \/ DaemonStarts \/ Beat
                   \/ Signal \/ CancelCtx \/ Watcher)
  \/ Arrives   \* with the program or without it
  \/ Exited

Spec == Init /\ [][Next]_vars

\* Goroutines that can go on do, and every task ends.
Fairness ==
  /\ WF_vars(Running /\ Main)
  /\ \A x \in AllProcesses : WF_vars(Running /\ Begin(x))
  /\ WF_vars(Running /\ PollerEnds) /\ WF_vars(Running /\ TaskEnds)
  /\ WF_vars(Running /\ PollerDone) /\ WF_vars(Running /\ HttpStops)
  /\ WF_vars(Running /\ PoolCleaned) /\ WF_vars(Running /\ RecStops)
  /\ WF_vars(Running /\ CancelCtx) /\ WF_vars(Running /\ Watcher)

FairSpec == Spec /\ Fairness

-----------------------------------------------------------------------------
(* Properties *)

TypeOK ==
  /\ main \in {"wire", "pool", "trap", "register", "start", "wait", "unregister",
               "stop", "cleanup", "exited"}
  /\ {ctxDone, notified, signalled, stopReq, beating, daemons} \subseteq BOOLEAN
  /\ s \in {"untrapped", "empty", "signal", "stopped"}
  /\ watcher \in {"off", "select", "stoprec", "waitrec", "waitpoller", "cancel",
                  "returned", "unexpected"}
  /\ started \subseteq Processes
  /\ rec \in {"off", "on", "stopping", "stopped"}
  /\ poller \in {"off", "polling", "ended", "done"}
  /\ busy \in 0..MaxBusy /\ begun \in busy..MaxTasks
  /\ http \in {"off", "up", "broken", "down", "refused"}
  /\ pool \in {"none", "configured", "up", "cleaned"}
  /\ underway \in 0..MaxUnderway
  /\ told \in {"nothing", "here", "gone"}

\* The runner tells the manager that it goes when no task is in progress any
\* more, whichever way the goroutines ended.
UnregistersIdle == main \in {"unregister", "stop", "cleanup", "exited"} => busy = 0

\* Once run has come to Unregister, the manager takes the runner for being back only
\* because of requests that were on their way by then, and for each of them once at most:
\* no heartbeat is begun any more, for the HTTP server that main waits for has waited for
\* the context.  (One that refused to start has not.)
BackOnlyByLateRequests ==
  [][/\ main \in {"unregister", "stop", "cleanup", "exited"}
     /\ http # "refused"
     => /\ underway' <= underway
        /\ (told = "gone" /\ told' # "gone") => underway' < underway]_vars

\* However run returns, it has cleaned the VM pool up (whether that has worked is not
\* looked at; the deferred call drops its error).
PoolLeftClean == main = "exited" => pool # "up"

\* A signal ends the program: neither a broken HTTP server, nor a reconciler that
\* was not started, nor the watcher in Shutdown can keep it.
SignalEnds == signalled ~> main = "exited"

\* server_command.go:104 says of the watcher's other case "this should not
\* happen": the signal is taken from s, and Shutdown is called.
SignalIsTaken == watcher # "unexpected"

\* poller.go:83-84: "The goal here is to stop the poller from acquiring new tasks,
\* but we want to allow any ongoing tasks that were already in progress to
\* complete": a task in progress does not lose its context.
OngoingTasksComplete == busy > 0 => ~ctxDone
=============================================================================
