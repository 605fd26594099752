--------------------------- MODULE TaskExecution ---------------------------
(***************************************************************************)
(* What the poller promises, without goroutines, channels and timers: task *)
(* events arrive while it is open, an event is either turned into an       *)
(* execution or, when its task is executing already, skipped; a task has   *)
(* at most one execution at a time; and the poller is finished only when   *)
(* it is closed, nothing is pending and nothing executes.  Events that     *)
(* have arrived may be given up only after the context is cancelled.       *)
(***************************************************************************)
EXTENDS Integers

CONSTANTS TaskIDs

VARIABLES
  phase,      \* "open" | "closed" | "finished"
  cancelled,  \* the context is cancelled
  pending,    \* for each task id, the events that wait
  executing   \* the task ids in execution

vars == <<phase, cancelled, pending, executing>>

Init ==
  /\ phase = "open" /\ cancelled = FALSE
  /\ pending = [t \in TaskIDs |-> 0]
  /\ executing = {}

\* The manager hands out some events, in one answer.
Arrive ==
  /\ phase = "open"
  /\ pending' \in [TaskIDs -> Nat]
  /\ \A t \in TaskIDs : pending'[t] >= pending[t]
  /\ UNCHANGED <<phase, cancelled, executing>>

Remove(t) == pending[t] > 0 /\ pending' = [pending EXCEPT ![t] = @ - 1]

Begin(t) ==
  /\ t \notin executing
  /\ Remove(t)
  /\ executing' = executing \cup {t}
  /\ UNCHANGED <<phase, cancelled>>

Skip(t) ==
  /\ t \in executing
  /\ Remove(t)
  /\ UNCHANGED <<phase, cancelled, executing>>

End(t) ==
  /\ t \in executing
  /\ executing' = executing \ {t}
  /\ UNCHANGED <<phase, cancelled, pending>>

Close ==
  /\ phase = "open"
  /\ phase' = "closed"
  /\ \/ UNCHANGED pending
     \/ /\ cancelled
        /\ pending' \in [TaskIDs -> Nat]
        /\ \A t \in TaskIDs : pending'[t] <= pending[t]
  /\ UNCHANGED <<cancelled, executing>>

Finish ==
  /\ phase = "closed"
  /\ executing = {} /\ \A t \in TaskIDs : pending[t] = 0
  /\ phase' = "finished"
  /\ UNCHANGED <<cancelled, pending, executing>>

Cancel ==
  /\ cancelled' = TRUE
  /\ UNCHANGED <<phase, pending, executing>>

Next ==
  \/ Arrive \/ Close \/ Finish \/ Cancel
  \/ \E t \in TaskIDs : Begin(t) \/ Skip(t) \/ End(t)

Spec == Init /\ [][Next]_vars
=============================================================================
