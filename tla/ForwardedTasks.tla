--------------------------- MODULE ForwardedTasks ---------------------------
(***************************************************************************)
(* The tasks the runner hands on: vm_init, vm_execute and vm_cleanup of    *)
(* tasks/vm, whose work is done by an engine on a virtual machine, and     *)
(* delegate_task of tasks/delegatetask, whose work is done by a service.   *)
(*                                                                         *)
(* A handler that answers nil leaves it to the engine, or the service, to  *)
(* tell the server.  That is what can go wrong: nobody tells the server,   *)
(* or both do.  The services that a vm_init starts are given its task id   *)
(* to tell the server with, although the handler answers itself.  Pool,    *)
(* engine and service are external.                                        *)
(***************************************************************************)
EXTENDS Naturals, FiniteSets

CONSTANTS VMInits, VMExecutes, VMCleanups, DelegateTasks, \* the tasks, by kind
          VMStageOf,   \* the stage of a VM task
          Services,    \* the services of stages
          ServicesOf,  \* those a vm_init starts
          Malformed,   \* delegate tasks whose package does not decode
          MaxVMFaults

ForwardedIDs == VMInits \cup VMExecutes \cup VMCleanups \cup DelegateTasks
Submitted == VMExecutes \cup DelegateTasks
Jobs == Submitted \cup Services
VMStages == {VMStageOf[t] : t \in DOMAIN VMStageOf}

ASSUME ForwardedAssumption ==
  /\ VMInits \cap (VMExecutes \cup VMCleanups \cup DelegateTasks \cup Services) = {}
  /\ VMExecutes \cap (VMCleanups \cup DelegateTasks \cup Services) = {}
  /\ VMCleanups \cap (DelegateTasks \cup Services) = {}
  /\ DelegateTasks \cap Services = {}
  /\ DOMAIN VMStageOf = VMInits \cup VMExecutes \cup VMCleanups
  /\ ServicesOf \in [VMInits -> SUBSET Services]
  /\ \A t, u \in VMInits : t # u => ServicesOf[t] \cap ServicesOf[u] = {}
  /\ Malformed \subseteq DelegateTasks
  /\ "runner" \notin Jobs
  /\ MaxVMFaults \in Nat

VARIABLES
  vm,         \* where the handler of a task is
  told,       \* who has told the server how it went: the runner, submissions at their end
  succeeded,  \* vm_init tasks answered with success
  instance,   \* stages that have a virtual machine
  job,        \* what has become of a submission
  todo,       \* the services a vm_init has still to start
  status,     \* the status of a service in the answer to vm_init
  lost,       \* history: submissions accepted with an answer that did not arrive
  vmFaults    \* how many calls have failed

vmVars == <<vm, told, succeeded, instance, job, todo, status, lost, vmFaults>>

InitForwarded ==
  /\ vm = [t \in ForwardedIDs |-> "new"]
  /\ told = [t \in ForwardedIDs |-> {}]
  /\ succeeded = {}
  /\ instance = {}
  /\ job = [j \in Jobs |-> "none"]
  /\ todo = [t \in VMInits |-> {}]
  /\ status = [s \in Services |-> "none"]
  /\ lost = {}
  /\ vmFaults = 0

HandlerAt(t, p) == vm' = [vm EXCEPT ![t] = p] /\ UNCHANGED told

\* The handler returns a response, which the poller sends.
Respond(t) ==
  /\ vm' = [vm EXCEPT ![t] = "done"]
  /\ told' = [told EXCEPT ![t] = @ \cup {"runner"}]

\* The handler returns nil.
RespondNil(t) == vm' = [vm EXCEPT ![t] = "done"] /\ UNCHANGED told

Fault == vmFaults < MaxVMFaults /\ vmFaults' = vmFaults + 1

\* What a submission can come to.  It is accepted or refused by the answer that arrives,
\* or there is none: then it has not arrived, or its answer has not.
Outcomes == {"accepted", "refused", "failed", "lost"}

\* harness.HandleStep finds the instance of the stage first.
StepOutcomes(s) == IF s \in instance THEN Outcomes ELSE {"no instance"}

Submit(j, o) ==
  /\ job' = IF o \in {"accepted", "lost"} THEN [job EXCEPT ![j] = "running"] ELSE job
  /\ lost' = IF o = "lost" THEN lost \cup {j} ELSE lost
  /\ IF o \in {"accepted", "no instance"} THEN UNCHANGED vmFaults ELSE Fault

-----------------------------------------------------------------------------
(* Variants with a bug in them, which the properties have to tell from what  *)
(* is specified below; the specification does not use them.                  *)

\* The response of an accepted step is converted and sent, as it is without async.
AnswerToStepSync(t, o) == Respond(t)

\* An error of HandleStep is logged only.
AnswerToStepSilent(t, o) == IF o = "refused" THEN Respond(t) ELSE RespondNil(t)

\* Only the error in the response is looked at.
ServiceStatusOfResponse(o) == IF o = "refused" THEN "ERROR" ELSE "RUNNING"

-----------------------------------------------------------------------------
(* vm_init: SetupHandler.Handle.                                             *)

\* harness.HandleSetup takes an instance from a pool, or from one of its fallbacks.
VMSetup(t) ==
  /\ t \in VMInits /\ vm[t] = "new"
  /\ \/ /\ instance' = instance \cup {VMStageOf[t]}
        /\ todo' = [todo EXCEPT ![t] = ServicesOf[t]]
        /\ HandlerAt(t, IF ServicesOf[t] = {} THEN "answer" ELSE "token")
        /\ UNCHANGED vmFaults
     \/ Fault /\ Respond(t) /\ UNCHANGED <<instance, todo>>
  /\ UNCHANGED <<succeeded, job, status, lost>>

\* The token the engine is to answer with.  Without one the answer is a failure; the
\* instance stays.
MakeStepToken(t) ==
  /\ vm[t] = "token"
  /\ \/ HandlerAt(t, IF t \in VMInits THEN "services" ELSE "step") /\ UNCHANGED vmFaults
     \/ Fault /\ Respond(t)
  /\ UNCHANGED <<succeeded, instance, job, todo, status, lost>>

ServiceStatus(o) == IF o = "accepted" THEN "RUNNING" ELSE "ERROR"

\* One service after the other; that one fails does not keep the others from starting.
\* The StepStatus of each has the id of the vm_init, and a token.
StartService(t, s) ==
  /\ vm[t] = "services" /\ s \in todo[t]
  /\ \E o \in StepOutcomes(VMStageOf[t]) :
       /\ Submit(s, o)
       /\ status' = [status EXCEPT ![s] = ServiceStatus(o)]
  /\ todo' = [todo EXCEPT ![t] = @ \ {s}]
  /\ UNCHANGED <<vm, told, succeeded, instance>>

AnswerSetup(t) ==
  /\ t \in VMInits /\ vm[t] \in {"services", "answer"} /\ todo[t] = {}
  /\ Respond(t)
  /\ succeeded' = succeeded \cup {t}
  /\ UNCHANGED <<instance, job, todo, status, lost, vmFaults>>

-----------------------------------------------------------------------------
(* vm_execute: ExecHandler.Handle.                                           *)

\* The server sends the steps of a stage once its vm_init has been answered, be it by the
\* engine for a service.
VMExecute(t) ==
  /\ t \in VMExecutes /\ vm[t] = "new"
  /\ \A i \in VMInits : VMStageOf[i] = VMStageOf[t] => i \in succeeded \/ told[i] \cap Services # {}
  /\ HandlerAt(t, "token")
  /\ UNCHANGED <<succeeded, instance, job, todo, status, lost, vmFaults>>

AnswerToStep(t, o) == IF o = "accepted" THEN RespondNil(t) ELSE Respond(t)

SubmitStep(t) ==
  /\ t \in VMExecutes /\ vm[t] = "step"
  /\ \E o \in StepOutcomes(VMStageOf[t]) : Submit(t, o) /\ AnswerToStep(t, o)
  /\ UNCHANGED <<succeeded, instance, todo, status>>

-----------------------------------------------------------------------------
(* vm_cleanup: CleanupHandler.Handle.                                        *)

\* The machine goes, and with it what runs on it, which tells nobody anything.
VMCleanup(t) ==
  /\ t \in VMCleanups /\ vm[t] = "new"
  /\ Respond(t)
  /\ \/ /\ instance' = instance \ {VMStageOf[t]}
        /\ job' = [j \in Jobs |->
                     IF /\ job[j] = "running" /\ j \notin DelegateTasks
                        /\ \/ j \in VMExecutes /\ VMStageOf[j] = VMStageOf[t]
                           \/ \E i \in VMInits : j \in ServicesOf[i] /\ VMStageOf[i] = VMStageOf[t]
                     THEN "gone" ELSE job[j]]
        /\ UNCHANGED vmFaults
     \/ Fault /\ UNCHANGED <<instance, job>>
  /\ UNCHANGED <<succeeded, todo, status, lost>>

-----------------------------------------------------------------------------
(* delegate_task: DelegateTaskHandler.Handle.                                *)

\* A package that does not decode is logged and answered with nil.
Decode(t) ==
  /\ t \in DelegateTasks /\ vm[t] = "new"
  /\ IF t \in Malformed THEN RespondNil(t) ELSE HandlerAt(t, "send")
  /\ UNCHANGED <<succeeded, instance, job, todo, status, lost, vmFaults>>

\* SendTask has an error for a status of 300 and above too.
SendTask(t) ==
  /\ t \in DelegateTasks /\ vm[t] = "send"
  /\ \E o \in Outcomes : Submit(t, o) /\ AnswerToStep(t, o)
  /\ UNCHANGED <<succeeded, instance, todo, status>>

-----------------------------------------------------------------------------
\* The task in whose name the server is told of a submission: the TaskID of its StepStatus,
\* or of its package.
TellsOf(j, t) == j = t \/ (t \in VMInits /\ j \in ServicesOf[t])

\* What was submitted comes to its end, and the server is told.
JobEnds(j) ==
  /\ job[j] = "running"
  /\ job' = [job EXCEPT ![j] = "ended"]
  /\ told' = [t \in ForwardedIDs |-> IF TellsOf(j, t) THEN told[t] \cup {j} ELSE told[t]]
  /\ UNCHANGED <<vm, succeeded, instance, todo, status, lost, vmFaults>>

HandlerStep(t) ==
  \/ MakeStepToken(t) \/ AnswerSetup(t) \/ SubmitStep(t) \/ SendTask(t)
  \/ t \in VMInits /\ \E s \in Services : StartService(t, s)

NextForwarded ==
  \/ \E t \in ForwardedIDs : VMSetup(t) \/ VMExecute(t) \/ VMCleanup(t) \/ Decode(t)
  \/ \E t \in ForwardedIDs : HandlerStep(t)
  \/ \E j \in Jobs : JobEnds(j)

SpecForwarded == InitForwarded /\ [][NextForwarded]_vmVars
FairForwarded ==
  /\ \A t \in ForwardedIDs : WF_vmVars(HandlerStep(t))
  /\ \A j \in Submitted : WF_vmVars(JobEnds(j))

-----------------------------------------------------------------------------
(* Properties.                                                               *)

ForwardedTypeOK ==
  /\ vm \in [ForwardedIDs -> {"new", "token", "services", "answer", "step", "send", "done"}]
  /\ told \in [ForwardedIDs -> SUBSET (Jobs \cup {"runner"})]
  /\ succeeded \subseteq VMInits
  /\ instance \subseteq VMStages
  /\ job \in [Jobs -> {"none", "running", "ended", "gone"}]
  /\ todo \in [VMInits -> SUBSET Services]
  /\ status \in [Services -> {"none", "RUNNING", "ERROR"}]
  /\ lost \subseteq Jobs
  /\ vmFaults \in 0..MaxVMFaults

\* Of a vm_execute or a delegate_task the runner and the one it was submitted to both tell
\* the server only if the answer to its submission was lost, so that the runner had to take
\* it for failed (exec.go:128 and delegate_task.go:44 leave the answer to the other one).
\* Of a vm_init its engine tells too, once for every service that was started with its task
\* id (setup.go:168), unlike what vm_execute does: but only for those which the answer of
\* the runner says are running or whose own answer was lost, and never of one the runner
\* has answered as failed.
SecondAnswerHasReason ==
  \A t \in ForwardedIDs :
    "runner" \in told[t] =>
      \A j \in told[t] \ {"runner"} :
        j \in lost \/ (t \in VMInits /\ status[j] = "RUNNING")
FailedSetupIsToldOnce ==
  \A t \in VMInits : "runner" \in told[t] /\ t \notin succeeded => told[t] = {"runner"}

AnswersAccounted == SecondAnswerHasReason /\ FailedSetupIsToldOnce

\* A task that has been handed out is not forgotten: once it is begun the server comes to
\* be told of it by someone, unless its machine is cleaned up under it, or it is a
\* delegate task that cannot be decoded, whose handler drops it at delegate_task.go:36.
EveryTaskIsTold ==
  \A t \in Submitted \ Malformed :
    vm[t] # "new" ~> told[t] # {} \/ job[t] = "gone"

\* The answer to vm_init says of each service whether its engine took it: RUNNING of
\* none that it did not, whatever became of the services before it, and ERROR of none
\* that it took unless its answer was lost.
ServicesReported ==
  \A t \in succeeded : \A s \in ServicesOf[t] :
    status[s] = "RUNNING" <=> job[s] # "none" /\ s \notin lost
=============================================================================
