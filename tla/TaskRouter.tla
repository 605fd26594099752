----------------------------- MODULE TaskRouter -----------------------------
(***************************************************************************)
(* The table of handlers router.NewRouter makes, and what comes before it: *)
(* the start of the runner, and the commands that keep it as a service.    *)
(*                                                                         *)
(* A task goes to the handler of its kind.  Handlers of one kind meet in   *)
(* Docker, in a machine, in Vault; handlers of different kinds share       *)
(* nothing but the TaskContext, which nobody changes once the runner       *)
(* serves; the commands are processes of their own.  So a behaviour        *)
(* follows one kind, which the first state chooses, and leaves the others  *)
(* alone.  The daemon set tasks are part of DaemonSetReconciler.           *)
(***************************************************************************)
EXTENDS LocalTasks, ForwardedTasks, SecretTasks, RunnerConfig, ServiceCommands

VARIABLE kind  \* the kind of handlers that is followed, or "start" or "service"

routerVars == <<kind, localVars, vmVars, secretVars, StartVars, serviceVars>>

\* The types of tasks that are registered, and the kind of their handlers.  Any other type
\* is an executable, which the CGI driver downloads and runs.
Handlers ==
  [local |-> {"local_init", "local_execute", "local_cleanup"},
   forwarded |-> {"vm_init", "vm_execute", "vm_cleanup", "delegate_task"},
   secrets |-> {"secret/vault/fetch", "secret/vault/edit", "secret/static"}]
Kinds == DOMAIN Handlers \cup {"start", "service"}

InitRouter ==
  /\ kind \in Kinds
  /\ InitLocal /\ InitForwarded /\ InitSecrets /\ InitStart /\ InitService
  /\ kind = "secrets" \/ \A v \in Versions : kept[v] = "unknown"

\* A step of the handlers of kind k, which leaves what others work with unchanged.
Of(k, A) ==
  /\ kind = k /\ A
  /\ UNCHANGED kind
  /\ k # "local" => UNCHANGED localVars
  /\ k # "forwarded" => UNCHANGED vmVars
  /\ k # "secrets" => UNCHANGED secretVars
  /\ k # "start" => UNCHANGED StartVars
  /\ k # "service" => UNCHANGED serviceVars

NextRouter ==
  \/ Of("local", NextLocal)
  \/ Of("forwarded", NextForwarded)
  \/ Of("secrets", NextSecrets)
  \/ Of("start", NextStart)
  \/ Of("service", NextService)

SpecRouter == InitRouter /\ [][NextRouter]_routerVars

\* The fairness of the parts; before a part has begun, it asks for nothing.
FairRouter == SpecRouter /\ FairLocal /\ FairForwarded /\ FairService

-----------------------------------------------------------------------------
(* Properties.                                                               *)

RouterTypeOK ==
  /\ kind \in Kinds
  /\ LocalTypeOK /\ ForwardedTypeOK /\ SecretTypeOK /\ StartTypeOK /\ ServiceTypeOK
=============================================================================
