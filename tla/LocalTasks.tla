----------------------------- MODULE LocalTasks -----------------------------
(***************************************************************************)
(* The tasks that run a stage on the host of the runner: local_init,       *)
(* local_execute and local_cleanup of tasks/local, with the Docker client  *)
(* of tasks/local/utils.                                                   *)
(*                                                                         *)
(* Each task is handled by a worker of the poller, so any number of them   *)
(* are in progress at once.  What they share is Docker's: the network of a *)
(* stage and its containers, and a directory of the host.  Docker and the  *)
(* engine that creates networks and containers are external; a call to     *)
(* them can fail, and another task can act between any two calls.          *)
(***************************************************************************)
EXTENDS Naturals, FiniteSets

CONSTANTS Inits, Executes, Cleanups, \* the tasks, by kind
          StageOf,        \* the stage of a task
          Labelled,       \* the requests that carry the label of their stage
          OnHost,         \* the local_execute requests without an image
          MaxDockerFaults

LocalTaskIDs == Inits \cup Executes \cup Cleanups
LocalStages == {StageOf[t] : t \in LocalTaskIDs}

ASSUME LocalAssumption ==
  /\ Inits \cap (Executes \cup Cleanups) = {} /\ Executes \cap Cleanups = {}
  /\ DOMAIN StageOf = LocalTaskIDs
  /\ Labelled \subseteq LocalTaskIDs
  /\ OnHost \subseteq Executes
  /\ MaxDockerFaults \in Nat

VARIABLES
  local,        \* where the handler of a task is
  localReply,   \* what it has answered, "none" before
  network,      \* stages whose network exists
  hostPath,     \* stages whose directory exists
  container,    \* the container, or the process on the host, of a local_execute
  found,        \* the containers a cleanup has found
  left,         \* those its present loop has still to do
  dockerFaults, \* how many calls have failed
  quiet         \* history: cleanups in progress that nothing has disturbed

localVars == <<local, localReply, network, hostPath, container, found, left,
               dockerFaults, quiet>>
docker == <<network, hostPath, container>>

Runs(e) == container[e] \in {"running", "process"}
Busy(t) == local[t] \notin {"new", "done"}
SameStage(t, u) == StageOf[t] = StageOf[u]

InitLocal ==
  /\ local = [t \in LocalTaskIDs |-> "new"]
  /\ localReply = [t \in LocalTaskIDs |-> "none"]
  /\ network = {} /\ hostPath = {}
  /\ container = [e \in Executes |-> "none"]
  /\ found = [c \in Cleanups |-> {}]
  /\ left = [c \in Cleanups |-> {}]
  /\ dockerFaults = 0
  /\ quiet = {}

-----------------------------------------------------------------------------
(* Steps that the handlers have in common.                                   *)

GoTo(t, p) == local' = [local EXCEPT ![t] = p] /\ UNCHANGED localReply

Reply(t, r) ==
  /\ local' = [local EXCEPT ![t] = "done"]
  /\ localReply' = [localReply EXCEPT ![t] = r]

\* A task disturbs the cleanups of its stage that are in progress.
Begins(t) ==
  LET others == {u \in LocalTaskIDs \ {t} : Busy(u) /\ SameStage(t, u)}
  IN quiet' = (quiet \ others) \cup (IF t \in Cleanups /\ others = {} THEN {t} ELSE {})

\* A call of t fails, before it has done anything.
CallFails(t) ==
  /\ dockerFaults < MaxDockerFaults
  /\ dockerFaults' = dockerFaults + 1
  /\ quiet' = {c \in quiet : ~SameStage(c, t)}

NoFault == UNCHANGED <<dockerFaults, quiet>>

-----------------------------------------------------------------------------
(* Variants with a bug in them, which the properties have to tell from what  *)
(* is specified below; the specification does not use them.                  *)

\* A request without labels lists containers too; the filter is empty then.
ListsAlways(t) == TRUE

\* An error of ContainerKill ends the cleanup, as one of ContainerRemove does.
KillContainerStrict(t, e) ==
  /\ local[t] = "kill" /\ e \in left[t]
  /\ IF container[e] = "running"
     THEN /\ container' = [container EXCEPT ![e] = "exited"]
          /\ left' = [left EXCEPT ![t] = @ \ {e}]
          /\ UNCHANGED <<local, localReply>>
     ELSE Reply(t, "failure") /\ UNCHANGED <<container, left>>
  /\ NoFault
  /\ UNCHANGED <<network, hostPath, found>>

\* An error of NetworkRemove is logged and not returned.
RemoveNetworkLenient(t) ==
  /\ local[t] = "network"
  /\ Reply(t, "success")
  /\ network' = IF \E e \in Executes : SameStage(e, t) /\ container[e] = "running"
                THEN network ELSE network \ {StageOf[t]}
  /\ NoFault
  /\ UNCHANGED <<hostPath, container, found, left>>

-----------------------------------------------------------------------------
(* local_init: HandleSetup.                                                  *)

SetUp(t) ==
  /\ t \in Inits /\ local[t] = "new"
  /\ GoTo(t, "volumes")
  /\ Begins(t)
  /\ UNCHANGED <<docker, found, left, dockerFaults>>

\* engine.SetupPipeline creates the directories, then the network, and leaves what it
\* has created when it fails; the handler answers with a failure and no error.
CreateVolumes(t) ==
  /\ local[t] = "volumes"
  /\ \/ /\ hostPath' = hostPath \cup {StageOf[t]}
        /\ GoTo(t, "create_network")
        /\ NoFault
     \/ Reply(t, "failure") /\ CallFails(t) /\ UNCHANGED hostPath
  /\ UNCHANGED <<network, container, found, left>>

CreateNetwork(t) ==
  /\ local[t] = "create_network"
  /\ \/ /\ network' = network \cup {StageOf[t]}
        /\ Reply(t, "success")
        /\ NoFault
     \/ Reply(t, "failure") /\ CallFails(t) /\ UNCHANGED network
  /\ UNCHANGED <<hostPath, container, found, left>>

-----------------------------------------------------------------------------
(* local_execute: HandleExec.                                                *)

\* The server sends the steps of a stage once the stage has been set up.
Execute(t) ==
  /\ t \in Executes /\ local[t] = "new"
  /\ \A i \in Inits : SameStage(i, t) => localReply[i] = "success"
  /\ Begins(t)
  /\ GoTo(t, "create")
  /\ UNCHANGED <<docker, found, left, dockerFaults>>

\* The step executor of the engine: without an image the step is a process.
CreateContainer(t) ==
  /\ local[t] = "create"
  /\ \/ /\ IF t \in OnHost
           THEN container' = [container EXCEPT ![t] = "process"] /\ GoTo(t, "wait")
           ELSE container' = [container EXCEPT ![t] = "created"] /\ GoTo(t, "start")
        /\ NoFault
     \/ Reply(t, "error") /\ CallFails(t) /\ UNCHANGED container
  /\ UNCHANGED <<network, hostPath, found, left>>

\* A container starts when it is there and its network is; it stays if it does not.
StartContainer(t) ==
  /\ local[t] = "start"
  /\ IF container[t] = "created" /\ StageOf[t] \in network
     THEN \/ /\ container' = [container EXCEPT ![t] = "running"]
             /\ GoTo(t, "wait")
             /\ NoFault
          \/ Reply(t, "error") /\ CallFails(t) /\ UNCHANGED container
     ELSE Reply(t, "error") /\ NoFault /\ UNCHANGED container
  /\ UNCHANGED <<network, hostPath, found, left>>

\* The command comes to its end, if it ever does.
StepEnds(t) ==
  /\ Runs(t)
  /\ container' = [container EXCEPT ![t] = IF @ = "process" THEN "none" ELSE "exited"]
  /\ UNCHANGED <<local, localReply, network, hostPath, found, left, dockerFaults, quiet>>

Executed(t) ==
  /\ local[t] = "wait" /\ ~Runs(t)
  /\ Reply(t, "success")
  /\ NoFault
  /\ UNCHANGED <<docker, found, left>>

-----------------------------------------------------------------------------
(* local_cleanup: HandleDestroy.                                             *)

\* KillContainersByLabel: without labels it kills nothing.
Lists(t) == t \in Labelled

\* What ContainerList finds: all that match, stopped ones too.
Matching(t) ==
  {e \in Executes : /\ container[e] \in {"created", "running", "exited"}
                    /\ t \in Labelled => e \in Labelled /\ SameStage(e, t)}

\* The error of os.RemoveAll is dropped, so it may have left something.
RemovePaths(t) ==
  /\ t \in Cleanups /\ local[t] = "new"
  /\ \/ hostPath' = hostPath \ {StageOf[t]} /\ Begins(t) /\ UNCHANGED dockerFaults
     \/ CallFails(t) /\ UNCHANGED hostPath
  /\ GoTo(t, IF Lists(t) THEN "list" ELSE "network")
  /\ UNCHANGED <<network, container, found, left>>

ListContainers(t) ==
  /\ local[t] = "list"
  /\ \/ /\ found' = [found EXCEPT ![t] = Matching(t)]
        /\ left' = [left EXCEPT ![t] = Matching(t)]
        /\ GoTo(t, "kill")
        /\ NoFault
     \/ Reply(t, "failure") /\ CallFails(t) /\ UNCHANGED <<found, left>>
  /\ UNCHANGED docker

\* The error of ContainerKill, for one that does not run too, is logged only.
KillContainer(t, e) ==
  /\ local[t] = "kill" /\ e \in left[t]
  /\ left' = [left EXCEPT ![t] = @ \ {e}]
  /\ \/ /\ container' = [container EXCEPT ![e] = IF @ = "running" THEN "exited" ELSE @]
        /\ NoFault
     \/ CallFails(t) /\ UNCHANGED container
  /\ UNCHANGED <<local, localReply, network, hostPath, found>>

Killed(t) ==
  /\ local[t] = "kill" /\ left[t] = {}
  /\ left' = [left EXCEPT ![t] = found[t]]
  /\ GoTo(t, "remove")
  /\ NoFault
  /\ UNCHANGED <<docker, found>>

\* The first container that cannot be removed, as one that is gone, ends the cleanup.
RemoveContainer(t, e) ==
  /\ local[t] = "remove" /\ e \in left[t]
  /\ \/ /\ container[e] # "none"
        /\ container' = [container EXCEPT ![e] = "none"]
        /\ left' = [left EXCEPT ![t] = @ \ {e}]
        /\ NoFault
        /\ UNCHANGED <<local, localReply>>
     \/ /\ container[e] = "none" /\ NoFault
        /\ Reply(t, "failure") /\ UNCHANGED <<container, left>>
     \/ /\ CallFails(t)
        /\ Reply(t, "failure") /\ UNCHANGED <<container, left>>
  /\ UNCHANGED <<network, hostPath, found>>

Removed(t) ==
  /\ local[t] = "remove" /\ left[t] = {}
  /\ GoTo(t, "network")
  /\ NoFault
  /\ UNCHANGED <<docker, found, left>>

\* Docker refuses to remove a network that is not there or has a container running.
RemoveNetwork(t) ==
  /\ local[t] = "network"
  /\ IF /\ StageOf[t] \in network
        /\ \A e \in Executes : SameStage(e, t) => container[e] # "running"
     THEN \/ network' = network \ {StageOf[t]} /\ Reply(t, "success") /\ NoFault
          \/ Reply(t, "failure") /\ CallFails(t) /\ UNCHANGED network
     ELSE Reply(t, "failure") /\ NoFault /\ UNCHANGED network
  /\ UNCHANGED <<hostPath, container, found, left>>

-----------------------------------------------------------------------------
\* A task that is being handled goes on; that it was sent, and that commands end, is
\* up to others.
LocalStep(t) ==
  \/ CreateVolumes(t) \/ CreateNetwork(t)
  \/ CreateContainer(t) \/ StartContainer(t) \/ Executed(t)
  \/ ListContainers(t) \/ Killed(t) \/ Removed(t) \/ RemoveNetwork(t)
  \/ \E e \in Executes : KillContainer(t, e) \/ RemoveContainer(t, e)

NextLocal ==
  \/ \E t \in LocalTaskIDs : SetUp(t) \/ Execute(t) \/ RemovePaths(t) \/ LocalStep(t)
  \/ \E t \in Executes : StepEnds(t)

SpecLocal == InitLocal /\ [][NextLocal]_localVars
FairLocal == \A t \in LocalTaskIDs : WF_localVars(LocalStep(t))

-----------------------------------------------------------------------------
(* Properties.                                                               *)

LocalTypeOK ==
  /\ local \in [LocalTaskIDs -> {"new", "volumes", "create_network", "create", "start",
                                 "wait", "list", "kill", "remove", "network", "done"}]
  /\ localReply \in [LocalTaskIDs -> {"none", "success", "failure", "error"}]
  /\ network \subseteq LocalStages /\ hostPath \subseteq LocalStages
  /\ container \in [Executes -> {"none", "created", "running", "exited", "process"}]
  /\ found \in [Cleanups -> SUBSET Executes]
  /\ left \in [Cleanups -> SUBSET Executes]
  /\ dockerFaults \in 0..MaxDockerFaults
  /\ quiet \subseteq Cleanups

\* A container disappears only through a cleanup of its own stage that has its label: not
\* through one of another stage, nor one without labels, for which docker.go:47 lists
\* nothing, since to ContainerList an empty filter means every container of the host.
RemovesOnlyItsOwn ==
  [][\A e \in Executes :
       container[e] \in {"created", "running", "exited"} /\ container'[e] = "none"
       => \E t \in Cleanups : /\ local[t] = "remove" /\ e \in left[t]
                              /\ SameStage(t, e) /\ {t, e} \subseteq Labelled]_localVars

\* A cleanup none of whose calls failed, with no other task of the stage in progress,
\* leaves no directory, no network and no container with the label, whatever earlier
\* tasks left behind: containers that never started, a cleanup that broke off.  It may
\* answer with a failure all the same, when the network was gone before.
QuietCleanupLeavesNothing ==
  [][\A t \in quiet' : local[t] # "done" /\ local'[t] = "done" =>
       /\ StageOf[t] \notin hostPath' \cup network'
       /\ t \in Labelled => \A e \in Labelled \cap Executes :
                              SameStage(e, t) => container'[e] \in {"none", "process"}
    ]_localVars

\* Once a cleanup with labels has answered with success, every step of its stage in
\* progress in a container with the label is answered, even if its command never ends:
\* one the cleanup found has been killed, one it did not cannot start, for its network
\* is gone, or had started, and then kept the network and with it the success away.
CleanedStageEnds ==
  \A t \in Cleanups \cap Labelled, e \in (Executes \cap Labelled) \ OnHost :
    (/\ SameStage(t, e)
     /\ localReply[t] = "success" /\ Busy(e)) ~> local[e] = "done"
=============================================================================
