------------------------- MODULE TaskHandlers_proofs ------------------------
(***************************************************************************)
(* Proofs about the handlers of tasks: those that hand a task on           *)
(* (ForwardedTasks), those that run it on the host (LocalTasks), and those *)
(* of secrets (SecretTasks); for any tasks, stages, services and values,   *)
(* and any number of calls that fail.                                      *)
(***************************************************************************)
EXTENDS LocalTasks, ForwardedTasks, SecretTasks, TLAPS

-----------------------------------------------------------------------------
(* ForwardedTasks: who has been submitted what, and who tells of it.         *)

\* Nothing is submitted, or told, before the handler's last step; the one that does the
\* task tells of it only if it has got it; the runner only if nobody else has it, or the
\* answer that somebody has was lost.
SubmittedOnce ==
  \A t \in Submitted :
    /\ vm[t] # "done" => job[t] = "none" /\ told[t] = {}
    /\ told[t] \subseteq {"runner", t}
    /\ t \in told[t] => job[t] # "none"
    /\ "runner" \in told[t] => job[t] = "none" \/ t \in lost

\* None of the services has been started.
Unserved(t) == vm[t] \in {"new", "token"} \/ (vm[t] = "done" /\ t \notin succeeded)

\* A vm_init is told of by the runner, at the end of its handler, and by engines that have
\* got one of its services; by none if the handler was not to start them, or has failed.
SetupOnce ==
  \A t \in VMInits :
    /\ told[t] \subseteq {"runner"} \cup ServicesOf[t]
    /\ \A s \in ServicesOf[t] : s \in told[t] => job[s] # "none"
    /\ vm[t] # "done" => "runner" \notin told[t]
    /\ Unserved(t) => \A s \in ServicesOf[t] : job[s] = "none"

\* Of a vm_cleanup only the runner tells.
CleanupTold == \A t \in VMCleanups : told[t] \subseteq {"runner"}

\* A service that is still to be started has never been submitted.
StartedOnce ==
  \A t \in VMInits : \A s \in ServicesOf[t] :
    vm[t] = "new" \/ s \in todo[t] => job[s] = "none" /\ s \notin lost

\* What is said of a service is right at any time.
StatusRight ==
  \A s \in Services : status[s] = "RUNNING" <=> job[s] # "none" /\ s \notin lost

TodoIsOwn == \A t \in VMInits : todo[t] \subseteq ServicesOf[t]

\* The inductive invariant.
ForwardedInv ==
  /\ ForwardedTypeOK /\ SubmittedOnce /\ SetupOnce /\ CleanupTold
  /\ StartedOnce /\ TodoIsOwn /\ StatusRight

\* What the sets of tasks have in common.
LEMMA KindsDiffer ==
  /\ Submitted \subseteq ForwardedIDs /\ Submitted \cap VMInits = {}
  /\ Submitted \cap VMCleanups = {} /\ Services \cap ForwardedIDs = {}
  /\ \A t \in VMInits : ServicesOf[t] \subseteq Services
  /\ \A t, u \in VMInits : t # u => ServicesOf[t] \cap ServicesOf[u] = {}
  /\ MaxVMFaults \in Nat
BY ForwardedAssumption DEF Submitted, ForwardedIDs

\* ... and that they are all there are.
LEMMA AllKinds ==
  /\ VMInits \cap VMCleanups = {} /\ ForwardedIDs = VMInits \cup VMCleanups \cup Submitted
  /\ Jobs = Submitted \cup Services /\ "runner" \notin Jobs
BY ForwardedAssumption DEF Submitted, ForwardedIDs, Jobs

LEMMA FaultCounts ==
  ASSUME ForwardedTypeOK, Fault
  PROVE  vmFaults' \in 0..MaxVMFaults
BY KindsDiffer, SMT DEF ForwardedTypeOK, Fault

LEMMA InitForwardedInv == InitForwarded => ForwardedInv
<1> SUFFICES ASSUME InitForwarded PROVE ForwardedInv
  OBVIOUS
<1>1. ForwardedTypeOK
  <2>1. /\ vm \in [ForwardedIDs -> {"new", "token", "services", "answer", "step", "send", "done"}]
        /\ told \in [ForwardedIDs -> SUBSET (Jobs \cup {"runner"})]
        /\ job \in [Jobs -> {"none", "running", "ended", "gone"}]
    BY DEF InitForwarded
  <2>2. /\ todo \in [VMInits -> SUBSET Services]
        /\ status \in [Services -> {"none", "RUNNING", "ERROR"}]
        /\ vmFaults \in 0..MaxVMFaults
    BY KindsDiffer DEF InitForwarded
  <2>3. succeeded \subseteq VMInits /\ instance \subseteq VMStages /\ lost \subseteq Jobs
    BY DEF InitForwarded
  <2> QED
    BY <2>1, <2>2, <2>3 DEF ForwardedTypeOK
<1>2. SubmittedOnce
  BY KindsDiffer DEF InitForwarded, SubmittedOnce, Jobs
<1>3. StartedOnce /\ TodoIsOwn /\ StatusRight
  BY KindsDiffer DEF InitForwarded, StartedOnce, TodoIsOwn, StatusRight, Jobs
<1>4. SetupOnce /\ CleanupTold
  <2>1. \A t \in ForwardedIDs : vm[t] = "new" /\ told[t] = {}
    BY DEF InitForwarded
  <2>2. \A s \in Services : job[s] = "none"
    BY AllKinds DEF InitForwarded
  <2> QED
    BY <2>1, <2>2, AllKinds, KindsDiffer DEF SetupOnce, CleanupTold
<1> QED
  BY <1>1, <1>2, <1>3, <1>4 DEF ForwardedInv

-----------------------------------------------------------------------------
(* Steps that submit nothing.                                                *)

\* A handler goes from one place to another, or ends, with nothing submitted of its own.
LEMMA HandlerKeepsInv ==
  ASSUME ForwardedInv, NEW t \in ForwardedIDs, NEW p,
         p \in {"token", "services", "answer", "step", "send", "done"},
         vm[t] # "done",
         vm' = [vm EXCEPT ![t] = p],
         told' = told \/ (p = "done" /\ told' = [told EXCEPT ![t] = @ \cup {"runner"}]),
         succeeded' = succeeded
           \/ (t \in VMInits /\ p = "done" /\ succeeded' = succeeded \cup {t}),
         p = "token" => vm[t] = "new",
         p = "done" /\ t \in VMInits => t \in succeeded' \/ vm[t] \in {"new", "token"},
         instance' \subseteq VMStages,
         todo' = todo \/ (/\ t \in VMInits /\ vm[t] = "new"
                          /\ todo' = [todo EXCEPT ![t] = ServicesOf[t]]),
         vmFaults' \in 0..MaxVMFaults,
         UNCHANGED <<job, status, lost>>
  PROVE  ForwardedInv'
<1> USE KindsDiffer DEF ForwardedInv
<1>1. ForwardedTypeOK'
  <2>1. vm' \in [ForwardedIDs -> {"new", "token", "services", "answer", "step", "send", "done"}]
    BY DEF ForwardedTypeOK
  <2>2. told' \in [ForwardedIDs -> SUBSET (Jobs \cup {"runner"})]
    BY DEF ForwardedTypeOK
  <2>3. todo' \in [VMInits -> SUBSET Services] /\ succeeded' \subseteq VMInits
    BY DEF ForwardedTypeOK
  <2> QED
    BY <2>1, <2>2, <2>3 DEF ForwardedTypeOK
<1>2. SubmittedOnce'
  <2> SUFFICES ASSUME NEW u \in Submitted
               PROVE  /\ vm'[u] # "done" => job[u] = "none" /\ told'[u] = {}
                      /\ told'[u] \subseteq {"runner", u}
                      /\ u \in told'[u] => job[u] # "none"
                      /\ "runner" \in told'[u] => job[u] = "none" \/ u \in lost
    BY DEF SubmittedOnce
  <2>1. /\ vm[u] # "done" => job[u] = "none" /\ told[u] = {}
        /\ told[u] \subseteq {"runner", u}
        /\ u \in told[u] => job[u] # "none"
        /\ "runner" \in told[u] => job[u] = "none" \/ u \in lost
    BY DEF SubmittedOnce
  <2>2. u \in ForwardedIDs /\ u # "runner"
    BY AllKinds
  <2>3. CASE u = t
    <3>1. vm'[u] = p /\ (told'[u] = {} \/ (p = "done" /\ told'[u] = {"runner"}))
      BY <2>1, <2>2, <2>3 DEF ForwardedTypeOK
    <3> QED
      BY <2>1, <2>2, <2>3, <3>1
  <2>4. CASE u # t
    <3>1. vm'[u] = vm[u] /\ told'[u] = told[u]
      BY <2>2, <2>4 DEF ForwardedTypeOK
    <3> QED
      BY <2>1, <3>1
  <2> QED
    BY <2>3, <2>4
<1>3. TodoIsOwn'
  BY DEF TodoIsOwn, ForwardedTypeOK
<1>4. StartedOnce'
  <2> SUFFICES ASSUME NEW u \in VMInits, NEW s \in ServicesOf[u],
                      vm'[u] = "new" \/ s \in todo'[u]
               PROVE  job[s] = "none" /\ s \notin lost
    BY DEF StartedOnce
  <2>1. vm[u] = "new" \/ s \in todo[u]
    BY DEF ForwardedTypeOK, ForwardedIDs
  <2> QED
    BY <2>1 DEF StartedOnce
<1>5. StatusRight'
  BY DEF StatusRight
<1>6. SetupOnce'
  <2> SUFFICES ASSUME NEW u \in VMInits
               PROVE  /\ told'[u] \subseteq {"runner"} \cup ServicesOf[u]
                      /\ \A s \in ServicesOf[u] : s \in told'[u] => job[s] # "none"
                      /\ vm'[u] # "done" => "runner" \notin told'[u]
                      /\ Unserved(u)' => \A s \in ServicesOf[u] : job[s] = "none"
    BY DEF SetupOnce
  <2>1. /\ told[u] \subseteq {"runner"} \cup ServicesOf[u]
        /\ \A s \in ServicesOf[u] : s \in told[u] => job[s] # "none"
        /\ vm[u] # "done" => "runner" \notin told[u]
        /\ Unserved(u) => \A s \in ServicesOf[u] : job[s] = "none"
    BY DEF SetupOnce
  <2>2. "runner" \notin ServicesOf[u] /\ u \in ForwardedIDs
    BY AllKinds DEF ForwardedIDs
  <2>3. told'[u] \subseteq told[u] \cup {"runner"} /\ ("runner" \in told'[u] \ told[u] => vm'[u] = "done")
    BY <2>2 DEF ForwardedTypeOK
  <2>4. vm[u] = "done" => vm'[u] = "done"
    BY <2>2 DEF ForwardedTypeOK
  <2>5. Unserved(u)' => Unserved(u)
    BY <2>2 DEF Unserved, ForwardedTypeOK
  <2> QED
    BY <2>1, <2>2, <2>3, <2>4, <2>5
<1>7. CleanupTold'
  BY AllKinds DEF CleanupTold, ForwardedTypeOK
<1> QED
  BY <1>1, <1>2, <1>3, <1>4, <1>5, <1>6, <1>7

LEMMA BeginsKeepInv ==
  ASSUME ForwardedInv, NEW t \in ForwardedIDs,
         VMSetup(t) \/ VMExecute(t) \/ Decode(t)
  PROVE  ForwardedInv'
<1>1. ForwardedTypeOK
  BY DEF ForwardedInv
<1>2. vmFaults' \in 0..MaxVMFaults
  BY <1>1, FaultCounts DEF VMSetup, VMExecute, Decode, ForwardedTypeOK
<1>3. CASE VMSetup(t)
  <2>1. VMStageOf[t] \in VMStages
    BY <1>3, ForwardedAssumption DEF VMSetup, VMStages
  <2>2. CASE Fault /\ Respond(t) /\ UNCHANGED <<instance, todo>>
    BY <1>1, <1>2, <1>3, <2>2, HandlerKeepsInv DEF VMSetup, Respond, ForwardedTypeOK
  <2>3. CASE /\ instance' = instance \cup {VMStageOf[t]}
             /\ todo' = [todo EXCEPT ![t] = ServicesOf[t]]
             /\ HandlerAt(t, IF ServicesOf[t] = {} THEN "answer" ELSE "token")
    <3>1. instance' \subseteq VMStages /\ succeeded' = succeeded
      BY <1>1, <1>3, <2>1, <2>3 DEF VMSetup, ForwardedTypeOK
    <3> QED
      BY <1>2, <1>3, <2>3, <3>1, HandlerKeepsInv DEF VMSetup, HandlerAt
  <2> QED
    BY <1>3, <2>2, <2>3 DEF VMSetup
<1>4. CASE VMExecute(t)
  BY <1>1, <1>2, <1>4, HandlerKeepsInv DEF VMExecute, HandlerAt, ForwardedTypeOK
<1>5. CASE Decode(t)
  BY <1>1, <1>2, <1>5, HandlerKeepsInv DEF Decode, HandlerAt, RespondNil, ForwardedTypeOK
<1> QED
  BY <1>3, <1>4, <1>5

LEMMA GoesOnKeepsInv ==
  ASSUME ForwardedInv, NEW t \in ForwardedIDs, MakeStepToken(t) \/ AnswerSetup(t)
  PROVE  ForwardedInv'
<1>1. ForwardedTypeOK
  BY DEF ForwardedInv
<1>2. vmFaults' \in 0..MaxVMFaults
  BY <1>1, FaultCounts DEF MakeStepToken, AnswerSetup, ForwardedTypeOK
<1>3. CASE MakeStepToken(t)
  BY <1>1, <1>2, <1>3, HandlerKeepsInv DEF MakeStepToken, HandlerAt, Respond, ForwardedTypeOK
<1>4. CASE AnswerSetup(t)
  BY <1>1, <1>2, <1>4, HandlerKeepsInv DEF AnswerSetup, Respond, ForwardedTypeOK
<1> QED
  BY <1>3, <1>4

-----------------------------------------------------------------------------
(* Submissions, and their ends.                                              *)

LEMMA SubmitKeepsTypes ==
  ASSUME ForwardedTypeOK, NEW j \in Jobs, NEW o \in Outcomes \cup {"no instance"}, Submit(j, o)
  PROVE  /\ job' \in [Jobs -> {"none", "running", "ended", "gone"}]
         /\ lost' \subseteq Jobs
         /\ vmFaults' \in 0..MaxVMFaults
         /\ \A i \in Jobs : i # j => job'[i] = job[i] /\ (i \in lost' <=> i \in lost)
         /\ o = "accepted" => job'[j] = "running" /\ lost' = lost
         /\ o = "lost" => job'[j] = "running" /\ j \in lost'
         /\ o \notin {"accepted", "lost"} => job' = job /\ lost' = lost
<1>1. vmFaults' \in 0..MaxVMFaults
  BY FaultCounts DEF Submit, ForwardedTypeOK
<1> QED
  BY <1>1 DEF Submit, ForwardedTypeOK

LEMMA SubmitKeepsInv ==
  ASSUME ForwardedInv, NEW t \in Submitted, NEW o \in Outcomes \cup {"no instance"},
         vm[t] # "done", Submit(t, o), AnswerToStep(t, o),
         UNCHANGED <<succeeded, instance, todo, status>>
  PROVE  ForwardedInv'
<1> USE KindsDiffer DEF ForwardedInv
<1>1. t \in Jobs /\ t \in ForwardedIDs
  BY DEF Jobs
<1>2. /\ job' \in [Jobs -> {"none", "running", "ended", "gone"}]
      /\ lost' \subseteq Jobs
      /\ vmFaults' \in 0..MaxVMFaults
      /\ \A i \in Jobs : i # t => job'[i] = job[i] /\ (i \in lost' <=> i \in lost)
      /\ o = "accepted" => job'[t] = "running" /\ lost' = lost
      /\ o = "lost" => job'[t] = "running" /\ t \in lost'
      /\ o \notin {"accepted", "lost"} => job' = job /\ lost' = lost
  BY <1>1, SubmitKeepsTypes
<1>3. /\ vm' = [vm EXCEPT ![t] = "done"]
      /\ told' = IF o = "accepted" THEN told ELSE [told EXCEPT ![t] = @ \cup {"runner"}]
  BY DEF AnswerToStep, Respond, RespondNil
<1>4. ForwardedTypeOK'
  BY <1>1, <1>2, <1>3 DEF ForwardedTypeOK
<1>5. SubmittedOnce'
  <2> SUFFICES ASSUME NEW u \in Submitted
               PROVE  /\ vm'[u] # "done" => job'[u] = "none" /\ told'[u] = {}
                      /\ told'[u] \subseteq {"runner", u}
                      /\ u \in told'[u] => job'[u] # "none"
                      /\ "runner" \in told'[u] => job'[u] = "none" \/ u \in lost'
    BY DEF SubmittedOnce
  <2>1. CASE u # t
    BY <1>1, <1>2, <1>3, <2>1 DEF SubmittedOnce, ForwardedTypeOK, Jobs
  <2>2. CASE u = t
    <3>1. vm'[t] = "done" /\ told[t] = {} /\ job[t] = "none"
      BY <1>1, <1>3 DEF SubmittedOnce, ForwardedTypeOK
    <3>2. told'[t] = IF o = "accepted" THEN {} ELSE {"runner"}
      BY <1>1, <1>3, <3>1 DEF ForwardedTypeOK
    <3>3. t \notin told'[t] /\ told'[t] \subseteq {"runner", t}
      <4>1. t # "runner" /\ (told'[t] = {} \/ told'[t] = {"runner"})
        BY <1>1, <3>2, AllKinds
      <4> QED
        BY <4>1
    <3>4. "runner" \in told'[t] => job'[t] = "none" \/ t \in lost'
      <4>1. CASE o = "accepted"
        BY <3>2, <4>1
      <4>2. CASE o = "lost"
        BY <1>2, <4>2
      <4>3. CASE o \notin {"accepted", "lost"}
        <5>1. job' = job
          BY <1>2, <4>3
        <5> QED
          BY <3>1, <5>1
      <4> QED
        BY <4>1, <4>2, <4>3
    <3> QED
      BY <2>2, <3>1, <3>3, <3>4
  <2> QED
    BY <2>1, <2>2
<1>6. \A s \in Services : s # t /\ s \in Jobs /\ job'[s] = job[s] /\ (s \in lost' <=> s \in lost)
  BY <1>1, <1>2 DEF Jobs
<1>7. StartedOnce'
  <2>1. \A u \in VMInits : vm'[u] = vm[u]
    BY <1>3 DEF ForwardedTypeOK, ForwardedIDs
  <2> QED
    BY <1>6, <2>1 DEF StartedOnce
<1>8. TodoIsOwn' /\ StatusRight'
  BY <1>6 DEF TodoIsOwn, StatusRight
<1>9. SetupOnce' /\ CleanupTold'
  <2>1. \A u \in VMInits \cup VMCleanups : vm'[u] = vm[u] /\ told'[u] = told[u]
    BY <1>3, AllKinds DEF ForwardedTypeOK, ForwardedIDs
  <2> QED
    BY <1>6, <2>1 DEF SetupOnce, CleanupTold, Unserved
<1> QED
  BY <1>4, <1>5, <1>7, <1>8, <1>9

LEMMA StepKeepsInv ==
  ASSUME ForwardedInv, NEW t \in ForwardedIDs, SubmitStep(t) \/ SendTask(t)
  PROVE  ForwardedInv'
BY SubmitKeepsInv DEF SubmitStep, SendTask, StepOutcomes, Submitted

LEMMA StartServiceKeepsInv ==
  ASSUME ForwardedInv, NEW t \in VMInits, NEW s \in Services, StartService(t, s)
  PROVE  ForwardedInv'
<1> USE KindsDiffer DEF ForwardedInv
<1>1. PICK o \in Outcomes \cup {"no instance"} :
        Submit(s, o) /\ status' = [status EXCEPT ![s] = ServiceStatus(o)]
  BY DEF StartService, StepOutcomes
<1>2. s \in Jobs
  BY DEF Jobs
<1>3. /\ job' \in [Jobs -> {"none", "running", "ended", "gone"}]
      /\ lost' \subseteq Jobs
      /\ vmFaults' \in 0..MaxVMFaults
      /\ \A i \in Jobs : i # s => job'[i] = job[i] /\ (i \in lost' <=> i \in lost)
      /\ o = "accepted" => job'[s] = "running" /\ lost' = lost
      /\ o = "lost" => job'[s] = "running" /\ s \in lost'
      /\ o \notin {"accepted", "lost"} => job' = job /\ lost' = lost
  BY <1>1, <1>2, SubmitKeepsTypes
<1>4. /\ s \in todo[t] /\ s \in ServicesOf[t]
      /\ todo' = [todo EXCEPT ![t] = @ \ {s}]
      /\ UNCHANGED <<vm, told, succeeded, instance>>
  BY DEF StartService, TodoIsOwn
<1>5. job[s] = "none" /\ s \notin lost
  BY <1>4 DEF StartedOnce
<1>6. \A u \in VMInits : todo'[u] \subseteq todo[u] /\ s \notin todo'[u]
  BY <1>4 DEF TodoIsOwn, ForwardedTypeOK
<1>7. ForwardedTypeOK'
  <2>1. status' \in [Services -> {"none", "RUNNING", "ERROR"}]
    BY <1>1 DEF ForwardedTypeOK, ServiceStatus
  <2>2. todo' \in [VMInits -> SUBSET Services]
    BY <1>4 DEF ForwardedTypeOK
  <2> QED
    BY <1>3, <1>4, <2>1, <2>2 DEF ForwardedTypeOK
<1>8. SubmittedOnce'
  <2>1. \A u \in Submitted : u # s /\ u \in Jobs
    BY DEF Jobs
  <2> QED
    BY <1>3, <1>4, <2>1 DEF SubmittedOnce
<1>9. StartedOnce'
  <2> SUFFICES ASSUME NEW u \in VMInits, NEW r \in ServicesOf[u],
                      vm'[u] = "new" \/ r \in todo'[u]
               PROVE  job'[r] = "none" /\ r \notin lost'
    BY DEF StartedOnce
  <2>1. job[r] = "none" /\ r \notin lost
    BY <1>4, <1>6 DEF StartedOnce
  <2>2. r # s
    <3>1. vm[t] = "services"
      BY DEF StartService
    <3>2. CASE u = t
      BY <1>4, <1>6, <3>1, <3>2
    <3>3. CASE u # t
      BY <1>4, <3>3
    <3> QED
      BY <3>2, <3>3
  <2> QED
    BY <1>3, <2>1, <2>2 DEF Jobs
<1>10. TodoIsOwn'
  BY <1>6 DEF TodoIsOwn
<1>11. StatusRight'
  <2> SUFFICES ASSUME NEW r \in Services
               PROVE  status'[r] = "RUNNING" <=> job'[r] # "none" /\ r \notin lost'
    BY DEF StatusRight
  <2>1. CASE r # s
    <3>1. status'[r] = status[r] /\ r \in Jobs
      BY <1>1, <2>1 DEF ForwardedTypeOK, Jobs
    <3> QED
      BY <1>3, <2>1, <3>1 DEF StatusRight
  <2>2. CASE r = s
    <3>1. status'[s] = IF o = "accepted" THEN "RUNNING" ELSE "ERROR"
      BY <1>1 DEF ForwardedTypeOK, ServiceStatus
    <3> QED
      BY <1>3, <1>5, <2>2, <3>1
  <2> QED
    BY <2>1, <2>2
<1>12. SetupOnce' /\ CleanupTold'
  <2> SUFFICES ASSUME NEW u \in VMInits
               PROVE  /\ told[u] \subseteq {"runner"} \cup ServicesOf[u]
                      /\ \A r \in ServicesOf[u] : r \in told[u] => job'[r] # "none"
                      /\ vm[u] # "done" => "runner" \notin told[u]
                      /\ Unserved(u)' => \A r \in ServicesOf[u] : job'[r] = "none"
    BY <1>4 DEF SetupOnce, CleanupTold
  <2>1. /\ told[u] \subseteq {"runner"} \cup ServicesOf[u]
        /\ \A r \in ServicesOf[u] : r \in told[u] => job[r] # "none"
        /\ vm[u] # "done" => "runner" \notin told[u]
        /\ Unserved(u) => \A r \in ServicesOf[u] : job[r] = "none"
    BY DEF SetupOnce
  <2>2. Unserved(u)' => Unserved(u) /\ u # t
    BY <1>4 DEF Unserved, StartService
  <2>3. \A r \in ServicesOf[u] : r \in Jobs /\ (u # t => r # s)
    BY <1>4, AllKinds
  <2>4. s \in told[u] => s \notin ServicesOf[u]
    BY <1>5, <2>1
  <2> QED
    BY <1>3, <2>1, <2>2, <2>3, <2>4
<1> QED
  BY <1>7, <1>8, <1>9, <1>10, <1>11, <1>12

LEMMA CleanupKeepsInv ==
  ASSUME ForwardedInv, NEW t \in ForwardedIDs, VMCleanup(t)
  PROVE  ForwardedInv'
<1> USE KindsDiffer DEF ForwardedInv
<1>1. /\ t \in VMCleanups /\ t \notin VMInits /\ t \notin Submitted
      /\ vm' = [vm EXCEPT ![t] = "done"]
      /\ told' = [told EXCEPT ![t] = @ \cup {"runner"}]
      /\ UNCHANGED <<succeeded, todo, status, lost>>
  BY ForwardedAssumption DEF VMCleanup, Respond, Submitted
<1>2. /\ job' \in [Jobs -> {"none", "running", "ended", "gone"}]
      /\ \A j \in Jobs : job'[j] = "none" <=> job[j] = "none"
  BY DEF VMCleanup, ForwardedTypeOK
<1>3. vmFaults' \in 0..MaxVMFaults /\ instance' \subseteq VMStages
  BY FaultCounts DEF VMCleanup, ForwardedTypeOK
<1>4. ForwardedTypeOK'
  BY <1>1, <1>2, <1>3 DEF ForwardedTypeOK
<1>5. SubmittedOnce'
  BY <1>1, <1>2 DEF SubmittedOnce, ForwardedTypeOK, Jobs
<1>6. StartedOnce'
  BY <1>1, <1>2 DEF StartedOnce, ForwardedTypeOK, ForwardedIDs, Jobs
<1>7. TodoIsOwn' /\ StatusRight'
  BY <1>1, <1>2 DEF TodoIsOwn, StatusRight, Jobs
<1>8. SetupOnce'
  <2>1. \A u \in VMInits : vm'[u] = vm[u] /\ told'[u] = told[u]
    BY <1>1, AllKinds DEF ForwardedTypeOK, ForwardedIDs
  <2>2. \A u \in VMInits : \A s \in ServicesOf[u] : s \in Jobs
    BY AllKinds
  <2> QED
    BY <1>1, <1>2, <2>1, <2>2 DEF SetupOnce, Unserved
<1>9. CleanupTold'
  BY <1>1 DEF CleanupTold, ForwardedTypeOK
<1> QED
  BY <1>4, <1>5, <1>6, <1>7, <1>8, <1>9

LEMMA JobEndKeepsInv ==
  ASSUME ForwardedInv, NEW j \in Jobs, JobEnds(j)
  PROVE  ForwardedInv'
<1> USE KindsDiffer DEF ForwardedInv
<1>1. /\ job[j] = "running" /\ job' = [job EXCEPT ![j] = "ended"]
      /\ told' = [t \in ForwardedIDs |-> IF TellsOf(j, t) THEN told[t] \cup {j} ELSE told[t]]
      /\ UNCHANGED <<vm, succeeded, instance, todo, status, lost, vmFaults>>
  BY DEF JobEnds
<1>2. \A i \in Jobs : job'[i] = "none" <=> job[i] = "none"
  BY <1>1 DEF ForwardedTypeOK
<1>3. ForwardedTypeOK'
  <2>1. told' \in [ForwardedIDs -> SUBSET (Jobs \cup {"runner"})]
    BY <1>1 DEF ForwardedTypeOK
  <2> QED
    BY <1>1, <2>1 DEF ForwardedTypeOK
<1>4. SubmittedOnce'
  <2> SUFFICES ASSUME NEW u \in Submitted
               PROVE  /\ vm'[u] # "done" => job'[u] = "none" /\ told'[u] = {}
                      /\ told'[u] \subseteq {"runner", u}
                      /\ u \in told'[u] => job'[u] # "none"
                      /\ "runner" \in told'[u] => job'[u] = "none" \/ u \in lost'
    BY DEF SubmittedOnce
  <2>1. u \in Jobs /\ u \in ForwardedIDs /\ u # "runner" /\ u \notin VMInits
    BY AllKinds
  <2>2. told'[u] = IF u = j THEN told[u] \cup {j} ELSE told[u]
    BY <1>1, <2>1 DEF TellsOf
  <2>3. CASE u # j
    BY <1>1, <1>2, <2>1, <2>2, <2>3 DEF SubmittedOnce
  <2>4. CASE u = j
    BY <1>1, <1>2, <2>1, <2>2, <2>4 DEF SubmittedOnce
  <2> QED
    BY <2>3, <2>4
<1>5. StartedOnce' /\ TodoIsOwn' /\ StatusRight'
  BY <1>1, <1>2 DEF StartedOnce, TodoIsOwn, StatusRight, Jobs
<1>6. SetupOnce'
  <2> SUFFICES ASSUME NEW u \in VMInits
               PROVE  /\ told'[u] \subseteq {"runner"} \cup ServicesOf[u]
                      /\ \A s \in ServicesOf[u] : s \in told'[u] => job'[s] # "none"
                      /\ vm'[u] # "done" => "runner" \notin told'[u]
                      /\ Unserved(u)' => \A s \in ServicesOf[u] : job'[s] = "none"
    BY DEF SetupOnce
  <2>1. /\ told[u] \subseteq {"runner"} \cup ServicesOf[u]
        /\ \A s \in ServicesOf[u] : s \in told[u] => job[s] # "none"
        /\ vm[u] # "done" => "runner" \notin told[u]
        /\ Unserved(u) => \A s \in ServicesOf[u] : job[s] = "none"
    BY DEF SetupOnce
  <2>2. told'[u] = IF j \in ServicesOf[u] THEN told[u] \cup {j} ELSE told[u]
    BY <1>1, AllKinds DEF TellsOf
  <2>3. \A s \in ServicesOf[u] : s \in Jobs
    BY AllKinds
  <2>4. Unserved(u)' <=> Unserved(u)
    BY <1>1 DEF Unserved
  <2>5. job'[j] # "none" /\ j # "runner"
    BY <1>1, <1>2, AllKinds
  <2>6. told'[u] \subseteq {"runner"} \cup ServicesOf[u]
    BY <2>1, <2>2
  <2>7. \A s \in ServicesOf[u] : s \in told'[u] => job'[s] # "none"
    BY <1>2, <2>1, <2>2, <2>3, <2>5
  <2>8. vm'[u] # "done" => "runner" \notin told'[u]
    BY <1>1, <2>1, <2>2, <2>5
  <2>9. Unserved(u)' => \A s \in ServicesOf[u] : job'[s] = "none"
    BY <1>2, <2>1, <2>3, <2>4
  <2> QED
    BY <2>6, <2>7, <2>8, <2>9
<1>7. CleanupTold'
  <2>1. \A u \in VMCleanups : told'[u] = told[u]
    BY <1>1, AllKinds DEF TellsOf, ForwardedTypeOK
  <2> QED
    BY <2>1 DEF CleanupTold
<1> QED
  BY <1>3, <1>4, <1>5, <1>6, <1>7

-----------------------------------------------------------------------------
LEMMA NextKeepsForwardedInv == ForwardedInv /\ [NextForwarded]_vmVars => ForwardedInv'
<1> SUFFICES ASSUME ForwardedInv, [NextForwarded]_vmVars PROVE ForwardedInv'
  OBVIOUS
<1>1. ASSUME NEW t \in ForwardedIDs, VMSetup(t) \/ VMExecute(t) \/ VMCleanup(t) \/ Decode(t)
      PROVE  ForwardedInv'
  BY <1>1, BeginsKeepInv, CleanupKeepsInv
<1>2. ASSUME NEW t \in ForwardedIDs, HandlerStep(t)
      PROVE  ForwardedInv'
  BY <1>2, GoesOnKeepsInv, StepKeepsInv, StartServiceKeepsInv DEF HandlerStep
<1>3. ASSUME NEW j \in Jobs, JobEnds(j)
      PROVE  ForwardedInv'
  BY <1>3, JobEndKeepsInv
<1>4. CASE UNCHANGED vmVars
  BY <1>4 DEF vmVars, ForwardedInv, ForwardedTypeOK, SubmittedOnce, SetupOnce, Unserved,
              CleanupTold, StartedOnce, TodoIsOwn, StatusRight
<1> QED
  BY <1>1, <1>2, <1>3, <1>4 DEF NextForwarded

\* The invariant of the forwarded tasks: a submission has one outcome, and what the runner
\* says follows from it.
THEOREM ForwardedInvHolds == SpecForwarded => []ForwardedInv
BY InitForwardedInv, NextKeepsForwardedInv, PTL DEF SpecForwarded

\* Whatever fails, and whenever a stage is cleaned up: of a task that was submitted the server
\* is told by both the runner and the one it works for only if the answer to the submission
\* was lost (exec.go:128, delegate_task.go:44); of a vm_init the engine tells too, for services
\* that were started with its id (setup.go:168), but of none that the runner's answer does not
\* say is running, unless its own answer was lost, nor of a vm_init the runner has failed.
THEOREM AnswersAccountedHolds == SpecForwarded => []AnswersAccounted
<1>1. ForwardedInv => SecondAnswerHasReason
  <2> SUFFICES ASSUME ForwardedInv, NEW t \in ForwardedIDs, "runner" \in told[t],
                      NEW j \in told[t], j # "runner"
               PROVE  j \in lost \/ (t \in VMInits /\ status[j] = "RUNNING")
    BY DEF SecondAnswerHasReason
  <2>1. CASE t \in VMInits
    <3>1. j \in ServicesOf[t] /\ job[j] # "none" /\ j \in Services
      BY <2>1, KindsDiffer DEF ForwardedInv, SetupOnce
    <3> QED
      BY <2>1, <3>1 DEF ForwardedInv, StatusRight
  <2>2. CASE t \in VMCleanups
    BY <2>2 DEF ForwardedInv, CleanupTold
  <2>3. CASE t \in Submitted
    BY <2>3 DEF ForwardedInv, SubmittedOnce
  <2> QED
    BY <2>1, <2>2, <2>3, AllKinds
<1>2. ForwardedInv => FailedSetupIsToldOnce
  <2> SUFFICES ASSUME ForwardedInv, NEW t \in VMInits, "runner" \in told[t], t \notin succeeded
               PROVE  told[t] = {"runner"}
    BY DEF FailedSetupIsToldOnce
  <2>1. Unserved(t)
    BY DEF ForwardedInv, SetupOnce, Unserved
  <2> QED
    BY <2>1 DEF ForwardedInv, SetupOnce
<1>3. ForwardedInv => AnswersAccounted
  BY <1>1, <1>2 DEF AnswersAccounted
<1> QED
  BY <1>3, ForwardedInvHolds, PTL

\* The answer to a vm_init says of every service whether its engine took it, for any
\* services and stages.
THEOREM ServicesReportedHolds == SpecForwarded => []ServicesReported
<1>1. ForwardedInv => ServicesReported
  BY KindsDiffer DEF ForwardedInv, ForwardedTypeOK, StatusRight, ServicesReported
<1> QED
  BY <1>1, ForwardedInvHolds, PTL

-----------------------------------------------------------------------------
(* SecretTasks: what Vault keeps after a write and after a deletion.         *)

\* A task that operates has a request, one that is new has none.
Requested ==
  /\ DOMAIN request = SecretTaskIDs
  /\ \A t \in SecretTaskIDs :
       /\ vault[t] = "operate" => request[t] \in SecretRequests[t]
       /\ vault[t] = "new" => request[t] = NoRequest

\* A place that has been deleted with success knows nothing of a secret; one that was
\* written last with success has the data, in the form a fetch takes them from.
ErasedAndLatest ==
  \A v \in Versions :
    /\ v \in erased => kept[v] = "unknown"
    /\ latest[v].key \in Keys =>
         kept[v] = "data" /\ content[v][latest[v].key] = latest[v].value

\* The inductive invariant.
SecretInv == SecretTypeOK /\ Requested /\ ErasedAndLatest

LEMMA CallFaultsBounded ==
  ASSUME SecretTypeOK, CallFaults \/ UNCHANGED vaultFaults
  PROVE  vaultFaults' \in 0..MaxVaultFaults
BY SecretAssumption, SMT DEF SecretTypeOK, CallFaults

LEMMA ARequest ==
  ASSUME NEW t \in SecretTaskIDs, NEW r \in SecretRequests[t]
  PROVE  /\ r.action \in Actions /\ r.version \in Nat /\ r.key \in Keys /\ r.value \in Values
         /\ r.creds \in Credentials
BY SecretAssumption DEF RequestType

\* What a value is decoded to is a value, or an error.
LEMMA ParsedType ==
  ASSUME NEW x \in Values \cup {NoSecret}, NEW b
  PROVE  Parsed(x, b) \in Values \cup {NoSecret}
BY SecretAssumption DEF Parsed

LEMMA AnswersKeepTypes ==
  ASSUME SecretTypeOK, NEW t \in SecretTaskIDs,
         NEW r \in {"success", "failure", "valid", "invalid", "value", "error"}, Answers(t, r)
  PROVE  /\ vault' \in [SecretTaskIDs -> {"new", "operate", "done"}]
         /\ vaultReply' \in [SecretTaskIDs -> {"none", "success", "failure", "valid", "invalid",
                                               "value", "error"}]
         /\ vault'[t] = "done"
         /\ \A u \in SecretTaskIDs \ {t} : vault'[u] = vault[u] /\ vaultReply'[u] = vaultReply[u]
BY DEF SecretTypeOK, Answers

LEMMA InitSecretInv == InitSecrets => SecretInv
<1> SUFFICES ASSUME InitSecrets PROVE SecretInv
  OBVIOUS
<1>1. PICK v0 \in Values :
        \/ kept = [v \in Versions |-> "unknown"] /\ content = [v \in Versions |-> Empty]
        \/ /\ kept = [v \in Versions |-> "data"]
           /\ content = [v \in Versions |-> [k \in Keys |-> v0]]
  BY DEF InitSecrets
<1>2. kept \in [Versions -> {"unknown", "data", "deleted"}]
  BY <1>1
<1>3. content \in [Versions -> [Keys -> Values \cup {NoSecret}]]
  BY <1>1 DEF Empty
<1>4. wrapped \in [Versions -> BOOLEAN]
  BY DEF InitSecrets
<1>5. latest \in [Versions -> {NoKey} \cup [key : Keys, value : Values]]
  BY DEF InitSecrets
<1>6. /\ vault \in [SecretTaskIDs -> {"new", "operate", "done"}]
      /\ \A t \in SecretTaskIDs : request[t] \in SecretRequests[t] \cup {NoRequest}
      /\ auth \in [SecretTaskIDs -> {"none", "role", "token"}]
      /\ vaultReply \in [SecretTaskIDs -> {"none", "success", "failure", "valid", "invalid",
                                           "value", "error"}]
      /\ secret \in [SecretTaskIDs -> Values \cup {NoSecret}]
  BY DEF InitSecrets
<1>7. SecretTypeOK
  BY <1>2, <1>3, <1>4, <1>5, <1>6, SecretAssumption DEF SecretTypeOK, InitSecrets
<1>8. Requested
  BY DEF InitSecrets, Requested
<1>9. ErasedAndLatest
  BY SecretAssumption DEF InitSecrets, ErasedAndLatest, NoKey
<1> QED
  BY <1>7, <1>8, <1>9 DEF SecretInv

\* A task answers, and what Vault keeps stays or changes as said.
LEMMA AnswerKeepsSecretInv ==
  ASSUME SecretInv, NEW t \in SecretTaskIDs, vault[t] = "operate",
         NEW r \in {"success", "failure", "valid", "invalid", "value", "error"}, Answers(t, r),
         UNCHANGED <<request, auth>>,
         secret' \in [SecretTaskIDs -> Values \cup {NoSecret}],
         vaultFaults' \in 0..MaxVaultFaults,
         kept' \in [Versions -> {"unknown", "data", "deleted"}],
         content' \in [Versions -> [Keys -> Values \cup {NoSecret}]],
         wrapped' \in [Versions -> BOOLEAN],
         erased' \subseteq Versions,
         latest' \in [Versions -> {NoKey} \cup [key : Keys, value : Values]],
         ErasedAndLatest'
  PROVE  SecretInv'
<1>1. /\ vault' \in [SecretTaskIDs -> {"new", "operate", "done"}]
      /\ vaultReply' \in [SecretTaskIDs -> {"none", "success", "failure", "valid", "invalid",
                                            "value", "error"}]
      /\ vault'[t] = "done"
      /\ \A u \in SecretTaskIDs \ {t} : vault'[u] = vault[u]
  BY AnswersKeepTypes DEF SecretInv
<1>2. SecretTypeOK'
  BY <1>1 DEF SecretInv, SecretTypeOK
<1>3. Requested'
  BY <1>1 DEF SecretInv, Requested
<1> QED
  BY <1>2, <1>3 DEF SecretInv

LEMMA ReadsKeepSecretInv ==
  ASSUME SecretInv, NEW t \in SecretTaskIDs, Connect(t) \/ ValidateRef(t) \/ Fetch(t)
  PROVE  SecretInv'
<1>1. SecretTypeOK /\ ErasedAndLatest
  BY DEF SecretInv
<1>2. /\ vault[t] = "operate" /\ UNCHANGED <<request, auth, kept, content, wrapped, erased, latest>>
      /\ CallFaults \/ UNCHANGED vaultFaults
  BY DEF Connect, ValidateRef, Fetch, Operates, server
<1>3. vaultFaults' \in 0..MaxVaultFaults
  BY <1>1, <1>2, CallFaultsBounded
<1>4. ErasedAndLatest'
  BY <1>1, <1>2 DEF ErasedAndLatest
<1>5. CASE Connect(t) \/ ValidateRef(t)
  <2>1. PICK r \in {"success", "failure", "valid", "invalid"} : Answers(t, r)
    BY <1>5 DEF Connect, ValidateRef
  <2>2. secret' = secret
    BY <1>5 DEF Connect, ValidateRef
  <2> QED
    BY <1>1, <1>2, <1>3, <1>4, <2>1, <2>2, AnswerKeepsSecretInv DEF SecretTypeOK
<1>6. CASE Fetch(t)
  <2>1. PICK x \in Values \cup {NoSecret} : AnswersWith(t, x)
    <3> DEFINE q == request[t]
               x == IF auth[t] # "none" /\ Found(q.version)
                    THEN Parsed(ValueOf(q.version, q.key), q.base64) ELSE NoSecret
    <3>1. q.version \in Nat /\ q.key \in Keys
      BY <1>2, ARequest DEF SecretInv, Requested
    <3>2. Found(q.version) => ValueOf(q.version, q.key) \in Values \cup {NoSecret}
      BY <1>1, <3>1 DEF Found, ValueOf, Unwraps, SecretTypeOK
    <3>3. x \in Values \cup {NoSecret}
      BY <3>2, ParsedType
    <3>4. AnswersWith(t, x) \/ AnswersWith(t, NoSecret)
      BY <1>6 DEF Fetch
    <3> QED
      BY <3>3, <3>4
  <2>2. secret' \in [SecretTaskIDs -> Values \cup {NoSecret}]
    BY <1>1, <2>1 DEF AnswersWith, SecretTypeOK
  <2>3. PICK r \in {"value", "error"} : Answers(t, r)
    BY <2>1 DEF AnswersWith
  <2> QED
    BY <1>1, <1>2, <1>3, <1>4, <2>2, <2>3, AnswerKeepsSecretInv DEF SecretTypeOK
<1> QED
  BY <1>5, <1>6

\* What a write and a deletion leave in Vault.
LEMMA WrittenKeepsTypes ==
  ASSUME SecretInv, NEW v \in Versions, NEW k \in Keys, NEW x \in Values, Written(v, k, x),
         latest' = [latest EXCEPT ![v] = [key |-> k, value |-> x]]
           \/ latest' = [latest EXCEPT ![v] = NoKey]
  PROVE  /\ kept' \in [Versions -> {"unknown", "data", "deleted"}]
         /\ content' \in [Versions -> [Keys -> Values \cup {NoSecret}]]
         /\ wrapped' \in [Versions -> BOOLEAN] /\ erased' \subseteq Versions
         /\ latest' \in [Versions -> {NoKey} \cup [key : Keys, value : Values]]
         /\ ErasedAndLatest'
<1> USE DEF SecretInv, SecretTypeOK, Written
<1> DEFINE c == [Empty EXCEPT ![k] = x]
           l == [key |-> k, value |-> x]
<1>1. c \in [Keys -> Values \cup {NoSecret}] /\ c[k] = x
  BY DEF Empty
<1>2. content' = [content EXCEPT ![v] = c]
  OBVIOUS
<1>3. l \in [key : Keys, value : Values] /\ l.key = k /\ l.value = x /\ NoKey.key \notin Keys
  BY SecretAssumption DEF NoKey
<1>4. latest' = [latest EXCEPT ![v] = l] \/ latest' = [latest EXCEPT ![v] = NoKey]
  OBVIOUS
<1> HIDE DEF c, l
<1>5. content' \in [Versions -> [Keys -> Values \cup {NoSecret}]]
  BY <1>1, <1>2
<1>6. latest' \in [Versions -> {NoKey} \cup [key : Keys, value : Values]]
  BY <1>3, <1>4
<1>7. wrapped' \in [Versions -> BOOLEAN] /\ kept' \in [Versions -> {"unknown", "data", "deleted"}]
      /\ erased' \subseteq Versions
  OBVIOUS
<1>8. ErasedAndLatest'
  BY <1>1, <1>2, <1>3, <1>4 DEF ErasedAndLatest
<1> QED
  BY <1>5, <1>6, <1>7, <1>8

LEMMA DeletedKeepsTypes ==
  ASSUME SecretInv, NEW v \in Versions, Deleted(v, FullPathForDelete(v)),
         latest' = [latest EXCEPT ![v] = NoKey], erased' = erased \cup {v} \/ erased' = erased
  PROVE  /\ kept' \in [Versions -> {"unknown", "data", "deleted"}]
         /\ content' \in [Versions -> [Keys -> Values \cup {NoSecret}]]
         /\ wrapped' \in [Versions -> BOOLEAN] /\ erased' \subseteq Versions
         /\ latest' \in [Versions -> {NoKey} \cup [key : Keys, value : Values]]
         /\ ErasedAndLatest'
<1> USE DEF SecretInv, SecretTypeOK, Deleted
<1>1. FullPathForDelete(v) # "data"
  BY DEF FullPathForDelete, Versions
<1>2. kept' = [kept EXCEPT ![v] = "unknown"]
  BY <1>1
<1>3. Empty \in [Keys -> Values \cup {NoSecret}] /\ NoKey.key \notin Keys
  BY SecretAssumption DEF Empty, NoKey
<1>4. PICK b \in BOOLEAN : wrapped' = [wrapped EXCEPT ![v] = b]
  OBVIOUS
<1>5. wrapped' \in [Versions -> BOOLEAN]
  BY <1>4
<1>6. content' \in [Versions -> [Keys -> Values \cup {NoSecret}]]
  BY <1>3
<1>7. latest' \in [Versions -> {NoKey} \cup [key : Keys, value : Values]]
  OBVIOUS
<1>8. ErasedAndLatest'
  BY <1>2, <1>3 DEF ErasedAndLatest
<1> QED
  BY <1>2, <1>5, <1>6, <1>7, <1>8

LEMMA SupportedVersions ==
  ASSUME NEW v, FullPath(v) # "unsupported" \/ FullPathForDelete(v) # "unsupported"
  PROVE  v \in Versions
BY DEF FullPath, FullPathForDelete, Versions

LEMMA EditsKeepSecretInv ==
  ASSUME SecretInv, NEW t \in SecretTaskIDs, Upsert(t) \/ Delete(t)
  PROVE  SecretInv'
<1> DEFINE v == request[t].version
<1>1. SecretTypeOK /\ ErasedAndLatest
  BY DEF SecretInv
<1>2. /\ vault[t] = "operate" /\ UNCHANGED <<request, auth, secret>>
      /\ CallFaults \/ UNCHANGED vaultFaults
  BY DEF Upsert, Delete, Operates
<1>3. vaultFaults' \in 0..MaxVaultFaults
  BY <1>1, <1>2, CallFaultsBounded
<1>4. request[t].key \in Keys /\ request[t].value \in Values
  BY <1>2, ARequest DEF SecretInv, Requested
<1>5. PICK r \in {"success", "failure"} : Answers(t, r)
  BY DEF Upsert, Delete
<1>6. /\ kept' \in [Versions -> {"unknown", "data", "deleted"}]
      /\ content' \in [Versions -> [Keys -> Values \cup {NoSecret}]]
      /\ wrapped' \in [Versions -> BOOLEAN] /\ erased' \subseteq Versions
      /\ latest' \in [Versions -> {NoKey} \cup [key : Keys, value : Values]]
      /\ ErasedAndLatest'
  <2>1. CASE UNCHANGED <<server, erased, latest>>
    BY <1>1, <2>1 DEF server, SecretTypeOK, ErasedAndLatest
  <2>2. CASE /\ ~Refused(t, FullPath(v))
             /\ Written(v, request[t].key, request[t].value)
             /\ \/ latest' = [latest EXCEPT ![v] =
                                [key |-> request[t].key, value |-> request[t].value]]
                \/ latest' = [latest EXCEPT ![v] = NoKey]
    <3>1. v \in Versions
      BY <2>2, SupportedVersions DEF Refused
    <3> QED
      BY <1>4, <2>2, <3>1, WrittenKeepsTypes
  <2>3. CASE /\ ~Refused(t, FullPathForDelete(v)) /\ Deleted(v, FullPathForDelete(v))
             /\ erased' = erased \cup {v} \/ erased' = erased
             /\ latest' = [latest EXCEPT ![v] = NoKey]
    <3>1. v \in Versions
      BY <2>3, SupportedVersions DEF Refused
    <3> QED
      BY <2>3, <3>1, DeletedKeepsTypes
  <2> QED
    BY <2>1, <2>2, <2>3 DEF Upsert, Delete
<1> QED
  BY <1>1, <1>2, <1>3, <1>5, <1>6, AnswerKeepsSecretInv DEF SecretTypeOK

LEMMA BeginningsKeepSecretInv ==
  ASSUME SecretInv, NEW t \in SecretTaskIDs, NewClient(t) \/ Static(t)
  PROVE  SecretInv'
<1>1. SecretTypeOK /\ ErasedAndLatest
  BY DEF SecretInv
<1>2. UNCHANGED <<kept, content, wrapped, erased, latest>> /\ (CallFaults \/ UNCHANGED vaultFaults)
  BY DEF NewClient, Static, server
<1>3. vaultFaults' \in 0..MaxVaultFaults
  BY <1>1, <1>2, CallFaultsBounded
<1>4. ErasedAndLatest'
  BY <1>1, <1>2 DEF ErasedAndLatest
<1>5. PICK r \in SecretRequests[t] : request' = [request EXCEPT ![t] = r]
  BY DEF NewClient, Static
<1>6. /\ DOMAIN request' = SecretTaskIDs
      /\ request'[t] = r
      /\ \A u \in SecretTaskIDs \ {t} : request'[u] = request[u]
  BY <1>5 DEF SecretInv, Requested
<1>7. CASE NewClient(t)
  <2>1. vault' = [vault EXCEPT ![t] = "operate"] /\ UNCHANGED <<vaultReply, secret>>
    BY <1>7 DEF NewClient
  <2>2. auth' \in [SecretTaskIDs -> {"none", "role", "token"}]
    BY <1>1, <1>7 DEF NewClient, SecretTypeOK
  <2>3. SecretTypeOK'
    BY <1>1, <1>2, <1>3, <1>6, <2>1, <2>2 DEF SecretTypeOK
  <2>4. Requested'
    BY <1>1, <1>5, <1>6, <2>1 DEF SecretInv, Requested, SecretTypeOK
  <2> QED
    BY <1>4, <2>3, <2>4 DEF SecretInv
<1>8. CASE Static(t)
  <2>1. PICK q \in SecretRequests[t] :
          AnswersWith(t, Parsed(q.value, q.base64)) \/ (Answers(t, "value") /\ UNCHANGED secret)
    BY <1>8 DEF Static
  <2>2. secret' \in [SecretTaskIDs -> Values \cup {NoSecret}]
    <3>1. q.value \in Values \cup {NoSecret}
      BY ARequest
    <3>2. Parsed(q.value, q.base64) \in Values \cup {NoSecret}
      BY <3>1, ParsedType
    <3> QED
      BY <1>1, <2>1, <3>2 DEF AnswersWith, SecretTypeOK
  <2>3. PICK a \in {"value", "error"} : Answers(t, a)
    BY <2>1 DEF AnswersWith
  <2>4. /\ vault' \in [SecretTaskIDs -> {"new", "operate", "done"}]
        /\ vaultReply' \in [SecretTaskIDs -> {"none", "success", "failure", "valid", "invalid",
                                              "value", "error"}]
        /\ vault'[t] = "done"
        /\ \A u \in SecretTaskIDs \ {t} : vault'[u] = vault[u]
    BY <1>1, <2>3, AnswersKeepTypes
  <2>5. auth' = auth
    BY <1>8 DEF Static
  <2>6. SecretTypeOK'
    BY <1>1, <1>2, <1>3, <1>6, <2>2, <2>4, <2>5 DEF SecretTypeOK
  <2>7. Requested'
    BY <1>6, <2>4 DEF SecretInv, Requested
  <2> QED
    BY <1>4, <2>6, <2>7 DEF SecretInv
<1> QED
  BY <1>7, <1>8

LEMMA NextKeepsSecretInv == SecretInv /\ [NextSecrets]_secretVars => SecretInv'
<1> SUFFICES ASSUME SecretInv, [NextSecrets]_secretVars PROVE SecretInv'
  OBVIOUS
<1>1. CASE UNCHANGED secretVars
  BY <1>1 DEF SecretInv, SecretTypeOK, Requested, ErasedAndLatest, secretVars, server
<1>2. CASE NextSecrets
  BY <1>2, ReadsKeepSecretInv, EditsKeepSecretInv, BeginningsKeepSecretInv DEF NextSecrets
<1> QED
  BY <1>1, <1>2

\* The invariant of the secret tasks: what they know of a place is what Vault keeps there.
THEOREM SecretInvHolds == SpecSecrets => []SecretInv
BY InitSecretInv, NextKeepsSecretInv, PTL DEF SpecSecrets

\* The type invariant, for any requests and faults of Vault.
THEOREM SecretTypeOKHolds == SpecSecrets => []SecretTypeOK
<1>1. SecretInv => SecretTypeOK
  BY DEF SecretInv
<1> QED
  BY <1>1, SecretInvHolds, PTL

-----------------------------------------------------------------------------
(* What a task says of a secret that has been deleted or written.            *)

\* Only the task that takes the step answers.
LEMMA OnlyOneAnswers ==
  ASSUME SecretInv, NEW t \in SecretTaskIDs, NEW u \in SecretTaskIDs, vaultReply'[t] # vaultReply[t],
         \/ NewClient(u) \/ Connect(u) \/ Upsert(u) \/ Delete(u) \/ ValidateRef(u)
         \/ Fetch(u) \/ Static(u)
  PROVE  u = t
BY SMT DEF SecretInv, SecretTypeOK, NewClient, Connect, Upsert, Delete, ValidateRef, Fetch, Static,
       Answers, AnswersWith

LEMMA ErasedIsNotFound ==
  ASSUME SecretInv, NEW v \in erased
  PROVE  v \in Versions /\ ~Found(v)
BY DEF SecretInv, SecretTypeOK, ErasedAndLatest, Found

LEMMA AnswerOfErased ==
  ASSUME SecretInv, NextSecrets, NEW t \in SecretTaskIDs,
         vaultReply'[t] # vaultReply[t], request[t].version \in erased
  PROVE  /\ request[t].action = "VALIDATE" => vaultReply'[t] = "invalid"
         /\ request[t].action = "FETCH" => vaultReply'[t] = "error"
<1>1. \/ NewClient(t) \/ Connect(t) \/ Upsert(t) \/ Delete(t) \/ ValidateRef(t)
      \/ Fetch(t) \/ Static(t)
  BY OnlyOneAnswers DEF NextSecrets
<1>2. request[t].version \in Versions /\ ~Found(request[t].version)
  BY ErasedIsNotFound
<1>3. vault[t] # "new"
  BY <1>2 DEF SecretInv, Requested, NoRequest, Versions
<1>4. vaultReply \in [SecretTaskIDs -> {"none", "success", "failure", "valid", "invalid",
                                        "value", "error"}]
  BY DEF SecretInv, SecretTypeOK
<1>5. CASE Connect(t) \/ Upsert(t) \/ Delete(t)
  BY <1>5 DEF Connect, Upsert, Delete, Operates
<1>6. CASE ValidateRef(t)
  <2>1. request[t].action = "VALIDATE" /\ Answers(t, "invalid")
    BY <1>2, <1>6 DEF ValidateRef, Operates
  <2> QED
    BY <1>4, <2>1 DEF Answers
<1>7. CASE Fetch(t)
  <2>1. request[t].action = "FETCH" /\ AnswersWith(t, NoSecret)
    BY <1>2, <1>7 DEF Fetch, Operates
  <2> QED
    BY <1>4, <2>1 DEF Answers, AnswersWith
<1> QED
  BY <1>1, <1>3, <1>5, <1>6, <1>7 DEF NewClient, Static

\* Whatever the versions of the engines, the requests and Vault's faults: once a deletion has
\* been answered with success nobody finds the secret valid or gets a value of it
\* (vault/handlers.go:141, vault/helpers.go:24).
THEOREM ErasedIsUnknownHolds == SpecSecrets => ErasedIsUnknown
<1>1. SecretInv /\ [NextSecrets]_secretVars =>
        [\A t \in SecretTaskIDs :
           vaultReply'[t] # vaultReply[t] /\ request[t].version \in erased
           => /\ request[t].action = "VALIDATE" => vaultReply'[t] = "invalid"
              /\ request[t].action = "FETCH" => vaultReply'[t] = "error"]_secretVars
  BY AnswerOfErased
<1> QED
  BY <1>1, SecretInvHolds, PTL DEF SpecSecrets, ErasedIsUnknown

LEMMA FetchOfWritten ==
  ASSUME SecretInv, NextSecrets, NEW t \in SecretTaskIDs,
         Operates(t, "FETCH"), vault'[t] = "done", auth[t] # "none", vaultFaults' = vaultFaults,
         request[t].version \in Versions, latest[request[t].version].key = request[t].key
  PROVE  secret'[t] = Parsed(latest[request[t].version].value, request[t].base64)
<1> DEFINE v == request[t].version
           k == request[t].key
<1>1. SecretTypeOK /\ vault[t] = "operate" /\ request[t].action = "FETCH"
  BY DEF Operates, SecretInv
<1>2. k \in Keys
  BY <1>1, ARequest DEF SecretInv, Requested
<1>3. kept[v] = "data" /\ content[v][k] = latest[v].value
  BY <1>2 DEF SecretInv, ErasedAndLatest
<1>4. Found(v) /\ ValueOf(v, k) = latest[v].value
  BY <1>3 DEF Found, ValueOf, Unwraps
<1>5. PICK u \in SecretTaskIDs :
        \/ NewClient(u) \/ Connect(u) \/ Upsert(u) \/ Delete(u) \/ ValidateRef(u)
        \/ Fetch(u) \/ Static(u)
  BY DEF NextSecrets
<1>6. u = t
  BY <1>1, <1>5, SMT DEF SecretTypeOK, NewClient, Connect, Upsert, Delete, ValidateRef, Fetch,
       Static, Answers, AnswersWith
<1>7. Fetch(t)
  BY <1>1, <1>5, <1>6 DEF NewClient, Connect, Upsert, Delete, ValidateRef, Static, Operates
<1>8. ~CallFaults
  BY <1>1, SMT DEF CallFaults, SecretTypeOK
<1>9. AnswersWith(t, Parsed(latest[v].value, request[t].base64))
  BY <1>4, <1>7, <1>8 DEF Fetch
<1> QED
  BY <1>1, <1>9 DEF AnswersWith, SecretTypeOK

\* A fetch that Vault answers gives what the last successful upsert wrote, in an engine of
\* either version, for any keys and values (vault/handlers.go:98, vault/operations.go:11).
THEOREM FetchesWhatWasWrittenHolds == SpecSecrets => FetchesWhatWasWritten
<1>1. SecretInv /\ [NextSecrets]_secretVars =>
        [\A t \in SecretTaskIDs :
           LET r == request[t]
           IN /\ Operates(t, "FETCH") /\ vault'[t] = "done"
              /\ auth[t] # "none" /\ vaultFaults' = vaultFaults
              /\ r.version \in Versions /\ latest[r.version].key = r.key
              => secret'[t] = Parsed(latest[r.version].value, r.base64)]_secretVars
  BY FetchOfWritten
<1> QED
  BY <1>1, SecretInvHolds, PTL DEF SpecSecrets, FetchesWhatWasWritten

-----------------------------------------------------------------------------
(* LocalTasks: what a cleanup removes, and what one that is left alone       *)
(* leaves behind.                                                            *)

Held(e) == container[e] \in {"created", "running", "exited"}

\* Where the handlers of each kind of task can be.
PlacesOfKinds ==
  \A t \in LocalTaskIDs :
    /\ local[t] \in {"volumes", "create_network"} => t \in Inits
    /\ local[t] \in {"create", "start", "wait"} => t \in Executes
    /\ local[t] \in {"list", "kill", "remove"} => t \in Cleanups \cap Labelled
    /\ local[t] = "network" => t \in Cleanups

\* What runs is waited for.
RunsWhileWaited == \A e \in Executes : Runs(e) => local[e] = "wait"

\* A cleanup has found containers of its own stage and label only.
FindsItsOwn ==
  \A t \in Cleanups : local[t] \in {"kill", "remove"} =>
    /\ left[t] \subseteq found[t]
    /\ \A e \in found[t] : e \in Labelled /\ SameStage(t, e)

\* A quiet cleanup that is in progress is the only task of its stage that is, and the
\* directory of the stage stays away.
QuietIsAlone ==
  \A t \in quiet :
    /\ local[t] # "new"
    /\ Busy(t) => /\ \A u \in LocalTaskIDs \ {t} : SameStage(t, u) => ~Busy(u)
                  /\ StageOf[t] \notin hostPath

\* ... so it knows of every container there is, and loses none of those it still has to do.
QuietKnowsAll ==
  \A t \in quiet \cap Labelled, e \in Executes \cap Labelled : SameStage(t, e) =>
    /\ local[t] = "kill" => (e \in found[t] <=> Held(e))
    /\ local[t] = "remove" => (e \in left[t] <=> Held(e))
    /\ local[t] = "network" => ~Held(e)

\* The inductive invariant.
LocalInv ==
  LocalTypeOK /\ PlacesOfKinds /\ RunsWhileWaited /\ FindsItsOwn /\ QuietIsAlone /\ QuietKnowsAll

LEMMA LocalKinds ==
  /\ Inits \subseteq LocalTaskIDs /\ Executes \subseteq LocalTaskIDs
  /\ Cleanups \subseteq LocalTaskIDs
  /\ Inits \cap Executes = {} /\ Inits \cap Cleanups = {} /\ Executes \cap Cleanups = {}
  /\ \A t \in LocalTaskIDs : StageOf[t] \in LocalStages
  /\ MaxDockerFaults \in Nat
BY LocalAssumption DEF LocalTaskIDs, LocalStages

LEMMA InitLocalInv == InitLocal => LocalInv
<1> SUFFICES ASSUME InitLocal PROVE LocalInv
  OBVIOUS
<1>1. /\ local \in [LocalTaskIDs -> {"new", "volumes", "create_network", "create", "start",
                                     "wait", "list", "kill", "remove", "network", "done"}]
      /\ localReply \in [LocalTaskIDs -> {"none", "success", "failure", "error"}]
      /\ container \in [Executes -> {"none", "created", "running", "exited", "process"}]
      /\ found \in [Cleanups -> SUBSET Executes] /\ left \in [Cleanups -> SUBSET Executes]
  BY DEF InitLocal
<1>2. LocalTypeOK
  BY <1>1, LocalKinds DEF InitLocal, LocalTypeOK
<1>3. PlacesOfKinds /\ RunsWhileWaited /\ FindsItsOwn /\ QuietIsAlone /\ QuietKnowsAll
  BY LocalKinds DEF InitLocal, PlacesOfKinds, RunsWhileWaited, Runs, FindsItsOwn, QuietIsAlone,
     QuietKnowsAll
<1> QED
  BY <1>2, <1>3 DEF LocalInv

\* The handler of a task goes to another place, and the others stay where they are.
LEMMA LocalMoves ==
  ASSUME LocalTypeOK, NEW t \in LocalTaskIDs,
         NEW p \in {"new", "volumes", "create_network", "create", "start", "wait", "list",
                    "kill", "remove", "network"},
         \/ GoTo(t, p)
         \/ Reply(t, "success") \/ Reply(t, "failure") \/ Reply(t, "error")
  PROVE  /\ local' \in [LocalTaskIDs -> {"new", "volumes", "create_network", "create", "start",
                                         "wait", "list", "kill", "remove", "network", "done"}]
         /\ localReply' \in [LocalTaskIDs -> {"none", "success", "failure", "error"}]
         /\ local'[t] \in {p, "done"}
         /\ GoTo(t, p) => local'[t] = p
         /\ ~GoTo(t, p) => local'[t] = "done"
         /\ \A u \in LocalTaskIDs \ {t} : local'[u] = local[u]
BY DEF LocalTypeOK, GoTo, Reply

\* What a call that fails, and one that does not, leaves of the history.
LEMMA QuietShrinks ==
  ASSUME LocalTypeOK, NEW t \in LocalTaskIDs, CallFails(t) \/ NoFault
  PROVE  /\ quiet' \subseteq quiet /\ dockerFaults' \in 0..MaxDockerFaults
         /\ CallFails(t) => \A c \in quiet' : ~SameStage(c, t)
<1>1. dockerFaults' \in 0..MaxDockerFaults
  BY LocalKinds, SMT DEF LocalTypeOK, CallFails, NoFault
<1> QED
  BY <1>1 DEF CallFails, NoFault

\* Quiet cleanups stay alone as long as no task of their stage begins.
LEMMA StaysAlone ==
  ASSUME LocalInv, NEW t \in LocalTaskIDs, quiet' \subseteq quiet, local[t] \notin {"new", "done"},
         local'[t] # "new", \A u \in LocalTaskIDs \ {t} : local'[u] = local[u],
         hostPath' \subseteq hostPath \/ (local[t] = "volumes" /\ hostPath' = hostPath \cup {StageOf[t]})
  PROVE  QuietIsAlone'
<1> SUFFICES ASSUME NEW c \in quiet'
             PROVE  /\ local'[c] # "new"
                    /\ local'[c] \notin {"new", "done"} =>
                         /\ \A u \in LocalTaskIDs \ {c} :
                              SameStage(c, u) => local'[u] \in {"new", "done"}
                         /\ StageOf[c] \notin hostPath'
  BY DEF QuietIsAlone, Busy, SameStage
<1>1. /\ c \in quiet /\ c \in LocalTaskIDs /\ c \in Cleanups
      /\ local[c] # "new"
      /\ Busy(c) => /\ \A u \in LocalTaskIDs \ {c} : SameStage(c, u) => ~Busy(u)
                    /\ StageOf[c] \notin hostPath
  BY LocalKinds DEF LocalInv, LocalTypeOK, QuietIsAlone
<1>2. local'[c] \notin {"new", "done"} => Busy(c)
  BY <1>1 DEF Busy
<1>3. Busy(c) => StageOf[c] \notin hostPath'
  <2> SUFFICES ASSUME Busy(c), local[t] = "volumes" PROVE StageOf[c] # StageOf[t]
    BY <1>1
  <2>1. t \in Inits /\ t # c
    BY <1>1, LocalKinds DEF LocalInv, PlacesOfKinds
  <2> QED
    BY <1>1, <2>1 DEF Busy, SameStage
<1> QED
  BY <1>1, <1>2, <1>3 DEF Busy

\* ... and one that begins while others of its stage are in progress ends their quiet.
LEMMA BeginsAlone ==
  ASSUME LocalInv, NEW t \in LocalTaskIDs, Begins(t), local[t] = "new",
         local'[t] \notin {"new", "done"}, \A u \in LocalTaskIDs \ {t} : local'[u] = local[u],
         hostPath' \subseteq hostPath, t \in Cleanups => StageOf[t] \notin hostPath'
  PROVE  /\ QuietIsAlone' /\ quiet' \subseteq Cleanups /\ quiet' \subseteq quiet \cup {t}
         /\ t \in quiet' => t \in Cleanups
<1> DEFINE others == {u \in LocalTaskIDs \ {t} : Busy(u) /\ SameStage(t, u)}
<1>1. quiet' = (quiet \ others) \cup (IF t \in Cleanups /\ others = {} THEN {t} ELSE {})
  BY DEF Begins
<1>2. quiet \subseteq Cleanups /\ t \notin quiet
  BY DEF LocalInv, LocalTypeOK, QuietIsAlone
<1>3. ASSUME NEW c \in quiet'
      PROVE  /\ local'[c] # "new"
             /\ local'[c] \notin {"new", "done"} =>
                  /\ \A u \in LocalTaskIDs \ {c} :
                       SameStage(c, u) => local'[u] \in {"new", "done"}
                  /\ StageOf[c] \notin hostPath'
  <2>1. CASE c = t
    <3>1. others = {} /\ t \in Cleanups
      BY <1>1, <1>2, <1>3, <2>1
    <3>2. \A u \in LocalTaskIDs \ {t} : SameStage(t, u) => ~Busy(u)
      BY <3>1
    <3> QED
      BY <2>1, <3>1, <3>2 DEF Busy
  <2>2. CASE c # t
    <3>1. c \in quiet /\ c \notin others /\ c \in LocalTaskIDs
      BY <1>1, <1>2, <1>3, <2>2, LocalKinds
    <3>2. /\ local[c] # "new"
          /\ Busy(c) => /\ \A u \in LocalTaskIDs \ {c} : SameStage(c, u) => ~Busy(u)
                        /\ StageOf[c] \notin hostPath
      BY <3>1 DEF LocalInv, QuietIsAlone
    <3>3. Busy(c) => ~SameStage(t, c)
      BY <2>2, <3>1
    <3> QED
      BY <2>2, <3>1, <3>2, <3>3 DEF Busy, SameStage
  <2> QED
    BY <2>1, <2>2
<1>4. QuietIsAlone'
  BY <1>3 DEF QuietIsAlone, Busy, SameStage
<1> QED
  BY <1>1, <1>2, <1>4

\* The stage of a task in progress is not that of another task's quiet cleanup.
LEMMA BusyElsewhere ==
  ASSUME LocalInv, NEW t \in LocalTaskIDs, Busy(t), NEW c \in quiet, c # t, Busy(c)
  PROVE  StageOf[t] # StageOf[c]
BY DEF LocalInv, QuietIsAlone, SameStage

\* What no task has touched is known as before.
LEMMA KnowsStill ==
  ASSUME LocalInv, NEW t \in LocalTaskIDs, \A u \in LocalTaskIDs \ {t} : local'[u] = local[u],
         quiet' \subseteq quiet \cup {t}, quiet' \subseteq Cleanups,
         \A c \in Cleanups \ {t} : found'[c] = found[c] /\ left'[c] = left[c],
         \A c \in quiet' \ {t}, e \in Executes :
           Busy(c) /\ SameStage(c, e) => (Held(e)' <=> Held(e)),
         t \in quiet' \cap Labelled =>
           \A e \in Executes \cap Labelled : SameStage(t, e) =>
             /\ local'[t] = "kill" => (e \in found'[t] <=> Held(e)')
             /\ local'[t] = "remove" => (e \in left'[t] <=> Held(e)')
             /\ local'[t] = "network" => ~Held(e)'
  PROVE  QuietKnowsAll'
<1> SUFFICES ASSUME NEW c \in quiet' \cap Labelled, NEW e \in Executes \cap Labelled,
                    SameStage(c, e)
             PROVE  /\ local'[c] = "kill" => (e \in found'[c] <=> Held(e)')
                    /\ local'[c] = "remove" => (e \in left'[c] <=> Held(e)')
                    /\ local'[c] = "network" => ~Held(e)'
  BY DEF QuietKnowsAll, SameStage
<1>1. CASE c = t
  BY <1>1
<1>2. CASE c # t
  <2>1. c \in quiet /\ c \in Cleanups /\ c \in LocalTaskIDs
    BY <1>2, LocalKinds
  <2>2. local'[c] = local[c] /\ found'[c] = found[c] /\ left'[c] = left[c]
    BY <1>2, <2>1
  <2>3. Busy(c) => (Held(e)' <=> Held(e))
    BY <1>2, <2>1
  <2>4. /\ local[c] = "kill" => (e \in found[c] <=> Held(e))
        /\ local[c] = "remove" => (e \in left[c] <=> Held(e))
        /\ local[c] = "network" => ~Held(e)
    BY <2>1 DEF LocalInv, QuietKnowsAll
  <2> QED
    BY <2>2, <2>3, <2>4 DEF Busy
<1> QED
  BY <1>1, <1>2

\* local_init and local_execute up to the container.
LEMMA BeginningsKeepLocalInv ==
  ASSUME LocalInv, NEW t \in LocalTaskIDs, SetUp(t) \/ Execute(t)
  PROVE  LocalInv'
<1>1. /\ LocalTypeOK /\ PlacesOfKinds /\ RunsWhileWaited /\ FindsItsOwn
      /\ local[t] = "new" /\ Begins(t) /\ t \notin Cleanups
      /\ UNCHANGED <<network, hostPath, container, found, left, dockerFaults>>
      /\ \/ t \in Inits /\ GoTo(t, "volumes")
         \/ t \in Executes /\ GoTo(t, "create")
  BY LocalKinds DEF LocalInv, SetUp, Execute, docker
<1>2. /\ local' \in [LocalTaskIDs -> {"new", "volumes", "create_network", "create", "start",
                                      "wait", "list", "kill", "remove", "network", "done"}]
      /\ localReply' \in [LocalTaskIDs -> {"none", "success", "failure", "error"}]
      /\ \/ t \in Inits /\ local'[t] = "volumes"
         \/ t \in Executes /\ local'[t] = "create"
      /\ \A u \in LocalTaskIDs \ {t} : local'[u] = local[u]
  BY <1>1, LocalMoves
<1>3. QuietIsAlone' /\ quiet' \subseteq Cleanups /\ quiet' \subseteq quiet \cup {t}
  BY <1>1, <1>2, BeginsAlone
<1>4. LocalTypeOK'
  BY <1>1, <1>2, <1>3 DEF LocalTypeOK
<1>5. PlacesOfKinds'
  BY <1>1, <1>2, LocalKinds DEF PlacesOfKinds
<1>6. RunsWhileWaited'
  BY <1>1, <1>2, LocalKinds DEF RunsWhileWaited, Runs
<1>7. FindsItsOwn'
  BY <1>1, <1>2, LocalKinds DEF FindsItsOwn, SameStage
<1>8. QuietKnowsAll'
  BY <1>1, <1>2, <1>3, KnowsStill DEF Held
<1> QED
  BY <1>3, <1>4, <1>5, <1>6, <1>7, <1>8 DEF LocalInv

LEMMA SetupKeepsLocalInv ==
  ASSUME LocalInv, NEW t \in LocalTaskIDs, CreateVolumes(t) \/ CreateNetwork(t)
  PROVE  LocalInv'
<1>1. /\ LocalTypeOK /\ PlacesOfKinds /\ RunsWhileWaited /\ FindsItsOwn
      /\ local[t] \in {"volumes", "create_network"} /\ t \in Inits /\ t \notin Cleanups
      /\ UNCHANGED <<container, found, left>>
      /\ CallFails(t) \/ NoFault
      /\ GoTo(t, "create_network") \/ Reply(t, "success") \/ Reply(t, "failure")
  BY LocalKinds DEF LocalInv, PlacesOfKinds, CreateVolumes, CreateNetwork
<1>2. /\ local' \in [LocalTaskIDs -> {"new", "volumes", "create_network", "create", "start",
                                      "wait", "list", "kill", "remove", "network", "done"}]
      /\ localReply' \in [LocalTaskIDs -> {"none", "success", "failure", "error"}]
      /\ local'[t] \in {"create_network", "done"}
      /\ \A u \in LocalTaskIDs \ {t} : local'[u] = local[u]
  BY <1>1, LocalMoves
<1>3. quiet' \subseteq quiet /\ dockerFaults' \in 0..MaxDockerFaults
  BY <1>1, QuietShrinks
<1>4. /\ hostPath' \subseteq hostPath \/ (local[t] = "volumes" /\ hostPath' = hostPath \cup {StageOf[t]})
      /\ network' \subseteq network \cup {StageOf[t]}
  BY DEF CreateVolumes, CreateNetwork
<1>5. LocalTypeOK'
  BY <1>1, <1>2, <1>3, <1>4, LocalKinds DEF LocalTypeOK
<1>6. PlacesOfKinds'
  BY <1>1, <1>2, LocalKinds DEF PlacesOfKinds
<1>7. RunsWhileWaited'
  BY <1>1, <1>2, LocalKinds DEF RunsWhileWaited, Runs
<1>8. FindsItsOwn'
  BY <1>1, <1>2, LocalKinds DEF FindsItsOwn, SameStage
<1>9. QuietIsAlone'
  BY <1>1, <1>2, <1>3, <1>4, StaysAlone
<1>10. quiet' \subseteq Cleanups
  BY <1>3, <1>5 DEF LocalTypeOK
<1>11. QuietKnowsAll'
  BY <1>1, <1>2, <1>3, <1>10, KnowsStill DEF Held
<1> QED
  BY <1>5, <1>6, <1>7, <1>8, <1>9, <1>11 DEF LocalInv

LEMMA ContainersKeepLocalInv ==
  ASSUME LocalInv, NEW t \in LocalTaskIDs, CreateContainer(t) \/ StartContainer(t) \/ Executed(t)
  PROVE  LocalInv'
<1>1. /\ LocalTypeOK /\ PlacesOfKinds /\ RunsWhileWaited /\ FindsItsOwn
      /\ local[t] \in {"create", "start", "wait"} /\ t \in Executes /\ t \notin Cleanups
      /\ UNCHANGED <<network, hostPath, found, left>>
      /\ CallFails(t) \/ NoFault
      /\ GoTo(t, "wait") \/ GoTo(t, "start") \/ Reply(t, "success") \/ Reply(t, "error")
  BY LocalKinds DEF LocalInv, PlacesOfKinds, CreateContainer, StartContainer, Executed, docker
<1>2. /\ local' \in [LocalTaskIDs -> {"new", "volumes", "create_network", "create", "start",
                                      "wait", "list", "kill", "remove", "network", "done"}]
      /\ localReply' \in [LocalTaskIDs -> {"none", "success", "failure", "error"}]
      /\ local'[t] \in {"start", "wait", "done"}
      /\ \A u \in LocalTaskIDs \ {t} : local'[u] = local[u]
  BY <1>1, LocalMoves
<1>3. quiet' \subseteq quiet /\ dockerFaults' \in 0..MaxDockerFaults
  BY <1>1, QuietShrinks
<1>4. \/ /\ container' = [container EXCEPT ![t] = "process"] /\ local'[t] = "wait"
      \/ /\ container' = [container EXCEPT ![t] = "created"]
      \/ /\ container' = [container EXCEPT ![t] = "running"] /\ local'[t] = "wait"
      \/ container' = container /\ (local[t] # "wait" \/ ~Runs(t))
  BY <1>1, LocalMoves DEF CreateContainer, StartContainer, Executed, docker
<1>5. /\ container' \in [Executes -> {"none", "created", "running", "exited", "process"}]
      /\ \A e \in Executes \ {t} : container'[e] = container[e]
  BY <1>1, <1>4 DEF LocalTypeOK
<1>6. LocalTypeOK'
  BY <1>1, <1>2, <1>3, <1>5 DEF LocalTypeOK
<1>7. PlacesOfKinds'
  BY <1>1, <1>2, LocalKinds DEF PlacesOfKinds
<1>8. RunsWhileWaited'
  <2>1. Runs(t)' => local'[t] = "wait"
    BY <1>1, <1>4 DEF RunsWhileWaited, Runs, LocalTypeOK
  <2> QED
    BY <1>1, <1>2, <1>5, <2>1, LocalKinds DEF RunsWhileWaited, Runs
<1>9. FindsItsOwn'
  BY <1>1, <1>2, LocalKinds DEF FindsItsOwn, SameStage
<1>10. QuietIsAlone'
  BY <1>1, <1>2, <1>3, StaysAlone
<1>11. quiet' \subseteq Cleanups
  BY <1>3, <1>6 DEF LocalTypeOK
<1>12. ASSUME NEW c \in quiet' \ {t}, NEW e \in Executes, Busy(c), SameStage(c, e)
       PROVE  Held(e)' <=> Held(e)
  <2>1. e # t
    BY <1>1, <1>3, <1>12, BusyElsewhere DEF Busy, SameStage
  <2> QED
    BY <1>5, <2>1 DEF Held
<1>13. QuietKnowsAll'
  BY <1>1, <1>2, <1>3, <1>11, <1>12, KnowsStill
<1> QED
  BY <1>6, <1>7, <1>8, <1>9, <1>10, <1>13 DEF LocalInv

LEMMA StepEndKeepsLocalInv ==
  ASSUME LocalInv, NEW t \in Executes, StepEnds(t)
  PROVE  LocalInv'
<1>1. /\ LocalTypeOK /\ PlacesOfKinds /\ RunsWhileWaited /\ FindsItsOwn /\ QuietIsAlone
      /\ QuietKnowsAll
      /\ UNCHANGED <<local, localReply, network, hostPath, found, left, dockerFaults, quiet>>
  BY DEF LocalInv, StepEnds
<1>2. PICK x \in {"none", "exited"} : /\ container' = [container EXCEPT ![t] = x]
                                      /\ x = "none" <=> container[t] = "process"
  BY DEF StepEnds
<1>3. container[t] \in {"running", "process"}
  BY DEF StepEnds, Runs
<1>4. /\ container' \in [Executes -> {"none", "created", "running", "exited", "process"}]
      /\ container'[t] = x /\ \A e \in Executes \ {t} : container'[e] = container[e]
  BY <1>1, <1>2 DEF LocalTypeOK
<1>5. LocalTypeOK'
  BY <1>1, <1>4 DEF LocalTypeOK
<1>6. PlacesOfKinds' /\ FindsItsOwn' /\ QuietIsAlone'
  BY <1>1 DEF PlacesOfKinds, FindsItsOwn, QuietIsAlone, Busy, SameStage
<1>7. RunsWhileWaited'
  BY <1>1, <1>4 DEF RunsWhileWaited, Runs
<1>8. \A e \in Executes : Held(e)' <=> Held(e)
  BY <1>2, <1>3, <1>4 DEF Held
<1>9. QuietKnowsAll'
  BY <1>1, <1>8 DEF QuietKnowsAll, SameStage
<1> QED
  BY <1>5, <1>6, <1>7, <1>9 DEF LocalInv

\* What a step of a cleanup has to keep by itself.
LEMMA CleanupMoves ==
  ASSUME LocalInv, NEW t \in Cleanups, local[t] \in {"list", "kill", "remove", "network"},
         NEW p \in {"kill", "remove", "network"},
         \/ GoTo(t, p) /\ (p # "network" => t \in Labelled)
         \/ Reply(t, "success") \/ Reply(t, "failure")
         \/ local[t] = p /\ UNCHANGED <<local, localReply>>,
         CallFails(t) \/ NoFault, hostPath' = hostPath, network' \subseteq network,
         container' \in [Executes -> {"none", "created", "running", "exited", "process"}],
         \A e \in Executes : Runs(e)' => Runs(e),
         found' \in [Cleanups -> SUBSET Executes], left' \in [Cleanups -> SUBSET Executes],
         \A c \in Cleanups \ {t} : found'[c] = found[c] /\ left'[c] = left[c],
         local'[t] \in {"kill", "remove"} =>
           /\ left'[t] \subseteq found'[t]
           /\ \A e \in found'[t] : e \in Labelled /\ SameStage(t, e)
  PROVE  LocalTypeOK' /\ PlacesOfKinds' /\ RunsWhileWaited' /\ FindsItsOwn' /\ QuietIsAlone'
<1>1. /\ LocalTypeOK /\ PlacesOfKinds /\ RunsWhileWaited /\ FindsItsOwn
      /\ t \in LocalTaskIDs /\ t \notin Inits \cup Executes
  BY LocalKinds DEF LocalInv
<1>2. /\ local' \in [LocalTaskIDs -> {"new", "volumes", "create_network", "create", "start",
                                      "wait", "list", "kill", "remove", "network", "done"}]
      /\ localReply' \in [LocalTaskIDs -> {"none", "success", "failure", "error"}]
      /\ local'[t] \in {p, "done"} /\ (local'[t] = p /\ p # "network" => t \in Labelled)
      /\ \A u \in LocalTaskIDs \ {t} : local'[u] = local[u]
  <2>1. CASE local[t] = p /\ UNCHANGED <<local, localReply>>
    BY <1>1, <2>1 DEF LocalTypeOK, PlacesOfKinds
  <2>2. CASE ~(local[t] = p /\ UNCHANGED <<local, localReply>>)
    BY <1>1, <2>2, LocalMoves
  <2> QED
    BY <2>1, <2>2
<1>3. quiet' \subseteq quiet /\ dockerFaults' \in 0..MaxDockerFaults
  BY <1>1, QuietShrinks
<1>4. LocalTypeOK'
  BY <1>1, <1>2, <1>3 DEF LocalTypeOK
<1>5. PlacesOfKinds'
  BY <1>1, <1>2 DEF PlacesOfKinds
<1>6. RunsWhileWaited'
  BY <1>1, <1>2, LocalKinds DEF RunsWhileWaited
<1>7. FindsItsOwn'
  BY <1>1, <1>2, LocalKinds DEF FindsItsOwn, SameStage
<1>8. QuietIsAlone'
  BY <1>1, <1>2, <1>3, StaysAlone
<1> QED
  BY <1>4, <1>5, <1>6, <1>7, <1>8

LEMMA RemovePathsKeepsLocalInv ==
  ASSUME LocalInv, NEW t \in LocalTaskIDs, RemovePaths(t)
  PROVE  LocalInv'
<1>1. /\ LocalTypeOK /\ PlacesOfKinds /\ RunsWhileWaited /\ FindsItsOwn /\ QuietIsAlone
      /\ local[t] = "new" /\ t \in Cleanups /\ t \notin Inits \cup Executes
      /\ UNCHANGED <<network, container, found, left>>
  BY LocalKinds DEF LocalInv, RemovePaths
<1>2. /\ local' \in [LocalTaskIDs -> {"new", "volumes", "create_network", "create", "start",
                                      "wait", "list", "kill", "remove", "network", "done"}]
      /\ localReply' \in [LocalTaskIDs -> {"none", "success", "failure", "error"}]
      /\ local'[t] \in {"list", "network"} /\ (local'[t] = "list" <=> t \in Labelled)
      /\ \A u \in LocalTaskIDs \ {t} : local'[u] = local[u]
  <2>1. CASE t \in Labelled
    <3>1. GoTo(t, "list")
      BY <2>1 DEF RemovePaths, Lists
    <3> QED
      BY <1>1, <2>1, <3>1, LocalMoves
  <2>2. CASE t \notin Labelled
    <3>1. GoTo(t, "network")
      BY <2>2 DEF RemovePaths, Lists
    <3> QED
      BY <1>1, <2>2, <3>1, LocalMoves
  <2> QED
    BY <2>1, <2>2
<1>3. /\ QuietIsAlone' /\ quiet' \subseteq Cleanups /\ quiet' \subseteq quiet \cup {t}
      /\ hostPath' \subseteq hostPath /\ dockerFaults' \in 0..MaxDockerFaults
  <2>1. CASE /\ hostPath' = hostPath \ {StageOf[t]} /\ Begins(t) /\ UNCHANGED dockerFaults
    BY <1>1, <1>2, <2>1, BeginsAlone DEF LocalTypeOK
  <2>2. CASE CallFails(t) /\ UNCHANGED hostPath
    <3>1. /\ quiet' \subseteq quiet /\ dockerFaults' \in 0..MaxDockerFaults
          /\ \A c \in quiet' : ~SameStage(c, t)
      BY <1>1, <2>2, QuietShrinks
    <3>2. ASSUME NEW c \in quiet'
          PROVE  /\ local'[c] # "new"
                 /\ local'[c] \notin {"new", "done"} =>
                      /\ \A u \in LocalTaskIDs \ {c} :
                           SameStage(c, u) => local'[u] \in {"new", "done"}
                      /\ StageOf[c] \notin hostPath'
      <4>1. c \in quiet /\ c \in LocalTaskIDs /\ c # t /\ ~SameStage(c, t)
        BY <1>1, <3>1, LocalKinds DEF LocalTypeOK, SameStage
      <4>2. /\ local[c] # "new"
            /\ Busy(c) => /\ \A u \in LocalTaskIDs \ {c} : SameStage(c, u) => ~Busy(u)
                          /\ StageOf[c] \notin hostPath
        BY <1>1, <4>1 DEF QuietIsAlone
      <4> QED
        BY <1>2, <2>2, <4>1, <4>2 DEF Busy, SameStage
    <3>3. QuietIsAlone'
      BY <3>2 DEF QuietIsAlone, Busy, SameStage
    <3> QED
      BY <1>1, <2>2, <3>1, <3>3 DEF LocalTypeOK
  <2> QED
    BY <2>1, <2>2 DEF RemovePaths
<1>4. LocalTypeOK'
  BY <1>1, <1>2, <1>3 DEF LocalTypeOK
<1>5. PlacesOfKinds'
  BY <1>1, <1>2 DEF PlacesOfKinds
<1>6. RunsWhileWaited'
  BY <1>1, <1>2, LocalKinds DEF RunsWhileWaited, Runs
<1>7. FindsItsOwn'
  BY <1>1, <1>2, LocalKinds DEF FindsItsOwn, SameStage
<1>8. QuietKnowsAll'
  BY <1>1, <1>2, <1>3, KnowsStill DEF Held
<1> QED
  BY <1>3, <1>4, <1>5, <1>6, <1>7, <1>8 DEF LocalInv

LEMMA ListKeepsLocalInv ==
  ASSUME LocalInv, NEW t \in LocalTaskIDs, ListContainers(t)
  PROVE  LocalInv'
<1>1. /\ LocalTypeOK /\ local[t] = "list" /\ t \in Cleanups \cap Labelled
      /\ UNCHANGED <<network, hostPath, container>> /\ (CallFails(t) \/ NoFault)
      /\ \/ /\ found' = [found EXCEPT ![t] = Matching(t)]
            /\ left' = [left EXCEPT ![t] = Matching(t)]
            /\ GoTo(t, "kill")
         \/ Reply(t, "failure") /\ UNCHANGED <<found, left>>
  BY DEF LocalInv, PlacesOfKinds, ListContainers, docker
<1>2. /\ Matching(t) \subseteq Executes
      /\ \A e \in Executes : e \in Matching(t) <=> Held(e) /\ e \in Labelled /\ SameStage(t, e)
  BY <1>1 DEF Matching, Held, SameStage
<1>3. /\ found' \in [Cleanups -> SUBSET Executes] /\ left' \in [Cleanups -> SUBSET Executes]
      /\ \A c \in Cleanups \ {t} : found'[c] = found[c] /\ left'[c] = left[c]
  BY <1>1, <1>2 DEF LocalTypeOK
<1>4. /\ local'[t] \in {"kill", "done"}
      /\ local'[t] = "kill" => found'[t] = Matching(t) /\ left'[t] = Matching(t)
      /\ \A u \in LocalTaskIDs \ {t} : local'[u] = local[u]
  <2>1. CASE GoTo(t, "kill") /\ found' = [found EXCEPT ![t] = Matching(t)]
                            /\ left' = [left EXCEPT ![t] = Matching(t)]
    BY <1>1, <2>1, LocalMoves DEF LocalTypeOK
  <2>2. CASE Reply(t, "failure")
    BY <1>1, <2>2 DEF LocalTypeOK, Reply
  <2> QED
    BY <1>1, <2>1, <2>2
<1>5. \A e \in Executes : Runs(e)' => Runs(e)
  BY <1>1 DEF Runs
<1>6. container' \in [Executes -> {"none", "created", "running", "exited", "process"}]
  BY <1>1 DEF LocalTypeOK
<1>7. LocalTypeOK' /\ PlacesOfKinds' /\ RunsWhileWaited' /\ FindsItsOwn' /\ QuietIsAlone'
  BY <1>1, <1>2, <1>3, <1>4, <1>5, <1>6, CleanupMoves
<1>8. quiet' \subseteq quiet
  BY <1>1, QuietShrinks
<1>9. quiet' \subseteq Cleanups
  BY <1>7 DEF LocalTypeOK
<1>10. \A e \in Executes : Held(e)' <=> Held(e)
  BY <1>1 DEF Held
<1>11. QuietKnowsAll'
  BY <1>1, <1>2, <1>3, <1>4, <1>8, <1>9, <1>10, KnowsStill
<1> QED
  BY <1>7, <1>11 DEF LocalInv

LEMMA KillKeepsLocalInv ==
  ASSUME LocalInv, NEW t \in LocalTaskIDs, NEW e \in Executes, KillContainer(t, e)
  PROVE  LocalInv'
<1>1. /\ LocalTypeOK /\ local[t] = "kill" /\ t \in Cleanups \cap Labelled
      /\ UNCHANGED <<local, localReply, network, hostPath, found>>
      /\ CallFails(t) \/ NoFault
      /\ left' = [left EXCEPT ![t] = @ \ {e}]
      /\ left[t] \subseteq found[t] /\ \A x \in found[t] : x \in Labelled /\ SameStage(t, x)
  BY DEF LocalInv, PlacesOfKinds, FindsItsOwn, KillContainer
<1>2. \/ container' = [container EXCEPT ![e] = "exited"] /\ container[e] = "running"
      \/ container' = container
  <2>1. CASE container' = [container EXCEPT ![e] = IF @ = "running" THEN "exited" ELSE @]
    BY <1>1, <2>1 DEF LocalTypeOK
  <2> QED
    BY <2>1 DEF KillContainer
<1>3. /\ container' \in [Executes -> {"none", "created", "running", "exited", "process"}]
      /\ \A x \in Executes : (Runs(x)' => Runs(x)) /\ (Held(x)' <=> Held(x))
  BY <1>1, <1>2 DEF LocalTypeOK, Runs, Held
<1>4. /\ left' \in [Cleanups -> SUBSET Executes] /\ left'[t] \subseteq left[t]
      /\ \A c \in Cleanups \ {t} : left'[c] = left[c]
  BY <1>1 DEF LocalTypeOK
<1>5. found' \in [Cleanups -> SUBSET Executes] /\ \A c \in Cleanups \ {t} : found'[c] = found[c]
  BY <1>1 DEF LocalTypeOK
<1>6. left'[t] \subseteq found'[t] /\ \A x \in found'[t] : x \in Labelled /\ SameStage(t, x)
  BY <1>1, <1>4
<1>7. LocalTypeOK' /\ PlacesOfKinds' /\ RunsWhileWaited' /\ FindsItsOwn' /\ QuietIsAlone'
  BY <1>1, <1>3, <1>4, <1>5, <1>6, CleanupMoves
<1>8. quiet' \subseteq quiet /\ quiet' \subseteq Cleanups
  BY <1>1, <1>7, QuietShrinks DEF LocalTypeOK
<1>9. t \in quiet' => \A x \in Executes \cap Labelled : SameStage(t, x) =>
                        (x \in found'[t] <=> Held(x)')
  BY <1>1, <1>3, <1>8 DEF LocalInv, QuietKnowsAll
<1>10. QuietKnowsAll'
  BY <1>1, <1>3, <1>4, <1>5, <1>8, <1>9, KnowsStill
<1> QED
  BY <1>7, <1>10 DEF LocalInv

\* From one loop to the next, and to the network.
LEMMA LoopsKeepLocalInv ==
  ASSUME LocalInv, NEW t \in LocalTaskIDs, Killed(t) \/ Removed(t)
  PROVE  LocalInv'
<1>1. /\ LocalTypeOK /\ t \in Cleanups \cap Labelled /\ left[t] = {}
      /\ UNCHANGED <<network, hostPath, container, found>> /\ NoFault
      /\ \A x \in found[t] : x \in Labelled /\ SameStage(t, x)
      /\ \/ local[t] = "kill" /\ GoTo(t, "remove") /\ left' = [left EXCEPT ![t] = found[t]]
         \/ local[t] = "remove" /\ GoTo(t, "network") /\ left' = left
  BY DEF LocalInv, PlacesOfKinds, FindsItsOwn, Killed, Removed, docker
<1>2. /\ \/ local[t] = "kill" /\ local'[t] = "remove" /\ left'[t] = found[t]
         \/ local[t] = "remove" /\ local'[t] = "network" /\ left'[t] = left[t]
      /\ \A u \in LocalTaskIDs \ {t} : local'[u] = local[u]
      /\ left' \in [Cleanups -> SUBSET Executes]
      /\ \A c \in Cleanups \ {t} : left'[c] = left[c]
  BY <1>1 DEF LocalTypeOK, GoTo
<1>3. /\ container' \in [Executes -> {"none", "created", "running", "exited", "process"}]
      /\ \A x \in Executes : (Runs(x)' => Runs(x)) /\ (Held(x)' <=> Held(x))
      /\ found' \in [Cleanups -> SUBSET Executes]
  BY <1>1 DEF LocalTypeOK, Runs, Held
<1>4. LocalTypeOK' /\ PlacesOfKinds' /\ RunsWhileWaited' /\ FindsItsOwn' /\ QuietIsAlone'
  BY <1>1, <1>2, <1>3, CleanupMoves
<1>5. quiet' \subseteq quiet /\ quiet' \subseteq Cleanups
  BY <1>1, <1>4 DEF LocalTypeOK, NoFault
<1>6. t \in quiet' =>
        \A x \in Executes \cap Labelled : SameStage(t, x) =>
          /\ local'[t] = "remove" => (x \in left'[t] <=> Held(x)')
          /\ local'[t] = "network" => ~Held(x)'
  BY <1>1, <1>2, <1>3, <1>5 DEF LocalInv, QuietKnowsAll
<1>7. QuietKnowsAll'
  BY <1>1, <1>2, <1>3, <1>5, <1>6, KnowsStill
<1> QED
  BY <1>4, <1>7 DEF LocalInv

LEMMA RemoveKeepsLocalInv ==
  ASSUME LocalInv, NEW t \in LocalTaskIDs, NEW e \in Executes, RemoveContainer(t, e)
  PROVE  LocalInv'
<1>1. /\ LocalTypeOK /\ local[t] = "remove" /\ t \in Cleanups \cap Labelled
      /\ UNCHANGED <<network, hostPath, found>>
      /\ CallFails(t) \/ NoFault
      /\ left[t] \subseteq found[t] /\ \A x \in found[t] : x \in Labelled /\ SameStage(t, x)
      /\ e \in left[t]
      /\ \/ /\ container' = [container EXCEPT ![e] = "none"]
            /\ left' = [left EXCEPT ![t] = @ \ {e}]
            /\ UNCHANGED <<local, localReply>>
         \/ Reply(t, "failure") /\ UNCHANGED <<container, left>>
  BY DEF LocalInv, PlacesOfKinds, FindsItsOwn, RemoveContainer
<1>2. /\ container' \in [Executes -> {"none", "created", "running", "exited", "process"}]
      /\ container' = container \/ container'[e] = "none"
      /\ \A x \in Executes \ {e} : container'[x] = container[x]
  BY <1>1 DEF LocalTypeOK
<1>3. /\ left' \in [Cleanups -> SUBSET Executes] /\ left'[t] \subseteq left[t]
      /\ \A c \in Cleanups \ {t} : left'[c] = left[c]
      /\ found' \in [Cleanups -> SUBSET Executes] /\ \A c \in Cleanups \ {t} : found'[c] = found[c]
  BY <1>1 DEF LocalTypeOK
<1>4. \A x \in Executes : Runs(x)' => Runs(x)
  BY <1>2 DEF Runs
<1>5. left'[t] \subseteq found'[t] /\ \A x \in found'[t] : x \in Labelled /\ SameStage(t, x)
  BY <1>1, <1>3
<1>6. LocalTypeOK' /\ PlacesOfKinds' /\ RunsWhileWaited' /\ FindsItsOwn' /\ QuietIsAlone'
  BY <1>1, <1>2, <1>3, <1>4, <1>5, CleanupMoves
<1>7. quiet' \subseteq quiet /\ quiet' \subseteq Cleanups
  BY <1>1, <1>6, QuietShrinks DEF LocalTypeOK
<1>8. /\ \A u \in LocalTaskIDs \ {t} : local'[u] = local[u]
      /\ local'[t] = "remove" => /\ container'[e] = "none"
                                 /\ left'[t] = left[t] \ {e}
      /\ local'[t] \in {"remove", "done"}
  <2>1. CASE /\ container' = [container EXCEPT ![e] = "none"]
             /\ left' = [left EXCEPT ![t] = @ \ {e}]
             /\ UNCHANGED <<local, localReply>>
    BY <1>1, <2>1 DEF LocalTypeOK
  <2>2. CASE Reply(t, "failure") /\ UNCHANGED <<container, left>>
    BY <1>1, <2>2 DEF LocalTypeOK, Reply
  <2> QED
    BY <1>1, <2>1, <2>2
<1>9. ASSUME NEW c \in quiet' \ {t}, NEW x \in Executes, Busy(c), SameStage(c, x)
      PROVE  Held(x)' <=> Held(x)
  <2>1. x # e
    BY <1>1, <1>7, <1>9, BusyElsewhere DEF Busy, SameStage
  <2> QED
    BY <1>2, <2>1 DEF Held
<1>10. t \in quiet' =>
         \A x \in Executes \cap Labelled : SameStage(t, x) =>
           (local'[t] = "remove" => (x \in left'[t] <=> Held(x)'))
  <2> SUFFICES ASSUME t \in quiet', local'[t] = "remove", NEW x \in Executes \cap Labelled,
                      SameStage(t, x)
               PROVE  x \in left'[t] <=> Held(x)'
    OBVIOUS
  <2>1. x \in left[t] <=> Held(x)
    BY <1>1, <1>7 DEF LocalInv, QuietKnowsAll
  <2>2. CASE x = e
    BY <1>8, <2>2 DEF Held
  <2>3. CASE x # e
    BY <1>2, <1>8, <2>1, <2>3 DEF Held
  <2> QED
    BY <2>2, <2>3
<1>11. QuietKnowsAll'
  BY <1>1, <1>3, <1>7, <1>8, <1>9, <1>10, KnowsStill
<1> QED
  BY <1>6, <1>11 DEF LocalInv

LEMMA NetworkKeepsLocalInv ==
  ASSUME LocalInv, NEW t \in LocalTaskIDs, RemoveNetwork(t)
  PROVE  LocalInv'
<1>1. /\ LocalTypeOK /\ local[t] = "network" /\ t \in Cleanups
      /\ UNCHANGED <<hostPath, container, found, left>> /\ network' \subseteq network
      /\ CallFails(t) \/ NoFault
      /\ Reply(t, "success") \/ Reply(t, "failure")
  BY DEF LocalInv, PlacesOfKinds, RemoveNetwork
<1>2. local'[t] = "done" /\ \A u \in LocalTaskIDs \ {t} : local'[u] = local[u]
  BY <1>1 DEF LocalTypeOK, Reply
<1>3. /\ container' \in [Executes -> {"none", "created", "running", "exited", "process"}]
      /\ \A x \in Executes : (Runs(x)' => Runs(x)) /\ (Held(x)' <=> Held(x))
      /\ found' \in [Cleanups -> SUBSET Executes] /\ left' \in [Cleanups -> SUBSET Executes]
  BY <1>1 DEF LocalTypeOK, Runs, Held
<1>4. LocalTypeOK' /\ PlacesOfKinds' /\ RunsWhileWaited' /\ FindsItsOwn' /\ QuietIsAlone'
  BY <1>1, <1>2, <1>3, CleanupMoves
<1>5. quiet' \subseteq quiet /\ quiet' \subseteq Cleanups
  BY <1>1, <1>4, QuietShrinks DEF LocalTypeOK
<1>6. QuietKnowsAll'
  BY <1>1, <1>2, <1>3, <1>5, KnowsStill
<1> QED
  BY <1>4, <1>6 DEF LocalInv

LEMMA NextKeepsLocalInv == LocalInv /\ [NextLocal]_localVars => LocalInv'
<1> SUFFICES ASSUME LocalInv, [NextLocal]_localVars PROVE LocalInv'
  OBVIOUS
<1>1. ASSUME NEW t \in LocalTaskIDs, LocalStep(t)
      PROVE  LocalInv'
  BY <1>1, SetupKeepsLocalInv, ContainersKeepLocalInv, ListKeepsLocalInv, KillKeepsLocalInv,
     LoopsKeepLocalInv, RemoveKeepsLocalInv, NetworkKeepsLocalInv DEF LocalStep
<1>2. ASSUME NEW t \in LocalTaskIDs, SetUp(t) \/ Execute(t) \/ RemovePaths(t)
      PROVE  LocalInv'
  BY <1>2, BeginningsKeepLocalInv, RemovePathsKeepsLocalInv
<1>3. CASE UNCHANGED localVars
  BY <1>3 DEF LocalInv, LocalTypeOK, PlacesOfKinds, RunsWhileWaited, FindsItsOwn, QuietIsAlone,
     QuietKnowsAll, Held, Runs, Busy, SameStage, localVars
<1> QED
  BY <1>1, <1>2, <1>3, StepEndKeepsLocalInv DEF NextLocal

\* The invariant of the local tasks: what is found, held and known by a cleanup.
THEOREM LocalInvHolds == SpecLocal => []LocalInv
BY InitLocalInv, NextKeepsLocalInv, PTL DEF SpecLocal

\* The type invariant, for any tasks, stages, labels and faults.
THEOREM LocalTypeOKHolds == SpecLocal => []LocalTypeOK
<1>1. LocalInv => LocalTypeOK
  BY DEF LocalInv
<1> QED
  BY <1>1, LocalInvHolds, PTL

-----------------------------------------------------------------------------
(* What a step does to the containers, and how a cleanup ends.               *)

\* Who is left without its container is left so by a cleanup.
LEMMA GoneByRemoval ==
  ASSUME LocalInv, NextLocal, NEW e \in Executes, Held(e), container'[e] = "none"
  PROVE  \E t \in LocalTaskIDs : RemoveContainer(t, e)
<1>1. LocalTypeOK /\ container[e] \in {"created", "running", "exited"}
  BY DEF LocalInv, Held
<1>2. ASSUME NEW t \in LocalTaskIDs, CreateContainer(t) \/ StartContainer(t)
      PROVE  FALSE
  BY <1>1, <1>2, SMT DEF CreateContainer, StartContainer, LocalTypeOK
<1>3. ASSUME NEW t \in LocalTaskIDs, NEW x \in Executes, KillContainer(t, x)
      PROVE  FALSE
  BY <1>1, <1>3, SMT DEF KillContainer, LocalTypeOK
<1>4. ASSUME NEW t \in LocalTaskIDs, NEW x \in Executes, RemoveContainer(t, x)
      PROVE  x = e
  BY <1>1, <1>4, SMT DEF RemoveContainer, LocalTypeOK
<1>5. ASSUME NEW x \in Executes, StepEnds(x)
      PROVE  FALSE
  BY <1>1, <1>5, SMT DEF StepEnds, LocalTypeOK
<1>6. ASSUME NEW t \in LocalTaskIDs,
             \/ SetUp(t) \/ Execute(t) \/ RemovePaths(t) \/ CreateVolumes(t) \/ CreateNetwork(t)
             \/ Executed(t) \/ ListContainers(t) \/ Killed(t) \/ Removed(t) \/ RemoveNetwork(t)
      PROVE  FALSE
  BY <1>1, <1>6 DEF SetUp, Execute, RemovePaths, CreateVolumes, CreateNetwork, Executed,
     ListContainers, Killed, Removed, RemoveNetwork, docker
<1> QED
  BY <1>2, <1>3, <1>4, <1>5, <1>6 DEF NextLocal, LocalStep

\* For any number of cleanups of any stages beside each other: a container disappears only
\* through one of its own stage that carries its label (utils/docker.go:38, cleanup.go:76).
THEOREM RemovesOnlyItsOwnHolds == SpecLocal => RemovesOnlyItsOwn
<1>1. ASSUME LocalInv, NextLocal, NEW e \in Executes,
             container[e] \in {"created", "running", "exited"}, container'[e] = "none"
      PROVE  \E t \in Cleanups : /\ local[t] = "remove" /\ e \in left[t]
                                 /\ SameStage(t, e) /\ {t, e} \subseteq Labelled
  <2>1. PICK t \in LocalTaskIDs : RemoveContainer(t, e)
    BY <1>1, GoneByRemoval DEF Held
  <2>2. local[t] = "remove" /\ e \in left[t]
    BY <2>1 DEF RemoveContainer
  <2>3. t \in Cleanups \cap Labelled
    BY <1>1, <2>2 DEF LocalInv, PlacesOfKinds
  <2>4. e \in Labelled /\ SameStage(t, e)
    BY <1>1, <2>2, <2>3 DEF LocalInv, FindsItsOwn
  <2> QED
    BY <2>2, <2>3, <2>4
<1>2. LocalInv /\ [NextLocal]_localVars =>
        [\A e \in Executes :
           container[e] \in {"created", "running", "exited"} /\ container'[e] = "none"
           => \E t \in Cleanups : /\ local[t] = "remove" /\ e \in left[t]
                                  /\ SameStage(t, e) /\ {t, e} \subseteq Labelled]_localVars
  BY <1>1
<1> QED
  BY <1>2, LocalInvHolds, PTL DEF SpecLocal, RemovesOnlyItsOwn

\* A quiet cleanup ends in its last step only.
LEMMA QuietEndsLast ==
  ASSUME LocalInv, NextLocal, NEW t \in quiet', local[t] # "done", local'[t] = "done"
  PROVE  t \in quiet /\ t \in Cleanups /\ RemoveNetwork(t) /\ NoFault
<1>1. LocalTypeOK /\ LocalTypeOK' /\ PlacesOfKinds /\ LocalInv'
  BY NextKeepsLocalInv DEF LocalInv
<1>2. t \in Cleanups /\ t \in LocalTaskIDs /\ t \notin Inits \cup Executes
  BY <1>1, LocalKinds DEF LocalTypeOK
<1>3. ASSUME NEW u \in LocalTaskIDs, SetUp(u) \/ Execute(u) \/ RemovePaths(u)
      PROVE  FALSE
  BY <1>1, <1>2, <1>3 DEF SetUp, Execute, RemovePaths, GoTo, LocalTypeOK
<1>4. ASSUME NEW u \in Executes, StepEnds(u)
      PROVE  FALSE
  BY <1>4 DEF StepEnds
<1>5. PICK u \in LocalTaskIDs : LocalStep(u)
  BY <1>3, <1>4 DEF NextLocal
<1>6. u = t
  <2> SUFFICES ASSUME u # t PROVE local'[t] = local[t]
    OBVIOUS
  <2>1. CASE \E p : local' = [local EXCEPT ![u] = p]
    BY <1>1, <1>2, <2>1 DEF LocalTypeOK
  <2>2. CASE local' = local
    BY <2>2
  <2> QED
    BY <1>5, <2>1, <2>2 DEF LocalStep, CreateVolumes, CreateNetwork, CreateContainer,
       StartContainer, Executed, ListContainers, Killed, Removed, RemoveNetwork, KillContainer,
       RemoveContainer, GoTo, Reply
<1>7. ~CallFails(t)
  BY DEF CallFails, SameStage
<1>8. ~CreateVolumes(t) /\ ~CreateNetwork(t) /\ ~CreateContainer(t) /\ ~StartContainer(t)
      /\ ~Executed(t)
  BY <1>1, <1>2 DEF CreateVolumes, CreateNetwork, CreateContainer, StartContainer, Executed,
     PlacesOfKinds
<1>9. ~ListContainers(t) /\ ~Killed(t) /\ ~Removed(t)
  BY <1>1, <1>2, <1>7 DEF ListContainers, Killed, Removed, GoTo, LocalTypeOK
<1>10. ASSUME NEW e \in Executes, KillContainer(t, e) \/ RemoveContainer(t, e)
       PROVE  FALSE
  <2>1. RemoveContainer(t, e)
    BY <1>10 DEF KillContainer
  <2>2. /\ container[e] = "none" /\ NoFault /\ local[t] = "remove" /\ e \in left[t]
    BY <1>7, <2>1 DEF RemoveContainer
  <2>3. t \in quiet \cap Labelled
    BY <1>1, <1>2, <2>2 DEF NoFault, PlacesOfKinds
  <2>4. e \in Labelled /\ SameStage(t, e)
    BY <1>2, <2>2 DEF LocalInv, FindsItsOwn
  <2>5. Held(e)
    BY <2>2, <2>3, <2>4 DEF LocalInv, QuietKnowsAll
  <2> QED
    BY <2>2, <2>5 DEF Held
<1>11. RemoveNetwork(t)
  BY <1>5, <1>6, <1>8, <1>9, <1>10 DEF LocalStep
<1>12. NoFault
  BY <1>7, <1>11 DEF RemoveNetwork
<1> QED
  BY <1>2, <1>11, <1>12 DEF NoFault

\* Whatever earlier tasks have left behind, a cleanup that nothing disturbs, with no fault
\* of its own, leaves no directory, network or labelled container of its stage
\* (cleanup.go:76, utils/docker.go:38).
THEOREM QuietCleanupLeavesNothingHolds == SpecLocal => QuietCleanupLeavesNothing
<1>1. ASSUME LocalInv, NextLocal, NEW t \in quiet', local[t] # "done", local'[t] = "done"
      PROVE  /\ StageOf[t] \notin hostPath' \cup network'
             /\ t \in Labelled => \A e \in Labelled \cap Executes :
                                    SameStage(e, t) => container'[e] \in {"none", "process"}
  <2>1. t \in quiet /\ t \in Cleanups /\ t \in LocalTaskIDs /\ RemoveNetwork(t) /\ NoFault
    BY <1>1, QuietEndsLast, LocalKinds
  <2>2. local[t] = "network" /\ Busy(t) /\ UNCHANGED <<hostPath, container>>
    BY <2>1 DEF RemoveNetwork, Busy
  <2>3. /\ StageOf[t] \notin hostPath
        /\ \A u \in LocalTaskIDs \ {t} : SameStage(t, u) => ~Busy(u)
    BY <1>1, <2>1, <2>2 DEF LocalInv, QuietIsAlone
  <2>4. \A e \in Executes : SameStage(e, t) => ~Runs(e)
    BY <1>1, <2>1, <2>3, LocalKinds DEF LocalInv, RunsWhileWaited, SameStage, Busy
  <2>5. StageOf[t] \notin network'
    BY <2>1, <2>4, SMT DEF RemoveNetwork, Runs, NoFault, CallFails, SameStage
  <2>6. ASSUME t \in Labelled, NEW e \in Labelled \cap Executes, SameStage(e, t)
        PROVE  container'[e] \in {"none", "process"}
    <3>1. ~Held(e)
      BY <1>1, <2>1, <2>2, <2>6 DEF LocalInv, QuietKnowsAll, SameStage
    <3> QED
      BY <1>1, <2>2, <3>1 DEF Held, LocalInv, LocalTypeOK
  <2> QED
    BY <2>2, <2>3, <2>5, <2>6
<1>2. LocalInv /\ [NextLocal]_localVars =>
        [\A t \in quiet' : local[t] # "done" /\ local'[t] = "done" =>
           /\ StageOf[t] \notin hostPath' \cup network'
           /\ t \in Labelled => \A e \in Labelled \cap Executes :
                                  SameStage(e, t) => container'[e] \in {"none", "process"}
        ]_localVars
  BY <1>1
<1> QED
  BY <1>2, LocalInvHolds, PTL DEF SpecLocal, QuietCleanupLeavesNothing
=============================================================================
