-------------------------- MODULE TaskRouter_proofs --------------------------
(***************************************************************************)
(* The handlers and the start of the program behave in the router as they  *)
(* do alone: what is proved of a part holds of the whole.                  *)
(***************************************************************************)
EXTENDS TaskRouter, TaskHandlers_proofs, ProgramStart_proofs

\* The kinds are different names, so that a step of one leaves the others alone.
LEMMA LocalPartStep == [NextRouter]_routerVars => [NextLocal]_localVars
<1> SUFFICES ASSUME [NextRouter]_routerVars, ~(UNCHANGED localVars) PROVE NextLocal
  OBVIOUS
<1>1. ~(UNCHANGED routerVars)
  BY DEF routerVars
<1> QED
  BY <1>1 DEF NextRouter, Of

LEMMA SecretStep == [NextRouter]_routerVars => [NextSecrets]_secretVars
<1> SUFFICES ASSUME [NextRouter]_routerVars, ~(UNCHANGED secretVars) PROVE NextSecrets
  OBVIOUS
<1>1. ~(UNCHANGED routerVars)
  BY DEF routerVars
<1> QED
  BY <1>1 DEF NextRouter, Of

LEMMA ForwardedStep == [NextRouter]_routerVars => [NextForwarded]_vmVars
<1> SUFFICES ASSUME [NextRouter]_routerVars, ~(UNCHANGED vmVars) PROVE NextForwarded
  OBVIOUS
<1>1. ~(UNCHANGED routerVars)
  BY DEF routerVars
<1> QED
  BY <1>1 DEF NextRouter, Of

LEMMA ServiceStep == [NextRouter]_routerVars => [NextService]_serviceVars
<1> SUFFICES ASSUME [NextRouter]_routerVars, ~(UNCHANGED serviceVars) PROVE NextService
  OBVIOUS
<1>1. ~(UNCHANGED routerVars)
  BY DEF routerVars
<1> QED
  BY <1>1 DEF NextRouter, Of

LEMMA StartStep == [NextRouter]_routerVars => [NextStart]_StartVars
<1> SUFFICES ASSUME [NextRouter]_routerVars, ~(UNCHANGED StartVars) PROVE NextStart
  OBVIOUS
<1>1. ~(UNCHANGED routerVars)
  BY DEF routerVars
<1> QED
  BY <1>1 DEF NextRouter, Of

\* Every behaviour of the program is one of each of its parts, with steps in which the
\* part rests (router.go:41, server_command.go:37).
THEOREM RouterRunsParts ==
  SpecRouter => /\ SpecLocal /\ SpecForwarded /\ SpecSecrets
                /\ SpecStart /\ SpecService /\ SpecLogging
<1>1. InitRouter => /\ InitLocal /\ InitForwarded /\ InitSecrets
                    /\ InitStart /\ InitService /\ InitLogging
  BY DEF InitRouter, InitStart
<1> QED
  BY <1>1, LocalPartStep, ForwardedStep, SecretStep, ServiceStep, StartStep, LoggingOfStart, PTL
     DEF SpecRouter, SpecLocal, SpecForwarded, SpecSecrets, SpecStart, SpecService, SpecLogging

\* The type invariant of the composition: its kind is chosen once.
THEOREM RouterTypeOKHolds == SpecRouter => []RouterTypeOK
<1>1. InitRouter => kind \in Kinds
  BY DEF InitRouter
<1>2. kind \in Kinds /\ [NextRouter]_routerVars => (kind \in Kinds)'
  BY DEF NextRouter, Of, routerVars
<1>3. SpecRouter => [](kind \in Kinds)
  BY <1>1, <1>2, PTL DEF SpecRouter
<1>4. ForwardedInv => ForwardedTypeOK
  BY DEF ForwardedInv
<1>5. ServiceInv => ServiceTypeOK
  BY DEF ServiceInv
<1>6. /\ kind \in Kinds /\ LocalTypeOK /\ ForwardedTypeOK /\ SecretTypeOK /\ StartTypeOK
      /\ ServiceTypeOK
      => RouterTypeOK
  BY DEF RouterTypeOK
<1> QED
  BY <1>3, <1>4, <1>5, <1>6, RouterRunsParts, LocalTypeOKHolds, ForwardedInvHolds,
     SecretTypeOKHolds, StartTypeOKHolds, ServiceInvHolds, PTL

\* What is proved of the parts, of the composition that is model-checked: its invariants.
THEOREM RouterKeepsPromises ==
  SpecRouter => [](AnswersAccounted /\ ServicesReported /\ PlistDescribesService
                   /\ CachedTokenLives /\ RunnerIsKnown)
BY RouterRunsParts, AnswersAccountedHolds, ServicesReportedHolds,
   PlistDescribesServiceHolds, CachedTokenLivesHolds, RunnerIsKnownHolds, PTL

\* ... and what its steps may never do.
THEOREM RouterStepsKeepPromises ==
  SpecRouter => /\ RemovesOnlyItsOwn /\ QuietCleanupLeavesNothing
                /\ ErasedIsUnknown /\ FetchesWhatWasWritten
BY RouterRunsParts, RemovesOnlyItsOwnHolds, QuietCleanupLeavesNothingHolds, ErasedIsUnknownHolds,
   FetchesWhatWasWrittenHolds, PTL
=============================================================================
