------------------------ MODULE MCManagerScenarios ------------------------
(* DaemonSetManager for TLC in two instances that one run explores: all     *)
(* configs for one type, and two types with one config and with task        *)
(* assignments.  Only the calls are limited to an instance, never the steps *)
(* of an operation, so that fairness demands what it demands in FairSpec.   *)
EXTENDS DaemonSetManager

CONSTANTS OneType, OneConfig, FewStarts
VARIABLE calls

ConfigCalls == [types |-> {OneType}, configs |-> Configs, tasks |-> {}, starts |-> MaxStarts]
TypeCalls == [types |-> Types, configs |-> {OneConfig}, tasks |-> DTasks, starts |-> FewStarts]

MCInit == Init /\ calls \in {ConfigCalls, TypeCalls}

\* What a caller calls with this step, if it does, is a call of the instance.
Wanted(c) ==
  op[c] = Null /\ op'[c] \notin {Null, "removeall"} =>
    /\ typ'[c] \in calls.types
    /\ arg'[c] \subseteq calls.tasks
    /\ op'[c] = "upsert" => ds'[c].cfg \in calls.configs
    /\ op'[c] \in {"upsert", "sync"} => starts + Cardinality(Starters) < calls.starts

MCNext == Next /\ UNCHANGED calls /\ \A c \in Callers : Wanted(c)

MCSpec == MCInit /\ [][MCNext]_<<vars, calls>> /\ Fairness
=============================================================================
