------------------------ MODULE MCDaemonSetManager ------------------------
(* DaemonSetManager with small sets, for TLC. *)
EXTENDS DaemonSetManager, TLC

Symmetry == Permutations(Callers) \cup Permutations(Types)
              \cup Permutations(Ids) \cup Permutations(Configs \ NoExecutable)
=============================================================================
