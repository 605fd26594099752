----------------------- MODULE MCDaemonSetReconciler -----------------------
(* DaemonSetReconciler with small sets, for TLC. *)
EXTENDS DaemonSetReconciler, TLC

Symmetry == Permutations(Handlers) \cup Permutations(Types)
              \cup Permutations(Ids) \cup Permutations(Configs)
              \cup Permutations(DTasks)
=============================================================================
