------------------------------ MODULE MCPoller ------------------------------
(* Poller as TLC runs it, with small sets of workers and task ids. *)
EXTENDS Poller
=============================================================================
