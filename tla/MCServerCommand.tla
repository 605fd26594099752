-------------------------- MODULE MCServerCommand --------------------------
(* ServerCommand as TLC runs it. *)
EXTENDS ServerCommand
=============================================================================
