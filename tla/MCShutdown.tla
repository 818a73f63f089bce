----------------------------- MODULE MCShutdown -----------------------------
(* Two servers with their work. *)
EXTENDS Shutdown
=============================================================================
