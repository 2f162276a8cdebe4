-------------------------- MODULE MCErrorRecovery --------------------------
(* One relay and a stop while it waits for its next attempt. *)
EXTENDS ErrorRecovery
=============================================================================
