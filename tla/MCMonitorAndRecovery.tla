------------------------ MODULE MCMonitorAndRecovery ------------------------
(***************************************************************************)
(* The two components whose liveness is checked, in one run: the initial    *)
(* state chooses the one to explore, and the other stays where nothing of   *)
(* it is enabled, so that its fairness asks nothing.                        *)
(*                                                                         *)
(* Monitor: two replaceable blocks, batches of two, two restarts, a reset.  *)
(* Recovery: two relays at a time, each with two attempts of two.           *)
(***************************************************************************)
EXTENDS BlockMonitor, ErrorRecovery

VARIABLE component

MCInit ==
    /\ component \in {"monitor", "recovery"}
    /\ MonitorInit /\ ErrorRecoveryInit
    /\ component = "recovery" => last = 0 /\ \A h, k \in DOMAIN chain : chain[h] = chain[k]

MCNext ==
    /\ UNCHANGED component
    /\ \/ component = "monitor" /\ MonitorNext /\ UNCHANGED breakerVars
       \/ component = "recovery" /\ ErrorRecoveryNext /\ UNCHANGED monitorAndChain

MCSpec ==
    /\ MCInit /\ [][MCNext]_<<component, monitorAndChain, breakerVars>>
    /\ Fairness /\ ErrorRecoveryFairness
=============================================================================
