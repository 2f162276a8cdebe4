--------------------------- MODULE MCEthereumHTLC ---------------------------
(* A small instance of EthereumHTLC.  One time unit stands for the shortest *)
(* duration the configuration can express.                                  *)
EXTENDS EthereumHTLC, TLC

MCInitialConfig ==
    [maxTimelock |-> 3, minTimelock |-> 1, cascade |-> <<4, 3, 2, 1>>,
     recoveryBuffer |-> 1, timeoutBuffer |-> 1,
     maxHtlcs |-> 2, window |-> 1, perWindow |-> 2,
     minAmount |-> 1, maxAmount |-> 2, paused |-> FALSE]

NoCascades == {}
NoAmountLimits == {}
\* Limits that leave the rate window alone: nothing the owner does may make an
\* account exceed them.
SameWindow == {<<2, 1, 2>>, <<1, 1, 1>>}

MCSymmetry == Permutations(Accounts) \cup Permutations(Secrets)
=============================================================================
