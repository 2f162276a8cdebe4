-------------------------- MODULE MCFusionResolver --------------------------
(* Small instances of FusionResolver, in which the owner may also call every *)
(* setter of the configuration, with arguments on both sides of its checks.  *)
EXTENDS FusionResolver

MCInitialConfig ==
    [maxTimelock |-> 2, minTimelock |-> 1, cascade |-> <<4, 3, 2, 1>>,
     recoveryBuffer |-> 1, timeoutBuffer |-> 1,
     maxHtlcs |-> 2, window |-> 1, perWindow |-> 2,
     minAmount |-> 1, maxAmount |-> 2, paused |-> FALSE]
NoneOf == {}
MCCascades == {<<4, 3, 2, 1>>, <<4, 4, 2, 1>>}
MCDoSLimits == {<<1, 1, 1>>, <<1, 1, 2>>, <<101, 1, 1>>}
MCAmountLimits == {<<1, 2>>, <<1, 1>>, <<0, 2>>}
=============================================================================
