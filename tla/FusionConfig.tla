---------------------------- MODULE FusionConfig ----------------------------
(***************************************************************************)
(* The FusionConfig contract (contracts/ethereum/contracts/FusionConfig.sol) *)
(* that CrossChainHTLC reads its limits from.  Several deployments may     *)
(* exist, because CrossChainHTLC.setFusionConfig can point at another one: *)
(* configs maps each deployed contract to its storage.                     *)
(*                                                                         *)
(* Only the owner calls the setters, so the owner is not a parameter.  The *)
(* events are left out.                                                    *)
(***************************************************************************)
EXTENDS Integers

CONSTANTS
    ConfigContracts,   \* deployed FusionConfig contracts
    InitialConfig,     \* the storage a fresh deployment starts with
    Durations,         \* durations the owner may pass to a setter
    Cascades,          \* <<ethereum, cosmos1, cosmos2, final>> arguments
    DoSLimits,         \* <<per address, window, per window>> arguments
    AmountLimits,      \* <<minimum, maximum>> arguments
    MaxPerAddress      \* the hard ceiling of setDoSLimits (100 in the code)

VARIABLE configs

ConfigRecord ==
    [maxTimelock: Nat, minTimelock: Nat,
     cascade: Nat \X Nat \X Nat \X Nat,
     recoveryBuffer: Nat, timeoutBuffer: Nat,
     maxHtlcs: Nat, window: Nat, perWindow: Nat,
     minAmount: Nat, maxAmount: Nat,
     paused: BOOLEAN]

StrictlyDecreasing(c) == c[1] > c[2] /\ c[2] > c[3] /\ c[3] > c[4]

\* What the setters' require statements keep true of one deployment, however
\* the owner orders the calls.
Consistent(c) ==
    /\ 0 < c.minTimelock /\ c.minTimelock < c.maxTimelock
    /\ StrictlyDecreasing(c.cascade)
    /\ 0 < c.recoveryBuffer /\ 0 < c.timeoutBuffer
    /\ 0 < c.window
    /\ 0 < c.perWindow /\ c.perWindow <= c.maxHtlcs
    /\ c.maxHtlcs <= MaxPerAddress
    /\ 0 < c.minAmount /\ c.minAmount < c.maxAmount

ASSUME ConfigAssumption ==
    /\ InitialConfig \in ConfigRecord
    /\ Consistent(InitialConfig)
    /\ Durations \subseteq Nat
    /\ Cascades \subseteq Nat \X Nat \X Nat \X Nat
    /\ DoSLimits \subseteq Nat \X Nat \X Nat
    /\ AmountLimits \subseteq Nat \X Nat
    /\ MaxPerAddress \in Nat
-----------------------------------------------------------------------------
ConfigInit == configs = [k \in ConfigContracts |-> InitialConfig]

SetMaxTimelockDuration(k, d) ==
    /\ d > configs[k].minTimelock
    /\ configs' = [configs EXCEPT ![k].maxTimelock = d]

\* Seeded fault: the new minimum is not compared with the maximum.
FaultMinUnchecked(k, d) ==
    /\ d > 0
    /\ configs' = [configs EXCEPT ![k].minTimelock = d]

SetMinTimelockDuration(k, d) ==
    /\ d > 0
    /\ d < configs[k].maxTimelock
    /\ configs' = [configs EXCEPT ![k].minTimelock = d]

SetTimelockCascade(k, c) ==
    /\ StrictlyDecreasing(c)
    /\ c[4] >= configs[k].minTimelock
    /\ configs' = [configs EXCEPT ![k].cascade = c]

SetRecoveryBuffer(k, d) ==
    /\ d > 0
    /\ configs' = [configs EXCEPT ![k].recoveryBuffer = d]

SetTimeoutBuffer(k, d) ==
    /\ d > 0
    /\ configs' = [configs EXCEPT ![k].timeoutBuffer = d]

SetDoSLimits(k, perAddress, window, perWindow) ==
    /\ perAddress > 0 /\ perAddress <= MaxPerAddress
    /\ window > 0
    /\ perWindow > 0 /\ perWindow <= perAddress
    /\ configs' = [configs EXCEPT ![k] =
                     [@ EXCEPT !.maxHtlcs = perAddress,
                               !.window = window,
                               !.perWindow = perWindow]]

SetHtlcAmountLimits(k, min, max) ==
    /\ min > 0
    /\ max > min
    /\ configs' = [configs EXCEPT ![k] =
                     [@ EXCEPT !.minAmount = min, !.maxAmount = max]]

SetEmergencyPause(k, enabled) ==
    configs' = [configs EXCEPT ![k].paused = enabled]

ConfigNext ==
    \E k \in ConfigContracts :
        \/ \E d \in Durations :
              \/ SetMaxTimelockDuration(k, d)
              \/ SetMinTimelockDuration(k, d)
              \/ SetRecoveryBuffer(k, d)
              \/ SetTimeoutBuffer(k, d)
        \/ \E c \in Cascades : SetTimelockCascade(k, c)
        \/ \E l \in DoSLimits : SetDoSLimits(k, l[1], l[2], l[3])
        \/ \E a \in AmountLimits : SetHtlcAmountLimits(k, a[1], a[2])
        \/ \E enabled \in BOOLEAN : SetEmergencyPause(k, enabled)

ConfigSpec == ConfigInit /\ [][ConfigNext]_configs
-----------------------------------------------------------------------------
\* Every deployment's storage has the type of its declarations.
ConfigTypeOK == configs \in [ConfigContracts -> ConfigRecord]

\* The checks of the single setters add up: in whatever order the owner calls
\* them, the minimum duration stays below the maximum, the cascade decreases
\* hop by hop, one window admits no more HTLCs than one address may hold, and
\* the amount range is not empty.  Each setter checks only its own arguments
\* against the fields it happens to read, so this is a claim about sequences.
ConfigConsistent == \A k \in ConfigContracts : Consistent(configs[k])
=============================================================================
