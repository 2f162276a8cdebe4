-------------------------- MODULE MCMoreComponents --------------------------
(***************************************************************************)
(* More components that share no state with each other, checked in one run:  *)
(* the initial state chooses the component to explore, and the others stay   *)
(* in one of their own initial states.                                      *)
(***************************************************************************)
EXTENDS CosmosHTLC, MultiHopTransfer, Migrations, ConnectionManager, RequestThrottle,
        PersistenceManager, VaultSecrets, TLC

VARIABLE part

Parts == {"htlc", "transfer", "migrations", "connections", "throttle",
          "manager", "secrets"}

\* A triangle that opens to a longer way round, and back.
Both(a, b) == {<<a, b>>, <<b, a>>}
MCNetworks == {Both("hub", "y") \cup Both("x", "y"),
               Both("hub", "x") \cup Both("x", "z") \cup Both("z", "y")}
Asked(source, dest, timelock) == [source |-> source, dest |-> dest, timelock |-> timelock]
MCRequests == {Asked("hub", "y", 8), Asked("hub", "y", 13), Asked("ethereum", "x", 9)}

\* The migrator that the persistence manager starts, and one of the command line.
MCMigrationPool == [p \in Migrators |-> IF p = "manager" THEN 1 ELSE 2]

MCSymmetry == Permutations(Relays) \cup Permutations(Denoms) \cup Permutations(Readers)

MCInit ==
    /\ part \in Parts
    /\ Init /\ MigrationInit /\ ConnectionInit
    /\ MultiHopInit
    /\ (part = "transfer" => Cardinality({relay[r].request : r \in Relays}) > 1)
    /\ (part # "transfer" =>
            /\ network = CHOOSE n \in Networks : TRUE
            /\ lastCacheUpdate = 0
            /\ relay = [r \in Relays |-> New(CHOOSE q \in Requests : TRUE)])
    /\ ThrottleInit
    /\ (part # "throttle" => maxConcurrent = 1)
    /\ ManagerInit /\ (part # "manager" => mode = "hybrid" /\ ~heard)
    /\ VaultInit /\ (part # "secrets" => lease = 0 /\ lent = 0 /\ failed = 0)

MCNext ==
    /\ UNCHANGED part
    /\ \/ part = "htlc" /\ Next
          /\ UNCHANGED <<multiHopVars, migrationVars, connectionVars, throttleVars,
                         managerVars, secretVars>>
       \/ part = "transfer" /\ MultiHopNext
          /\ UNCHANGED <<vars, migrationVars, connectionVars, throttleVars,
                         managerVars, secretVars>>
       \/ part = "migrations" /\ MigrationNext
          /\ UNCHANGED <<vars, multiHopVars, connectionVars, throttleVars,
                         managerVars, secretVars>>
       \/ part = "connections" /\ ConnectionNext
          /\ UNCHANGED <<vars, multiHopVars, migrationVars, throttleVars,
                         managerVars, secretVars>>
       \/ part = "throttle" /\ ThrottleNext
          /\ UNCHANGED <<vars, multiHopVars, migrationVars, connectionVars,
                         managerVars, secretVars>>
       \/ part = "manager" /\ ManagerNext
          /\ UNCHANGED <<vars, multiHopVars, migrationVars, connectionVars,
                         throttleVars, secretVars>>
       \/ part = "secrets" /\ VaultNext
          /\ UNCHANGED <<vars, multiHopVars, migrationVars, connectionVars,
                         throttleVars, managerVars>>

MCSpec == MCInit /\ [][MCNext]_<<part, vars, multiHopVars, migrationVars, connectionVars,
                                throttleVars, managerVars, secretVars>>
=============================================================================
