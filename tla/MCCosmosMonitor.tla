-------------------------- MODULE MCCosmosMonitor --------------------------
\* Only events that create an HTLC: the least one may expect to be handled.
EXTENDS CosmosMonitor
=============================================================================
