---------------------------- MODULE VaultSecrets ----------------------------
(***************************************************************************)
(* A secret of the relayer kept in Vault (vault-secrets-provider.ts), read   *)
(* through the secrets manager with another provider behind it               *)
(* (secrets-manager.ts).  Answers are cached for a time; the token that      *)
(* opens Vault is lent for a time and renewed by a timer that each renewal   *)
(* sets for the next.  Vault serves a request some time after it was sent    *)
(* and the answer arrives some time after that, so that the provider reckons *)
(* the end of the lease later than Vault does, and an answer may bring what  *)
(* was replaced on its way.  Automatic refreshing, off by default, reads like *)
(* any caller and is left out with setSecret and deleteSecret, which no code  *)
(* calls.                                                                   *)
(***************************************************************************)
EXTENDS Naturals, Sequences, FiniteSetsExt

CONSTANTS Readers,      \* callers of getSecret
          Leases,       \* what a renewal may lend; 0 for a token without end
          TokenMaxLife, \* beyond which Vault renews no token
          CacheLife,    \* cacheTimeout
          Transit,      \* bound: how long a request and its answer are on their way
          NoMoment,     \* no timer, no end, no copy
          MaxVersions, MaxFailed, LastMinute \* bounds

Longest(a, b) == Max({a, b})

\* Seeded fault: the timer does what its comment says.
FaultRenewalDelay(rest) == Longest((3 * rest) \div 4, 1)

\* A quarter of what is left of the lease, a minute at least.
RenewalDelay(rest) == Longest(rest \div 4, 1)

ASSUME VaultSecretsAssumption ==
    /\ {TokenMaxLife, CacheLife, Transit, MaxVersions, MaxFailed, LastMinute} \subseteq Nat
    /\ Leases \subseteq Nat /\ NoMoment \notin Nat

VARIABLES
    minute,
    replaced,   \* when each earlier version of the secret was replaced in Vault
    copy,       \* the cached version and its end
    reads,      \* getSecret of each reader: where it is, what it was served, since when
    lease,      \* what a renewal lends
    lent,       \* what the token was lent last, or had left at the start
    expires,    \* the end of the token in Vault
    renewAt,    \* tokenRenewalTimer
    renewal,    \* a renewal under way
    vaultHealthy, \* stats.healthy, and isInitialized
    failed,     \* requests that failed of their own
    answered    \* the age of the last answer: how long ago it was replaced
secretVars == <<minute, replaced, copy, reads, lease, lent, expires, renewAt, renewal, vaultHealthy,
                failed, answered>>

NoRead    == [at |-> "idle", version |-> 0, since |-> 0]
NoRenewal == [at |-> "idle", lent |-> 0, since |-> 0]
NoCopy    == [version |-> 0, until |-> 0]

\* authenticate with a token that has whatever is left of it, which Vault may
\* fail to tell, or by a role, whose lease is reckoned from the answer.
VaultInit ==
    /\ minute = 0 /\ replaced = << >> /\ copy = NoCopy
    /\ reads = [r \in Readers |-> NoRead]
    /\ failed \in {0, 1} /\ failed <= MaxFailed
    /\ lease \in Leases
    /\ \/ lease = 0 /\ lent = 0 /\ expires = NoMoment
       \/ /\ lease # 0 /\ lent \in 0 .. TokenMaxLife
          /\ \E way \in 0 .. Transit : way <= lent /\ expires = lent - way
    /\ renewAt = IF lease = 0 \/ lent = 0 \/ failed = 1 THEN NoMoment ELSE RenewalDelay(lent)
    /\ renewal = NoRenewal /\ vaultHealthy = TRUE /\ answered = 0

TokenValid == expires = NoMoment \/ minute < expires
Age(v) == IF v > Len(replaced) THEN 0 ELSE minute - replaced[v]

\* Somebody stores another version in Vault.
Rotate ==
    /\ Len(replaced) + 1 < MaxVersions
    /\ replaced' = Append(replaced, minute)
    /\ UNCHANGED <<minute, copy, reads, lease, lent, expires, renewAt, renewal,
                   vaultHealthy, failed, answered>>

CopyLives == minute < copy.until

\* getSecret: the copy answers while it lives.
AnswerFromCopy ==
    /\ vaultHealthy /\ CopyLives
    /\ answered' = Age(copy.version)
    /\ UNCHANGED <<minute, replaced, copy, reads, lease, lent, expires, renewAt,
                   renewal, vaultHealthy, failed>>

Ask(r) ==
    /\ vaultHealthy /\ ~CopyLives
    /\ reads[r].at = "idle"
    /\ reads' = [reads EXCEPT ![r] = [at |-> "sent", version |-> 0, since |-> minute]]
    /\ UNCHANGED <<minute, replaced, copy, lease, lent, expires, renewAt, renewal,
                   vaultHealthy, failed, answered>>

Served(r) ==
    /\ reads[r].at = "sent"
    /\ reads' = [reads EXCEPT ![r].at = IF TokenValid THEN "served" ELSE "refused",
                              ![r].version = Len(replaced) + 1]
    /\ UNCHANGED <<minute, replaced, copy, lease, lent, expires, renewAt, renewal,
                   vaultHealthy, failed, answered>>

\* The answer is cached and handed on, also after destroy.
Answered(r) ==
    /\ reads[r].at = "served"
    /\ copy' = [version |-> reads[r].version, until |-> minute + CacheLife]
    /\ answered' = Age(reads[r].version)
    /\ reads' = [reads EXCEPT ![r] = NoRead]
    /\ UNCHANGED <<minute, replaced, lease, lent, expires, renewAt, renewal,
                   vaultHealthy, failed>>

\* A read that fails leaves the provider healthy; the next provider is asked.
ReadFails(r) ==
    /\ reads[r].at \in {"sent", "refused"}
    /\ \/ reads[r].at = "refused" /\ UNCHANGED failed
       \/ reads[r].at = "sent" /\ failed < MaxFailed /\ failed' = failed + 1
    /\ reads' = [reads EXCEPT ![r] = NoRead]
    /\ UNCHANGED <<minute, replaced, copy, lease, lent, expires, renewAt, renewal,
                   vaultHealthy, answered>>

\* refreshAllSecrets clears the caches.
RefreshAllSecrets ==
    /\ vaultHealthy /\ copy' = NoCopy
    /\ UNCHANGED <<minute, replaced, reads, lease, lent, expires, renewAt, renewal,
                   vaultHealthy, failed, answered>>

RenewToken ==
    /\ renewAt = minute /\ renewAt' = NoMoment
    /\ renewal' = [at |-> "sent", lent |-> 0, since |-> minute]
    /\ UNCHANGED <<minute, replaced, copy, reads, lease, lent, expires, vaultHealthy,
                   failed, answered>>

\* Vault lends the token again, to the end of its life at most.
RenewalServed ==
    /\ renewal.at = "sent"
    /\ LET until == Min({minute + lease, TokenMaxLife})
       IN  IF TokenValid /\ until >= minute
           THEN /\ expires' = Longest(expires, until) /\ lent' = until - minute
                /\ renewal' = [renewal EXCEPT !.at = "served", !.lent = until - minute]
           ELSE renewal' = [renewal EXCEPT !.at = "refused"] /\ UNCHANGED <<expires, lent>>
    /\ UNCHANGED <<minute, replaced, copy, reads, lease, renewAt, vaultHealthy, failed,
                   answered>>

\* The next renewal is set, also after destroy; none when nothing was lent.
RenewalAnswered ==
    /\ renewal.at = "served" /\ renewal' = NoRenewal
    /\ renewAt' = IF renewal.lent > 0 THEN minute + RenewalDelay(renewal.lent) ELSE NoMoment
    /\ UNCHANGED <<minute, replaced, copy, reads, lease, lent, expires, vaultHealthy,
                   failed, answered>>

\* A renewal that fails is the last one, and the provider is never healthy again.
RenewalFails ==
    /\ \/ renewal.at = "refused" /\ UNCHANGED failed
       \/ renewal.at = "sent" /\ failed < MaxFailed /\ failed' = failed + 1
    /\ renewal' = NoRenewal /\ vaultHealthy' = FALSE
    /\ UNCHANGED <<minute, replaced, copy, reads, lease, lent, expires, renewAt,
                   answered>>

Destroy ==
    /\ renewAt' = NoMoment /\ copy' = NoCopy /\ vaultHealthy' = FALSE
    /\ UNCHANGED <<minute, replaced, reads, lease, lent, expires, renewal, failed,
                   answered>>

\* Timers fire in their minute and requests end in time.
MinutePasses ==
    /\ minute < LastMinute /\ minute' = minute + 1 /\ renewAt # minute
    /\ \A q \in {reads[r] : r \in Readers} \cup {renewal} :
           q.at = "idle" \/ minute < q.since + Transit
    /\ UNCHANGED <<replaced, copy, reads, lease, lent, expires, renewAt, renewal,
                   vaultHealthy, failed, answered>>

VaultNext ==
    \/ Rotate \/ AnswerFromCopy \/ RefreshAllSecrets
    \/ \E r \in Readers : Ask(r) \/ Served(r) \/ Answered(r) \/ ReadFails(r)
    \/ RenewToken \/ RenewalServed \/ RenewalAnswered \/ RenewalFails
    \/ Destroy \/ MinutePasses

VaultSpec == VaultInit /\ [][VaultNext]_secretVars
-----------------------------------------------------------------------------
\* A quarter of what was lent, a minute at least, leaves room for the request
\* and the answer of the renewal and for the answer that told what was lent.
IsLentLong(l) == 2 * Transit + Longest(l \div 4, 1) < l

\* As long as no request failed of its own, a token that lapses before the end
\* of its life, or a read that is refused, has one cause: the token was lent
\* last, or had left when it was configured, less than its renewal takes.
\* Otherwise the chain of timers keeps it good, though the provider reckons the
\* end of a lease from the answer and Vault from the request.
TokenOutlasts ==
    failed = 0 /\ vaultHealthy /\ minute < TokenMaxLife /\ IsLentLong(lent) =>
        /\ TokenValid
        /\ \A r \in Readers : reads[r].at # "refused"

\* An answer is at most as old as a copy that was out of date on its way and
\* then lived its life, whichever reads overtake each other and clear the cache.
SecretIsRecent == answered <= CacheLife + Transit

\* Secrets stay readable and recent.
SecretsStayGood == TokenOutlasts /\ SecretIsRecent
=============================================================================
