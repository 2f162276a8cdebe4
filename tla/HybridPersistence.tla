------------------------- MODULE HybridPersistence -------------------------
(***************************************************************************)
(* One relay in the hybrid persistence of the relayer                      *)
(* (relayer/src/persistence): a row in PostgreSQL, the source of truth, and *)
(* a copy with its indexes in Redis.  One caller writes, deletes and reads  *)
(* the relay, a call after the other; what a call leaves behind unawaited    *)
(* goes on beside the next ones.                                           *)
(*                                                                         *)
(* PostgreSQL is reached over a pool of connections, so its statements      *)
(* overtake each other; Redis over one connection, in the order of sending. *)
(* A pipeline is not a transaction: no other command of the connection comes *)
(* between its commands, but any of them may fail or be lost by itself.      *)
(* Relays are numbered by the call that wrote them; of the rest only the     *)
(* status counts.                                                           *)
(***************************************************************************)
EXTENDS Integers, Sequences

CONSTANTS
    Active, Terminal,    \* the statuses of relays under way, and of ended ones
    NoRelay, Keep,          \* no relay; an update that leaves the status alone
    MaxCalls, MaxFailures  \* bounds: calls, statements and commands that fail

VARIABLES
    row,         \* the relay in PostgreSQL
    cached,      \* the relay in Redis
    expires,     \* its key has a time to live
    indexed,     \* the status sets of Redis that hold its id
    pendingSet,  \* and whether the set of pending relays does
    asked,       \* the call under way: what it writes, and whose answer it awaits
    statements,  \* statements on their way to PostgreSQL
    wire,        \* commands on their way to Redis
    promised,    \* what the row may be, from the answers given
    calls, failed, \* calls made, and failures
    left,        \* stores a call went on without, its write still on the way there
    cut          \* some pipeline has taken effect in part

storeVars == <<row, cached, expires, indexed, pendingSet>>
hybridVars == <<storeVars, asked, statements, wire, promised, calls, failed, left, cut>>

Statuses == Active \cup Terminal
NoCall == [op |-> NoRelay]

HybridInit ==
    /\ row = NoRelay /\ cached = NoRelay /\ expires = FALSE /\ indexed = {} /\ pendingSet = FALSE
    /\ asked = NoCall /\ statements = {} /\ wire = <<>>
    /\ promised = {NoRelay} /\ calls = 0 /\ failed = 0 /\ left = {} /\ cut = FALSE
-----------------------------------------------------------------------------
\* A write applied to a relay: an update of no relay changes nothing, and an
\* update that says nothing of the status keeps it.
Applied(w, relay) ==
    CASE w.op = "delete" -> NoRelay
      [] w.op = "save" -> [n |-> w.n, status |-> w.status]
      [] w.op = "update" ->
            IF relay = NoRelay THEN NoRelay
            ELSE [n |-> w.n, status |-> IF w.status = Keep THEN relay.status ELSE w.status]

Write == [op : {"save"}, status : Statuses] \cup [op : {"update"}, status : Statuses \cup {Keep}]
             \cup [op : {"delete"}, status : {Keep}]

Statement(w, by) == [write |-> w, by |-> by]
Command(w, by) == [write |-> w, by |-> by, existing |-> NoRelay]

\* saveRelay, updateRelay, deleteRelay: Promise.all of both stores.  The caller
\* updates and deletes what it has saved.
Ask ==
    /\ asked = NoCall /\ calls < MaxCalls
    /\ \E x \in Write :
        LET w == [op |-> x.op, status |-> x.status, n |-> calls + 1] IN
        /\ w.op = "save" \/ promised # {NoRelay}
        /\ asked' = [op |-> w.op, write |-> w, awaits |-> {"postgres", "redis"}]
        /\ statements' = statements \cup {Statement(w, "both")}
        /\ wire' = Append(wire, Command(w, "both"))
    /\ calls' = calls + 1
    /\ UNCHANGED <<storeVars, promised, failed, left, cut>>

Answered ==
    /\ asked' = NoCall
    /\ promised' = {Applied(asked.write, r) : r \in promised}

\* The caller gets an error and cannot know what was written.
Throws ==
    /\ asked' = NoCall
    /\ promised' = promised \cup {Applied(asked.write, r) : r \in promised}

\* Seeded fault: the first answer is enough.
FaultFulfilled(store) == Answered

\* Promise.all has one more answer.
Fulfilled(store) ==
    IF asked.awaits = {store} THEN Answered
    ELSE asked' = [asked EXCEPT !.awaits = @ \ {store}] /\ UNCHANGED promised

Awaited(c) == c.by = "both" /\ asked # NoCall /\ asked.write = c.write /\ "again" \notin asked.awaits

\* Promise.all rejects without waiting for the other store.
GoesOnWithout(store) == left' = left \cup (asked.awaits \cap {store})

\* The answer of PostgreSQL.  On an error a save or an update is tried once
\* more there, and after an update of that kind the cache is brought up to date
\* in the background.  An answer that nobody awaits is dropped.
PostgresAnswers(s, ok) ==
    LET others == statements \ {s} IN
    CASE Awaited(s) /\ ok -> Fulfilled("postgres") /\ statements' = others /\ UNCHANGED left
      [] Awaited(s) /\ ~ok ->
            /\ GoesOnWithout("redis")
            /\ IF s.write.op = "delete" THEN Throws /\ statements' = others
               ELSE /\ asked' = [asked EXCEPT !.awaits = {"again"}]
                    /\ statements' = others \cup {Statement(s.write, "again")}
                    /\ UNCHANGED promised
      [] s.by = "again" ->
            /\ IF ok THEN Answered ELSE Throws
            /\ statements' = IF ok /\ s.write.op = "update"
                             THEN others \cup {Statement(s.write, "sync")} ELSE others
            /\ UNCHANGED left
      [] OTHER -> UNCHANGED <<asked, promised, left>> /\ statements' = others

PostgresWrites(s) ==
    /\ s.by # "sync"
    /\ row' = Applied(s.write, row)
    /\ PostgresAnswers(s, TRUE)
    /\ UNCHANGED <<cached, expires, indexed, pendingSet, wire, calls, failed, cut>>

PostgresFails(s) ==
    /\ failed < MaxFailures /\ failed' = failed + 1
    /\ s.by # "sync" /\ row' \in {row, Applied(s.write, row)}
    /\ PostgresAnswers(s, FALSE)
    /\ UNCHANGED <<cached, expires, indexed, pendingSet, wire, calls, cut>>

\* The relay as it was read is saved in Redis, and nobody waits for that.
CacheInBackground(relay) ==
    wire' = Append(wire, Command([op |-> "save", status |-> relay.status, n |-> relay.n], "background"))

\* syncRelayToCache
SyncReads(s) ==
    /\ s.by = "sync"
    /\ statements' = statements \ {s}
    /\ IF row = NoRelay THEN UNCHANGED wire ELSE CacheInBackground(row)
    /\ UNCHANGED <<storeVars, asked, promised, calls, failed, left, cut>>

\* getRelay and listPendingRelays, when Redis has nothing or fails.
ReadThrough ==
    /\ asked = NoCall /\ row # NoRelay /\ calls < MaxCalls
    /\ \/ cached = NoRelay /\ UNCHANGED failed
       \/ failed < MaxFailures /\ failed' = failed + 1
    /\ CacheInBackground(row)
    /\ calls' = calls + 1
    /\ UNCHANGED <<storeVars, asked, statements, promised, left, cut>>
-----------------------------------------------------------------------------
Moved(c) == c.write.status \notin {Keep, c.existing.status}

\* Seeded fault: the pending set goes by the status the relay had.
FaultPipeline(c) ==
    CASE c.write.op = "save" ->
            {"set", "sadd", IF c.write.status \in Active THEN "sadd pending" ELSE "expire"}
      [] c.write.op = "update" ->
            {"set"} \cup IF ~Moved(c) THEN {}
                         ELSE {"srem", "sadd", IF c.existing.status \in Active THEN "sadd pending"
                                                                               ELSE "srem pending"}
      [] c.write.op = "delete" -> {"del", "srem", "srem pending"}

\* The commands of a pipeline.  saveRelay adds to the sets and removes from none;
\* updateRelay moves the id between them when the status it writes is not the one
\* it read.
Pipeline(c) ==
    CASE c.write.op = "save" ->
            {"set", "sadd", IF c.write.status \in Active THEN "sadd pending" ELSE "expire"}
      [] c.write.op = "update" ->
            {"set"} \cup IF ~Moved(c) THEN {}
                         ELSE {"srem", "sadd", IF c.write.status \in Active THEN "sadd pending"
                                                                            ELSE "srem pending"}
      [] c.write.op = "delete" -> {"del", "srem", "srem pending"}

\* Commands of a pipeline take effect.  SET takes an earlier time to live away.
Execute(c, done) ==
    /\ cached' = IF done \cap {"set", "del"} # {} THEN Applied(c.write, c.existing) ELSE cached
    /\ expires' = IF "expire" \in done THEN cached' # NoRelay
                  ELSE expires /\ done \cap {"set", "del"} = {}
    /\ indexed' = (IF "srem" \in done THEN indexed \ {c.existing.status} ELSE indexed)
                      \cup (IF "sadd" \in done THEN {c.write.status} ELSE {})
    /\ pendingSet' = ("sadd pending" \in done \/ (pendingSet /\ "srem pending" \notin done))

\* The answer of Redis.  An error of a delete is caught, that of a save or an
\* update sends the caller to PostgreSQL once more, whose first statement may
\* still be on its way.
RedisAnswers(c, ok) ==
    CASE Awaited(c) /\ (ok \/ c.write.op = "delete") -> Fulfilled("redis") /\ UNCHANGED <<statements, left>>
      [] Awaited(c) /\ ~(ok \/ c.write.op = "delete") ->
            /\ asked' = [asked EXCEPT !.awaits = {"again"}]
            /\ statements' = statements \cup {Statement(c.write, "again")}
            /\ GoesOnWithout("postgres") /\ UNCHANGED promised
      [] OTHER -> UNCHANGED <<asked, statements, promised, left>>

Reading(c) == c.write.op # "save" /\ c.existing = NoRelay

\* updateRelay and deleteRelay read first, and send their pipeline when the
\* answer is there; an update of a relay that is not cached throws.
RedisReads ==
    /\ wire # <<>> /\ Reading(Head(wire))
    /\ LET c == Head(wire) IN
       IF cached = NoRelay
       THEN wire' = Tail(wire) /\ RedisAnswers(c, c.write.op = "delete")
       ELSE /\ wire' = Append(Tail(wire), [c EXCEPT !.existing = cached])
            /\ UNCHANGED <<asked, statements, promised, left>>
    /\ UNCHANGED <<storeVars, calls, failed, cut>>

RedisWrites ==
    /\ wire # <<>> /\ ~Reading(Head(wire))
    /\ Execute(Head(wire), Pipeline(Head(wire)))
    /\ wire' = Tail(wire)
    /\ RedisAnswers(Head(wire), TRUE)
    /\ UNCHANGED <<row, calls, failed, cut>>

\* The connection breaks, before or after any of the commands, or single commands
\* err and the others do not.  Such errors are in the result of the pipeline, at
\* which the code does not look: it may be answered as if all had been well.
RedisFails ==
    /\ wire # <<>> /\ failed < MaxFailures /\ failed' = failed + 1
    /\ \/ UNCHANGED <<cached, expires, indexed, pendingSet, cut>>
       \/ /\ ~Reading(Head(wire))
          /\ \E done \in SUBSET Pipeline(Head(wire)) :
                /\ Execute(Head(wire), done)
                /\ cut' = (cut \/ done # Pipeline(Head(wire)))
    /\ wire' = Tail(wire)
    /\ \E ok \in {FALSE, ~Reading(Head(wire))} : RedisAnswers(Head(wire), ok)
    /\ UNCHANGED <<row, calls>>

\* The key goes, the sets stay.
Expires ==
    /\ cached # NoRelay /\ expires
    /\ cached' = NoRelay /\ expires' = FALSE
    /\ UNCHANGED <<row, indexed, pendingSet, asked, statements, wire, promised, calls, failed, left, cut>>

HybridNext ==
    \/ Ask \/ ReadThrough
    \/ \E s \in statements : PostgresWrites(s) \/ PostgresFails(s) \/ SyncReads(s)
    \/ RedisReads \/ RedisWrites \/ RedisFails
    \/ Expires

HybridSpec == HybridInit /\ [][HybridNext]_hybridVars
-----------------------------------------------------------------------------
\* A cached relay is in the set of its status, and in the pending set if it is
\* under way, however background saves, updates that read before them and lost
\* answers follow each other, so that a query by status misses none: unless a
\* call went on while its commands were under way, and they land on later ones,
\* or a pipeline has taken effect in part, which nothing repairs.
CachedIsIndexed ==
    cached # NoRelay /\ "redis" \notin left /\ ~cut =>
        /\ cached.status \in indexed
        /\ cached.status \in Active => pendingSet

\* Between calls the row is what the answers promised, failures and repetitions
\* included, unless a call went on while its statement was under way.
DurableUnlessLeft == asked = NoCall /\ "postgres" \notin left => row \in promised
=============================================================================
