------------------------ MODULE MoreComponentsProofs ------------------------
(***************************************************************************)
(* What holds of the components that MoreComponents checks, for every value *)
(* of their constants.                                                      *)
(***************************************************************************)
EXTENDS MultiHopTransfer, Migrations, ConnectionManager, RequestThrottle, VaultSecrets, FiniteSums,
        FunctionTheorems, TLAPS

-----------------------------------------------------------------------------
(* When the hops of a transfer time out.                                    *)

IsRoute(w) == w # NoRoute => Len(w) \in Nat /\ Len(w) >= 2

\* Timeouts that return the tokens before the deadline, each before the last.
Returns(ts, timelock) ==
    /\ ts # << >> /\ ts[1] < timelock
    /\ \A i \in 1 .. Len(ts) - 1 : ts[i] > ts[i + 1]

\* Timeouts computed at some moment until now, which are good ones if two units
\* of time per hop were left at that moment.
Cascade(ts, timelock, now) ==
    \E at \in Nat, share \in Int, hops \in 1 .. MaxTransferHops :
        /\ at <= now
        /\ ts = [i \in 1 .. hops |-> at + share * (hops - i + 1)]
        /\ timelock - at >= 2 * hops => share >= 1 /\ at + share * hops < timelock

Statuses == {"pending", "relaying", "completed"}
Stages == {"event", "channel", "plan", "track", "send", "sleep", "completed", "failed"}

HopsInv ==
    /\ clock \in Nat
    /\ \A k \in DOMAIN routeCache : IsRoute(routeCache[k])
    /\ relay \in [Relays -> [request : Requests, pc : Stages, status : Statuses,
                             attempts : Nat, fetching : BOOLEAN, timeouts : Seq(Int)]]
    /\ \A r \in Relays :
          /\ relay[r].pc = "track" => Cascade(relay[r].timeouts, relay[r].request.timelock, clock)
          /\ relay[r].pc = "send" => Returns(relay[r].timeouts, relay[r].request.timelock)
    /\ \A p \in packets :
          p.relay \in Relays /\ Returns(p.timeouts, relay[p.relay].request.timelock)

\* What is left for a hop after two divisions is enough for it and not too much.
LEMMA ShareFits ==
    ASSUME NEW a \in Int, NEW h \in Nat \ {0}, a >= 2 * h,
           NEW s \in Int, s = (a \div h) \div 2 \/ (s = HopTimeout /\ HopTimeout <= (a \div h) \div 2)
    PROVE  s >= 1 /\ s * h < a
<1>1. HopTimeout \in Nat \ {0}
  BY MultiHopAssumption
<1> DEFINE q == a \div h
           m == q \div 2
<1>2. q \in Int /\ q * h <= a /\ a < (q + 1) * h
  OBVIOUS
<1>3. q >= 2
  <2>1. SUFFICES ASSUME q + 1 <= 2 PROVE FALSE
    BY <1>2
  <2>2. (q + 1) * h <= 2 * h
    BY <1>2, <2>1
  <2>3. QED BY <1>2, <2>2
<1> HIDE DEF q
<1>4. m \in Int /\ m >= 1 /\ 2 * m <= q
  BY <1>2, <1>3
<1>5. s <= m /\ s >= 1
  BY <1>1, <1>4 DEF q
<1> HIDE DEF m
<1>6. s * h <= m * h /\ (2 * m) * h <= q * h
  BY <1>2, <1>4, <1>5
<1>7. m * h >= 1 /\ (2 * m) * h = 2 * (m * h) /\ m * h \in Int /\ s * h \in Int
  BY <1>4
<1>8. QED BY <1>2, <1>5, <1>6, <1>7

LEMMA RequestFits ==
    ASSUME NEW q \in Requests
    PROVE  q.source # q.dest /\ q.timelock \in Nat
BY MultiHopAssumption

LEMMA TimeoutsCascade ==
    ASSUME HopsInv, NEW q \in Requests, NEW hops \in 1 .. MaxTransferHops
    PROVE  Cascade(Timeouts(q.timelock, hops), q.timelock, clock) /\ Timeouts(q.timelock, hops) \in Seq(Int)
<1>1. clock \in Nat /\ q.timelock \in Nat /\ MaxTransferHops \in Nat \ {0} /\ HopTimeout \in Nat \ {0}
  BY RequestFits, MultiHopAssumption DEF HopsInv
<1> DEFINE s == Share(q.timelock, hops)
           a == q.timelock - clock
<1>2. a \in Int /\ hops \in Nat \ {0} /\ (a \div hops) \div 2 \in Int
  BY <1>1
<1>3. s \in Int /\ (s = (a \div hops) \div 2 \/ (s = HopTimeout /\ HopTimeout <= (a \div hops) \div 2))
  BY <1>1, <1>2 DEF Share, Half
<1>4. Timeouts(q.timelock, hops) = [i \in 1 .. hops |-> clock + s * (hops - i + 1)]
  BY DEF Timeouts
<1> HIDE DEF s
<1>5. a >= 2 * hops => s >= 1 /\ s * hops < a
  BY <1>2, <1>3, ShareFits
<1>6. Cascade(Timeouts(q.timelock, hops), q.timelock, clock)
  <2>1. q.timelock - clock >= 2 * hops => s >= 1 /\ clock + s * hops < q.timelock
    <3>1. s * hops \in Int
      BY <1>2, <1>3
    <3>2. QED BY <1>1, <1>5, <3>1
  <2>2. SUFFICES \E at \in Nat, share \in Int, n \in 1 .. MaxTransferHops :
            /\ at <= clock
            /\ Timeouts(q.timelock, hops) = [i \in 1 .. n |-> at + share * (n - i + 1)]
            /\ q.timelock - at >= 2 * n => share >= 1 /\ at + share * n < q.timelock
    BY DEF Cascade
  <2> clock \in Nat /\ s \in Int
    BY <1>1, <1>3
  <2>3. WITNESS clock \in Nat, s \in Int, hops \in 1 .. MaxTransferHops
  <2>4. QED BY <1>1, <1>4, <2>1
<1>7. \A i \in 1 .. hops : clock + s * (hops - i + 1) \in Int
  BY <1>1, <1>2, <1>3
<1>8. QED BY <1>2, <1>4, <1>6, <1>7

\* What was computed early is good when the time is validated later, for a route
\* of whatever length.
LEMMA CascadeReturns ==
    ASSUME HopsInv, NEW q \in Requests, NEW ts, Cascade(ts, q.timelock, clock),
           NEW route, route # NoRoute, IsRoute(route), InTime(q.timelock, Hops(route))
    PROVE  Returns(ts, q.timelock)
<1>1. /\ clock \in Nat /\ q.timelock \in Nat /\ MaxTransferHops \in Nat \ {0}
      /\ TimelockReductionPerHop \in Nat /\ MinTimeBuffer \in Nat
      /\ TimelockReductionPerHop + MinTimeBuffer >= 2 * MaxTransferHops
  BY RequestFits, MultiHopAssumption DEF HopsInv
<1>2. 1 \in 1 .. Hops(route)
  BY DEF IsRoute, Hops
<1>3. q.timelock - TimelockReductionPerHop * 1 - clock >= MinTimeBuffer
  BY <1>2 DEF InTime
<1>4. q.timelock - clock >= 2 * MaxTransferHops
  BY <1>1, <1>3
<1>5. PICK at \in Nat, share \in Int, hops \in 1 .. MaxTransferHops :
          /\ at <= clock
          /\ ts = [i \in 1 .. hops |-> at + share * (hops - i + 1)]
          /\ q.timelock - at >= 2 * hops => share >= 1 /\ at + share * hops < q.timelock
  BY DEF Cascade
<1>6. share >= 1 /\ at + share * hops < q.timelock
  BY <1>1, <1>4, <1>5
<1>7. Len(ts) = hops /\ hops \in Nat \ {0}
  BY <1>1, <1>5
<1>8. ts # << >> /\ ts[1] < q.timelock
  BY <1>5, <1>6, <1>7
<1>9. ASSUME NEW i \in 1 .. hops - 1
      PROVE  ts[i] > ts[i + 1]
  <2>1. i \in 1 .. hops /\ i + 1 \in 1 .. hops /\ hops - i \in Int
    BY <1>7
  <2>2. ts[i] = at + share * (hops - i + 1) /\ ts[i + 1] = at + share * (hops - (i + 1) + 1)
    BY <1>5, <2>1
  <2>3. share * (hops - i + 1) = share * (hops - i) + share /\ hops - (i + 1) + 1 = hops - i
    BY <1>7, <2>1
  <2>4. share * (hops - i) \in Int
    BY <2>1
  <2>5. QED BY <1>6, <2>2, <2>3, <2>4
<1>10. QED BY <1>7, <1>8, <1>9 DEF Returns

\* One relay moves: what is to be seen of it is that its request stays and what its
\* new stage promises of the timeouts.
LEMMA MoveKeeps ==
    ASSUME HopsInv, NEW r \in Relays,
           NEW v \in [request : Requests, pc : Stages, status : Statuses,
                      attempts : Nat, fetching : BOOLEAN, timeouts : Seq(Int)],
           v.request = relay[r].request,
           v.pc = "track" => Cascade(v.timeouts, v.request.timelock, clock),
           v.pc = "send" => Returns(v.timeouts, v.request.timelock),
           relay' = [relay EXCEPT ![r] = v],
           clock' = clock, \A k \in DOMAIN routeCache' : IsRoute(routeCache'[k]),
           \A p \in packets' : p \in packets \/
               (p.relay = r /\ Returns(p.timeouts, relay[r].request.timelock))
    PROVE  HopsInv'
<1>1. relay' \in [Relays -> [request : Requests, pc : Stages, status : Statuses,
                             attempts : Nat, fetching : BOOLEAN, timeouts : Seq(Int)]]
  BY DEF HopsInv
<1>2. \A s \in Relays : relay'[s].request = relay[s].request
  BY DEF HopsInv
<1>3. ASSUME NEW s \in Relays
      PROVE  /\ relay'[s].pc = "track" =>
                    Cascade(relay'[s].timeouts, relay'[s].request.timelock, clock)
             /\ relay'[s].pc = "send" => Returns(relay'[s].timeouts, relay'[s].request.timelock)
  <2>1. relay'[s] = IF s = r THEN v ELSE relay[s]
    BY DEF HopsInv
  <2>2. QED BY <2>1 DEF HopsInv
<1>4. \A p \in packets' : p.relay \in Relays /\ Returns(p.timeouts, relay'[p.relay].request.timelock)
  BY <1>2 DEF HopsInv
<1>5. QED BY <1>1, <1>3, <1>4 DEF HopsInv

\* The part of the invariant that an answer of findRoutes touches.
LEMMA FoundKeeps ==
    ASSUME HopsInv, NEW r \in Relays, NEW route, IsRoute(route), Found(r, route),
           clock' = clock, \A k \in DOMAIN routeCache' : IsRoute(routeCache'[k])
    PROVE  HopsInv'
<1> DEFINE q == relay[r].request
<1>1. /\ relay[r] \in [request : Requests, pc : Stages, status : Statuses,
                       attempts : Nat, fetching : BOOLEAN, timeouts : Seq(Int)]
      /\ q \in Requests
  BY DEF HopsInv
<1>2. packets' = packets
  BY DEF Found
<1>3. PICK pc \in Stages, ts \in Seq(Int) :
         /\ relay' = [relay EXCEPT ![r] = [@ EXCEPT !.pc = pc, !.fetching = FALSE, !.timeouts = ts]]
         /\ pc = "track" => Cascade(ts, q.timelock, clock)
         /\ pc = "send" => Returns(ts, q.timelock)
  <2>1. CASE ChannelChosen(r)
    <3>1. relay' = [relay EXCEPT ![r] = [@ EXCEPT !.pc = "plan", !.fetching = FALSE,
                                                   !.timeouts = relay[r].timeouts]]
      BY <1>1, <2>1 DEF ChannelChosen, Goes, HopsInv
    <3>2. QED BY <1>1, <3>1 DEF Stages
  <2>2. CASE Planned(r, route)
    <3> DEFINE ts == Timeouts(q.timelock, Hops(route))
    <3>1. relay' = [relay EXCEPT ![r] = [@ EXCEPT !.pc = "track", !.fetching = FALSE,
                                                   !.timeouts = ts]]
      BY <1>1, <2>2 DEF Planned, Goes, HopsInv
    <3>2. Hops(route) \in 1 .. MaxTransferHops
      BY <2>2, MultiHopAssumption DEF Planned, CanPlan, Hops, IsRoute
    <3>3. Cascade(ts, q.timelock, clock) /\ ts \in Seq(Int)
      BY <1>1, <3>2, TimeoutsCascade
    <3>4. QED BY <3>1, <3>3 DEF Stages
  <2>3. CASE Validated(r, route)
    <3>1. relay' = [relay EXCEPT ![r] = [@ EXCEPT !.pc = "send", !.fetching = FALSE,
                                                   !.timeouts = relay[r].timeouts]]
      BY <1>1, <2>3 DEF Validated, Goes, HopsInv
    <3>2. Cascade(relay[r].timeouts, q.timelock, clock)
      BY <2>3 DEF Validated, HopsInv
    <3>3. route # NoRoute /\ InTime(q.timelock, Hops(route))
      BY <2>3 DEF Validated, CanSend
    <3>4. Returns(relay[r].timeouts, q.timelock)
      BY <1>1, <3>2, <3>3, CascadeReturns
    <3>5. QED BY <1>1, <3>1, <3>4 DEF Stages
  <2>4. CASE \E w : Fails(r, w)
    <3>1. PICK pc \in {"sleep", "failed"} : relay' = Goes(r, pc)
      BY <2>4 DEF Fails
    <3>2. relay' = [relay EXCEPT ![r] = [@ EXCEPT !.pc = pc, !.fetching = FALSE,
                                                   !.timeouts = relay[r].timeouts]]
      BY <1>1, <3>1 DEF Goes, HopsInv
    <3>3. QED BY <1>1, <3>1, <3>2 DEF Stages
  <2>5. QED BY <2>1, <2>2, <2>3, <2>4 DEF Found
<1> DEFINE v == [relay[r] EXCEPT !.pc = pc, !.fetching = FALSE, !.timeouts = ts]
<1>4. /\ v \in [request : Requests, pc : Stages, status : Statuses,
                attempts : Nat, fetching : BOOLEAN, timeouts : Seq(Int)]
      /\ v.request = q /\ v.pc = pc /\ v.timeouts = ts
  BY <1>1, <1>3
<1>5. relay' = [relay EXCEPT ![r] = v]
  BY <1>3
<1> HIDE DEF v
<1>6. QED BY <1>2, <1>3, <1>4, <1>5, MoveKeeps
LEMMA SearchFinds ==
    ASSUME NEW links, NEW from, NEW to, from # to, NEW route \in CalculateRoutes(links, from, to)
    PROVE  IsRoute(route)
<1>1. CASE route = NoRoute
  BY <1>1 DEF IsRoute
<1>2. CASE route \in Walks(links, from, to)
  <2> DEFINE S == {from, to} \cup UNION {{l[1], l[2]} : l \in links}
  <2>1. PICK n \in 1 .. MaxPathLength : route \in [1 .. n -> S]
    BY <1>2 DEF Walks
  <2>2. MaxPathLength \in Nat /\ n \in Nat /\ n >= 1
    BY <2>1, MultiHopAssumption
  <2>3. route \in Seq(S) /\ Len(route) = n
    BY <2>1, <2>2
  <2>4. route[1] = from /\ route[Len(route)] = to
    BY <1>2 DEF Walks
  <2>5. n # 1
    BY <2>3, <2>4
  <2>6. QED BY <2>2, <2>3, <2>5 DEF IsRoute
<1>3. QED BY <1>1, <1>2 DEF CalculateRoutes

LEMMA FoundAmongKeeps ==
    ASSUME HopsInv, NEW r \in Relays, NEW links, FoundAmong(r, links), clock' = clock
    PROVE  HopsInv'
<1>1. relay[r].request \in Requests
  BY DEF HopsInv
<1>2. Key(r)[1] # Key(r)[2]
  BY <1>1, RequestFits DEF Key
<1>3. PICK route \in CalculateRoutes(links, Key(r)[1], Key(r)[2]) :
          routeCache' = Cached(Key(r), route) /\ Found(r, route)
  BY DEF FoundAmong
<1>4. IsRoute(route)
  BY <1>2, SearchFinds
<1>5. \A k \in DOMAIN routeCache' : IsRoute(routeCache'[k])
  BY <1>3, <1>4 DEF Cached, HopsInv
<1>6. QED BY <1>3, <1>4, <1>5, FoundKeeps

LEMMA HopsInit == MultiHopInit => HopsInv
<1> SUFFICES ASSUME MultiHopInit PROVE HopsInv
  OBVIOUS
<1>1. \A r \in Relays : \E q \in Requests : relay[r] = New(q)
  BY DEF MultiHopInit
<1>2. \A q \in Requests :
        New(q) \in [request : Requests, pc : Stages, status : Statuses,
                    attempts : Nat, fetching : BOOLEAN, timeouts : Seq(Int)]
  BY DEF New, Stages, Statuses
<1>3. relay \in [Relays -> [request : Requests, pc : Stages, status : Statuses,
                            attempts : Nat, fetching : BOOLEAN, timeouts : Seq(Int)]]
  <2>1. relay \in [Relays -> {New(q) : q \in Requests}]
    BY DEF MultiHopInit
  <2>2. QED BY <1>2, <2>1
<1>4. \A r \in Relays : relay[r].pc = "event"
  <2>1. \A q \in Requests : New(q).pc = "event"
    BY DEF New
  <2>2. QED BY <1>1, <2>1
<1>5. QED BY <1>3, <1>4 DEF MultiHopInit, HopsInv

LEMMA HopsNext == HopsInv /\ [MultiHopNext]_multiHopVars => HopsInv'
<1> SUFFICES ASSUME HopsInv, [MultiHopNext]_multiHopVars PROVE HopsInv'
  OBVIOUS
<1> DEFINE Record == [request : Requests, pc : Stages, status : Statuses,
                      attempts : Nat, fetching : BOOLEAN, timeouts : Seq(Int)]
<1>1. ASSUME NEW r \in Relays, RelayAttempt(r) PROVE HopsInv'
  <2> DEFINE v == [relay[r] EXCEPT !.pc = "channel", !.status = "relaying",
                        !.attempts = relay[r].attempts + 1]
  <2>1. relay[r] \in Record /\ relay[r].attempts + 1 \in Nat
    BY DEF HopsInv
  <2>2. v \in Record /\ v.request = relay[r].request /\ v.pc = "channel"
    BY <2>1 DEF Stages, Statuses
  <2>3. relay' = [relay EXCEPT ![r] = v] /\ UNCHANGED <<clock, routeCache, packets>>
    BY <1>1 DEF RelayAttempt, discoveryVars, HopsInv
  <2> HIDE DEF v
  <2>4. QED BY <2>2, <2>3, MoveKeeps DEF HopsInv
<1>2. ASSUME NEW r \in Relays, AnsweredFromCache(r) PROVE HopsInv'
  <2>1. Key(r) \in DOMAIN routeCache /\ Found(r, routeCache[Key(r)]) /\ UNCHANGED <<clock, routeCache>>
    BY <1>2 DEF AnsweredFromCache, discoveryVars
  <2>2. QED BY <2>1, FoundKeeps DEF HopsInv
<1>3. ASSUME NEW r \in Relays, Calculate(r) \/ RegistryListsChannels(r) \/ RegistryFails(r)
      PROVE  HopsInv'
  BY <1>3, FoundAmongKeeps DEF Calculate, RegistryListsChannels, RegistryFails
<1>4. ASSUME NEW r \in Relays, AskRegistry(r) PROVE HopsInv'
  <2> DEFINE v == [relay[r] EXCEPT !.fetching = TRUE]
  <2>1. relay[r] \in Record
    BY DEF HopsInv
  <2>2. v \in Record /\ v.request = relay[r].request /\ v.pc = relay[r].pc /\ v.timeouts = relay[r].timeouts
    BY <2>1
  <2>3. relay' = [relay EXCEPT ![r] = v] /\ UNCHANGED <<clock, routeCache, packets>>
    BY <1>4 DEF AskRegistry, discoveryVars
  <2> HIDE DEF v
  <2>4. QED BY <2>2, <2>3, MoveKeeps DEF HopsInv
<1>5. ASSUME NEW r \in Relays, Broadcast(r) \/ BroadcastFails(r) PROVE HopsInv'
  <2>1. relay[r] \in Record
    BY DEF HopsInv
  <2>2. Returns(relay[r].timeouts, relay[r].request.timelock)
    BY <1>5 DEF Broadcast, BroadcastFails, HopsInv
  <2>3. /\ packets' \in {packets, packets \cup {Packet(r)}}
        /\ UNCHANGED <<clock, routeCache>>
    BY <1>5 DEF Broadcast, BroadcastFails, discoveryVars
  <2>4. \A p \in packets' : p \in packets \/
            (p.relay = r /\ Returns(p.timeouts, relay[r].request.timelock))
    BY <2>2, <2>3 DEF Packet
  <2>5. PICK v : /\ relay' = [relay EXCEPT ![r] = v]
                 /\ v \in Record /\ v.request = relay[r].request
                 /\ v.pc \in {"completed", "sleep", "failed"}
    <3>1. CASE Broadcast(r)
      <4> DEFINE v == [relay[r] EXCEPT !.pc = "completed", !.fetching = FALSE, !.status = "completed"]
      <4>1. v \in Record /\ v.request = relay[r].request /\ v.pc = "completed"
        BY <2>1 DEF Stages, Statuses
      <4>2. relay' = [relay EXCEPT ![r] = v]
        BY <2>1, <3>1 DEF Broadcast, Goes, HopsInv
      <4> HIDE DEF v
      <4>3. QED BY <4>1, <4>2
    <3>2. CASE BroadcastFails(r)
      <4>1. PICK pc \in {"sleep", "failed"} : relay' = Goes(r, pc)
        BY <3>2 DEF BroadcastFails, Fails
      <4> DEFINE v == [relay[r] EXCEPT !.pc = pc, !.fetching = FALSE]
      <4>2. v \in Record /\ v.request = relay[r].request /\ v.pc = pc
        BY <2>1, <4>1 DEF Stages
      <4>3. relay' = [relay EXCEPT ![r] = v]
        BY <2>1, <4>1 DEF Goes, HopsInv
      <4> HIDE DEF v
      <4>4. QED BY <4>1, <4>2, <4>3
    <3>3. QED BY <1>5, <3>1, <3>2
  <2>6. QED BY <2>3, <2>4, <2>5, MoveKeeps DEF HopsInv
<1>6. ASSUME NetworkChanges \/ ClockTicks \/ UNCHANGED multiHopVars PROVE HopsInv'
  <2>1. /\ UNCHANGED <<routeCache, relay, packets>>
        /\ clock' = clock \/ clock' = clock + 1
    BY <1>6 DEF NetworkChanges, ClockTicks, multiHopVars, discoveryVars
  <2>2. clock' \in Nat /\ clock <= clock'
    BY <2>1 DEF HopsInv
  <2>3. ASSUME NEW ts, NEW timelock, Cascade(ts, timelock, clock)
        PROVE  Cascade(ts, timelock, clock')
    <3>1. \A at \in Nat : at <= clock => at <= clock'
      BY <2>2 DEF HopsInv
    <3>2. QED BY <2>3, <3>1, Zenon DEF Cascade
  <2>4. QED BY <2>1, <2>2, <2>3 DEF HopsInv
<1>7. QED BY <1>1, <1>2, <1>3, <1>4, <1>5, <1>6 DEF MultiHopNext

\* For all timelocks, caches and route lengths with two units of time per hop in
\* the validation, the hops of every packet return the tokens in time.
THEOREM HopsAlwaysReturn == MultiHopSpec => []HopsReturnInTime
<1>1. HopsInv => HopsReturnInTime
  BY DEF HopsInv, HopsReturnInTime, Returns
<1>2. QED BY <1>1, HopsInit, HopsNext, PTL DEF MultiHopSpec

-----------------------------------------------------------------------------
(* A migrator needs one connection.                                         *)

Commands == {"migrate", "rollback", "check"}
\* A helper of migrate and rollback waits for a client or has the only one.
WithoutClient == {"lock", "list", "apply", "unlock"}
WithClient == {"insert", "look", "force", "read", "sql", "record", "commit", "delete"}
InCheck == {"checking", "version", "reading"}

Process(pc, command, plan, clients, run) ==
    [pc : {pc}, command : {command}, plan : {plan}, clients : {clients}, run : {run}]

InPlace(pc, command, clients) ==
    \/ pc = "ended" /\ clients = 0
    \/ command # "check" /\ pc \in WithoutClient /\ clients = 0
    \/ command # "check" /\ pc \in WithClient /\ clients = 1
    \/ command = "check" /\ pc = "check" /\ clients = 0
    \/ command = "check" /\ pc \in InCheck

IsProcess(m) ==
    /\ m \in Process(m.pc, m.command, m.plan, m.clients, m.run)
    /\ InPlace(m.pc, m.command, m.clients)

MigrationInv ==
    /\ migrator = [p \in Migrators |-> migrator[p]]
    /\ \A p \in Migrators : IsProcess(migrator[p])

\* A helper goes on with the client it has.
LEMMA ProcessSteps ==
    ASSUME NEW m, IsProcess(m), NEW pc, InPlace(pc, m.command, m.clients)
    PROVE  IsProcess([m EXCEPT !.pc = pc])
<1> DEFINE n == [m EXCEPT !.pc = pc]
<1>1. m \in Process(m.pc, m.command, m.plan, m.clients, m.run)
  BY DEF IsProcess
<1>2. n \in Process(pc, m.command, m.plan, m.clients, m.run)
  BY <1>1 DEF Process
<1>3. n.pc = pc /\ n.command = m.command /\ n.plan = m.plan /\ n.clients = m.clients /\ n.run = m.run
  BY <1>2 DEF Process
<1> HIDE DEF n
<1>4. IsProcess(n)
  BY <1>2, <1>3 DEF IsProcess
<1>5. QED BY <1>4 DEF n

\* A helper gets its client, or gives it back.
LEMMA ProcessConnects ==
    ASSUME NEW m, IsProcess(m), NEW pc, NEW clients, InPlace(pc, m.command, clients)
    PROVE  IsProcess([m EXCEPT !.pc = pc, !.clients = clients])
<1> DEFINE n == [m EXCEPT !.pc = pc, !.clients = clients]
<1>1. m \in Process(m.pc, m.command, m.plan, m.clients, m.run)
  BY DEF IsProcess
<1>2. n \in Process(pc, m.command, m.plan, clients, m.run)
  BY <1>1 DEF Process
<1>3. n.pc = pc /\ n.command = m.command /\ n.plan = m.plan /\ n.clients = clients /\ n.run = m.run
  BY <1>2 DEF Process
<1> HIDE DEF n
<1>4. IsProcess(n)
  BY <1>2, <1>3 DEF IsProcess
<1>5. QED BY <1>4 DEF n

\* The plan changes as the client is given back.
LEMMA ProcessPlans ==
    ASSUME NEW m, IsProcess(m), NEW pc, NEW clients, NEW plan, InPlace(pc, m.command, clients)
    PROVE  IsProcess([m EXCEPT !.plan = plan, !.clients = clients, !.pc = pc])
<1> DEFINE n == [m EXCEPT !.plan = plan, !.clients = clients, !.pc = pc]
<1>1. m \in Process(m.pc, m.command, m.plan, m.clients, m.run)
  BY DEF IsProcess
<1>2. n \in Process(pc, m.command, plan, clients, m.run)
  BY <1>1 DEF Process
<1>3. n.pc = pc /\ n.command = m.command /\ n.plan = plan /\ n.clients = clients /\ n.run = m.run
  BY <1>2 DEF Process
<1> HIDE DEF n
<1>4. IsProcess(n)
  BY <1>2, <1>3 DEF IsProcess
<1>5. QED BY <1>4 DEF n

\* A command starts with no client.
LEMMA ProcessRests ==
    ASSUME NEW pc, NEW command, NEW run, InPlace(pc, command, 0)
    PROVE  IsProcess([Resting EXCEPT !.pc = pc, !.command = command, !.run = run])
<1> DEFINE n == [Resting EXCEPT !.pc = pc, !.command = command, !.run = run]
<1>1. Resting \in Process("ended", "migrate", {}, 0, 0)
  BY DEF Process, Resting
<1> HIDE DEF Resting
<1>2. n \in Process(pc, command, {}, 0, run)
  BY <1>1 DEF Process
<1>3. n.pc = pc /\ n.command = command /\ n.plan = {} /\ n.clients = 0 /\ n.run = run
  BY <1>2 DEF Process
<1> HIDE DEF n
<1>4. IsProcess(n)
  BY <1>2, <1>3 DEF IsProcess
<1>5. QED BY <1>4 DEF n

\* A step of one process leaves the others where they are.
LEMMA ProcessMoves ==
    ASSUME MigrationInv, NEW p \in Migrators, NEW m, IsProcess(m), migrator' = [migrator EXCEPT ![p] = m]
    PROVE  MigrationInv'
BY DEF MigrationInv

\* Every step of a migrator keeps its helpers apart.
LEMMA MigrationNextInv == MigrationInv /\ [MigrationNext]_migrationVars => MigrationInv'
<1> SUFFICES ASSUME MigrationInv, [MigrationNext]_migrationVars PROVE MigrationInv'
  OBVIOUS
<1>1. ASSUME NEW p \in Migrators
      PROVE  /\ IsProcess(migrator[p])
             /\ InPlace(migrator[p].pc, migrator[p].command, migrator[p].clients)
  BY DEF MigrationInv, IsProcess
<1>2. ASSUME NEW p \in Migrators, NEW pc, Steps(p, pc),
             InPlace(pc, migrator[p].command, migrator[p].clients)
      PROVE  MigrationInv'
  <2> DEFINE m == [migrator[p] EXCEPT !.pc = pc]
  <2>1. IsProcess(m)
    BY <1>1, <1>2, ProcessSteps
  <2>2. migrator' = [migrator EXCEPT ![p] = m]
    BY <1>2 DEF Steps, MigrationInv
  <2> HIDE DEF m
  <2>3. QED BY <2>1, <2>2, ProcessMoves
<1>3. ASSUME NEW p \in Migrators, NEW pc, Releases(p, pc), migrator[p].pc \in WithClient,
             pc \in {"ended", "lock", "list", "unlock"}
      PROVE  MigrationInv'
  <2> DEFINE m == [migrator[p] EXCEPT !.pc = pc, !.clients = migrator[p].clients - 1]
  <2>1. InPlace(pc, migrator[p].command, migrator[p].clients - 1)
    BY <1>1, <1>3 DEF InPlace, WithClient, WithoutClient, InCheck
  <2>2. IsProcess(m)
    BY <1>1, <2>1, ProcessConnects
  <2>3. migrator' = [migrator EXCEPT ![p] = m]
    BY <1>3 DEF Releases, MigrationInv
  <2> HIDE DEF m
  <2>4. QED BY <2>2, <2>3, ProcessMoves
<1>4. ASSUME NEW p \in Migrators, NEW command \in Commands, Command(p, command)
      PROVE  MigrationInv'
  <2> DEFINE pc == IF command = "check" THEN "check" ELSE "lock"
             m == [Resting EXCEPT !.pc = pc, !.command = command, !.run = migrator[p].run + 1]
  <2>1. InPlace(pc, command, 0)
    BY DEF InPlace, WithoutClient, InCheck
  <2>2. migrator' = [migrator EXCEPT ![p] = m]
    BY <1>4 DEF Command
  <2> HIDE DEF pc
  <2>3. IsProcess(m)
    BY <2>1, ProcessRests
  <2> HIDE DEF m
  <2>4. QED BY <2>2, <2>3, ProcessMoves
<1>5. ASSUME NEW p \in Migrators, Connect(p) PROVE MigrationInv'
  <2> DEFINE pc == Waits[migrator[p].pc]
             m == [migrator[p] EXCEPT !.pc = pc, !.clients = migrator[p].clients + 1]
  <2>1. migrator[p].pc \in {"lock", "list", "apply", "unlock", "check", "version"}
    BY <1>5 DEF Connect, Waits
  <2>2. InPlace(pc, migrator[p].command, migrator[p].clients + 1)
    <3>1. CASE migrator[p].pc \in {"lock", "list", "apply", "unlock"}
      <4>1. pc \in {"insert", "read", "sql", "delete"}
        BY <3>1 DEF Waits
      <4>2. migrator[p].clients = 0 /\ migrator[p].command # "check"
        BY <1>1, <3>1 DEF InPlace, WithClient, WithoutClient, InCheck
      <4>3. QED BY <4>1, <4>2 DEF InPlace, WithClient
    <3>2. CASE migrator[p].pc \in {"check", "version"}
      <4>1. pc \in {"checking", "reading"}
        BY <3>2 DEF Waits
      <4>2. migrator[p].command = "check"
        BY <1>1, <3>2 DEF InPlace, WithClient, WithoutClient
      <4>3. QED BY <4>1, <4>2 DEF InPlace, InCheck
    <3>3. QED BY <2>1, <3>1, <3>2
  <2>3. migrator' = [migrator EXCEPT ![p] = m]
    BY <1>5 DEF Connect, MigrationInv
  <2> HIDE DEF pc
  <2>4. IsProcess(m)
    BY <1>1, <2>2, ProcessConnects
  <2> HIDE DEF m
  <2>5. QED BY <2>3, <2>4, ProcessMoves
<1>6. ASSUME NEW p \in Migrators,
             InsertLock(p) \/ LookAtLock(p) \/ ForceRelease(p) \/ ReleaseLock(p) \/ StatementFails(p)
      PROVE  MigrationInv'
  <2>1. CASE Steps(p, "look") /\ migrator[p].pc = "insert"
    BY <1>1, <1>2, <2>1 DEF InPlace, WithoutClient, WithClient, InCheck
  <2>2. CASE Steps(p, "force") /\ migrator[p].pc = "look"
    BY <1>1, <1>2, <2>2 DEF InPlace, WithoutClient, WithClient, InCheck
  <2>3. CASE \E pc \in {"ended", "lock", "list", "unlock"} :
                 Releases(p, pc) /\ migrator[p].pc \in WithClient
    BY <1>3, <2>3
  <2>4. QED BY <1>6, <2>1, <2>2, <2>3
            DEF InsertLock, LookAtLock, ForceRelease, ReleaseLock, StatementFails, WithClient
<1>7. ASSUME NEW p \in Migrators, NEW plan, NEW pc \in {"unlock", "apply"},
             migrator[p].pc \in {"read", "commit"},
             migrator' = [migrator EXCEPT ![p].plan = plan, ![p].clients = migrator[p].clients - 1,
                                          ![p].pc = pc]
      PROVE  MigrationInv'
  <2> DEFINE m == [migrator[p] EXCEPT !.plan = plan, !.clients = migrator[p].clients - 1, !.pc = pc]
  <2>1. InPlace(pc, migrator[p].command, migrator[p].clients - 1)
    BY <1>1, <1>7 DEF InPlace, WithoutClient, WithClient, InCheck
  <2>2. IsProcess(m)
    BY <1>1, <2>1, ProcessPlans
  <2>3. migrator' = [migrator EXCEPT ![p] = m]
    BY <1>7 DEF MigrationInv
  <2> HIDE DEF m
  <2>4. QED BY <2>2, <2>3, ProcessMoves
<1>8. ASSUME NEW p \in Migrators, GetAppliedMigrations(p) PROVE MigrationInv'
  <2>1. PICK plan :
            migrator' = [migrator EXCEPT ![p].plan = plan, ![p].clients = migrator[p].clients - 1,
                                         ![p].pc = IF plan = {} THEN "unlock" ELSE "apply"]
    BY <1>8 DEF GetAppliedMigrations
  <2> DEFINE pc == IF plan = {} THEN "unlock" ELSE "apply"
  <2>2. migrator[p].pc = "read" /\ pc \in {"unlock", "apply"}
    BY <1>8 DEF GetAppliedMigrations
  <2>3. migrator' = [migrator EXCEPT ![p].plan = plan, ![p].clients = migrator[p].clients - 1,
                                     ![p].pc = pc]
    BY <2>1
  <2> HIDE DEF pc
  <2>4. QED BY <1>7, <2>2, <2>3
<1>9. ASSUME NEW p \in Migrators, CommitMigration(p) PROVE MigrationInv'
  <2> DEFINE left == migrator[p].plan \ {Version(p)}
             pc == IF migrator[p].plan = {Version(p)} THEN "unlock" ELSE "apply"
  <2>1. migrator' = [migrator EXCEPT ![p].plan = left, ![p].clients = migrator[p].clients - 1,
                                     ![p].pc = pc]
    BY <1>9 DEF CommitMigration, MigrationInv
  <2>2. migrator[p].pc = "commit" /\ pc \in {"unlock", "apply"}
    BY <1>9 DEF CommitMigration
  <2> HIDE DEF left, pc
  <2>3. QED BY <1>7, <2>1, <2>2
<1>10. ASSUME NEW p \in Migrators, MigrationSql(p) \/ RecordMigration(p) PROVE MigrationInv'
  <2>1. CASE Releases(p, "unlock") /\ migrator[p].pc \in WithClient
    BY <1>3, <2>1
  <2>2. CASE \E pc \in {"record", "commit"} : Steps(p, pc) /\ migrator[p].pc \in {"sql", "record"}
    BY <1>1, <1>2, <2>2 DEF InPlace, WithoutClient, WithClient, InCheck
  <2>3. QED BY <1>10, <2>1, <2>2 DEF MigrationSql, RecordMigration, WithClient
<1>11. ASSUME NEW p \in Migrators, ProcessDies(p) PROVE MigrationInv'
  <2> DEFINE m == [Resting EXCEPT !.run = migrator[p].run]
  <2>1. Resting \in Process("ended", "migrate", {}, 0, 0)
    BY DEF Process, Resting
  <2> HIDE DEF Resting
  <2>2. m \in Process("ended", "migrate", {}, 0, migrator[p].run)
    BY <2>1 DEF Process
  <2>3. m.pc = "ended" /\ m.command = "migrate" /\ m.plan = {} /\ m.clients = 0 /\ m.run = migrator[p].run
    BY <2>2 DEF Process
  <2>4. migrator' = [migrator EXCEPT ![p] = m]
    BY <1>11 DEF ProcessDies
  <2> HIDE DEF m
  <2>5. IsProcess(m)
    BY <2>2, <2>3 DEF IsProcess, InPlace, WithoutClient
  <2>6. QED BY <2>4, <2>5, ProcessMoves
<1>12. ASSUME NEW p \in Migrators, CheckIntegrity(p) \/ CheckEnds(p) PROVE MigrationInv'
  <2>1. CASE CheckIntegrity(p)
    BY <1>1, <1>2, <2>1 DEF CheckIntegrity, InPlace, WithoutClient, WithClient, InCheck
  <2>2. CASE CheckEnds(p)
    <3> DEFINE m == [migrator[p] EXCEPT !.pc = "ended", !.clients = 0]
    <3>1. InPlace("ended", migrator[p].command, 0)
      BY <1>1 DEF InPlace, WithoutClient
    <3>2. IsProcess(m)
      BY <1>1, <3>1, ProcessConnects
    <3>3. migrator' = [migrator EXCEPT ![p] = m]
      BY <2>2 DEF CheckEnds, MigrationInv
    <3> HIDE DEF m
    <3>4. QED BY <3>2, <3>3, ProcessMoves
  <2>3. QED BY <1>12, <2>1, <2>2
<1>13. ASSUME NEW p \in Migrators, NoClient(p) PROVE MigrationInv'
  <2>1. CASE Steps(p, "ended") /\ migrator[p].pc \in {"lock", "unlock", "check"}
    BY <1>1, <1>2, <2>1 DEF InPlace, WithoutClient, WithClient, InCheck
  <2>2. CASE Steps(p, "unlock") /\ migrator[p].pc \in {"list", "apply"}
    BY <1>1, <1>2, <2>2 DEF InPlace, WithoutClient, WithClient, InCheck
  <2>3. QED BY <1>13, <2>1, <2>2 DEF NoClient
<1>14. CASE HourPasses \/ UNCHANGED migrationVars
  BY <1>14 DEF HourPasses, migrationVars, MigrationInv
<1>15. QED
  BY <1>4, <1>5, <1>6, <1>8, <1>9, <1>10, <1>11, <1>12, <1>13, <1>14 DEF MigrationNext, Commands

\* One client per process is enough, whatever the pools' sizes, the number of
\* migrations and of processes: acquireLock never waits for the client it holds.
THEOREM OneClientIsEnough == MigrationSpec => []NeverWaitsForItself
<1>1. MigrationInit => MigrationInv
  <2> SUFFICES ASSUME MigrationInit PROVE MigrationInv
    OBVIOUS
  <2>1. Resting \in Process("ended", "migrate", {}, 0, 0)
    BY DEF Process, Resting
  <2>2. InPlace("ended", "migrate", 0)
    BY DEF InPlace, WithoutClient
  <2>3. /\ Resting.pc = "ended" /\ Resting.command = "migrate" /\ Resting.plan = {}
        /\ Resting.clients = 0 /\ Resting.run = 0
    BY DEF Resting
  <2>4. IsProcess(Resting)
    BY <2>1, <2>2, <2>3 DEF IsProcess
  <2>5. QED BY <2>4 DEF MigrationInit, MigrationInv
<1>2. MigrationInv => NeverWaitsForItself
  <2> SUFFICES ASSUME MigrationInv, NEW p \in Migrators, migrator[p].pc \in DOMAIN Waits,
                      migrator[p].command # "check"
               PROVE  migrator[p].clients < MigrationPool[p]
    BY DEF NeverWaitsForItself
  <2>1. InPlace(migrator[p].pc, migrator[p].command, migrator[p].clients)
    BY DEF MigrationInv, IsProcess
  <2>2. migrator[p].pc \in {"lock", "list", "apply", "unlock", "check", "version"}
    BY DEF Waits
  <2>3. migrator[p].clients = 0
    BY <2>1, <2>2 DEF InPlace, WithoutClient, WithClient
  <2>4. MigrationPool[p] \in Nat \ {0}
    BY MigrationAssumption
  <2>5. QED BY <2>3, <2>4
<1>3. QED BY <1>1, <1>2, MigrationNextInv, PTL DEF MigrationSpec

-----------------------------------------------------------------------------
(* The token to Vault outlasts its renewals.                                *)

LEMMA LongestIs ==
    ASSUME NEW a \in Int, NEW b \in Int
    PROVE  Longest(a, b) \in {a, b} /\ Longest(a, b) >= a /\ Longest(a, b) >= b
<1>1. \E x \in {a, b} : \A y \in {a, b} : x >= y
  OBVIOUS
<1>2. QED BY <1>1 DEF Longest, Max

LEMMA ShortestIs ==
    ASSUME NEW a \in Int, NEW b \in Int
    PROVE  Min({a, b}) \in {a, b} /\ Min({a, b}) <= a /\ Min({a, b}) <= b
<1>1. \E x \in {a, b} : \A y \in {a, b} : x <= y
  OBVIOUS
<1>2. QED BY <1>1 DEF Min

Places == {"idle", "sent", "served", "refused"}

\* The renewal that is under way or set, for a token that has to be renewed.
RenewedInTime ==
    \/ expires = NoMoment
    \/ expires >= TokenMaxLife
    \/ ~IsLentLong(lent)
    \/ renewal.at = "idle" /\ renewAt \in Nat /\ renewAt + Transit < expires
    \/ renewal.at = "sent" /\ renewal.since + Transit < expires
    \/ /\ renewal.at = "served" /\ renewal.lent = lent
       /\ renewal.since + 2 * Transit + RenewalDelay(lent) < expires

TokenInv ==
    /\ minute \in Nat /\ failed \in Nat /\ lease \in Leases /\ lent \in Nat
    /\ expires \in Nat \cup {NoMoment} /\ renewAt \in Nat \cup {NoMoment}
    /\ renewal \in [at : Places, lent : Nat, since : Nat]
    /\ renewAt # NoMoment => renewal.at = "idle" /\ minute <= renewAt
    /\ renewal.at # "idle" => renewal.since <= minute /\ minute <= renewal.since + Transit
    /\ expires = NoMoment => renewal.at = "idle" /\ renewAt = NoMoment
    /\ lease = 0 => expires = NoMoment
    /\ failed = 0 /\ vaultHealthy => RenewedInTime

\* A version was replaced no earlier than the moment m, if it was.
ReplacedFrom(v, m) == v > 0 /\ (v <= Len(replaced) => replaced[v] >= m)

RecentInv ==
    /\ minute \in Nat /\ replaced \in Seq(Nat) /\ answered \in Int
    /\ \A v \in 1 .. Len(replaced) : replaced[v] <= minute
    /\ copy \in [version : Nat, until : Nat] /\ copy.until <= minute + CacheLife
    /\ reads \in [Readers -> [at : Places, version : Nat, since : Nat]]
    /\ \A r \in Readers : reads[r].at # "idle" =>
           reads[r].since <= minute /\ minute <= reads[r].since + Transit
    /\ \A r \in Readers : reads[r].at = "served" =>
           ReplacedFrom(reads[r].version, reads[r].since)
    /\ copy # NoCopy => ReplacedFrom(copy.version, copy.until - CacheLife - Transit)
    /\ SecretIsRecent

LEMMA QuarterIs ==
    ASSUME NEW l \in Nat
    PROVE  /\ RenewalDelay(l) \in Nat /\ RenewalDelay(l) > 0
           /\ IsLentLong(l) <=> 2 * Transit + RenewalDelay(l) < l
<1>1. l \div 4 \in Int /\ l \div 4 >= 0
  OBVIOUS
<1>2. Longest(l \div 4, 1) \in Nat /\ Longest(l \div 4, 1) > 0
  BY <1>1, LongestIs
<1>3. QED BY <1>2 DEF RenewalDelay, IsLentLong

LEMMA TokenInit == VaultInit => TokenInv
<1> SUFFICES ASSUME VaultInit PROVE TokenInv
  OBVIOUS
<1>0. {TokenMaxLife, Transit} \subseteq Nat /\ NoMoment \notin Nat
  BY VaultSecretsAssumption
<1>1. lease \in Leases /\ lease \in Nat /\ failed \in Nat /\ minute = 0
  BY VaultSecretsAssumption DEF VaultInit
<1>2. renewal \in [at : Places, lent : Nat, since : Nat] /\ renewal.at = "idle"
  BY DEF VaultInit, NoRenewal, Places
<1>3. CASE lease = 0
  <2>1. lent = 0 /\ expires = NoMoment /\ renewAt = NoMoment
    BY <1>3 DEF VaultInit
  <2>2. QED BY <1>0, <1>1, <1>2, <1>3, <2>1 DEF TokenInv, RenewedInTime
<1>4. CASE lease # 0
  <2>1. lent \in Nat /\ expires \in Nat /\ lent - Transit <= expires
    <3>1. lent \in 0 .. TokenMaxLife /\ \E way \in 0 .. Transit : way <= lent /\ expires = lent - way
      BY <1>4 DEF VaultInit
    <3>2. QED BY <3>1, <1>0
  <2>2. renewAt = IF lent = 0 \/ failed = 1 THEN NoMoment ELSE RenewalDelay(lent)
    BY <1>4 DEF VaultInit
  <2>3. /\ RenewalDelay(lent) \in Nat
        /\ IsLentLong(lent) <=> 2 * Transit + RenewalDelay(lent) < lent
    BY <2>1, QuarterIs
  <2>4. failed = 0 => RenewedInTime
    <3> SUFFICES ASSUME failed = 0, IsLentLong(lent)
                 PROVE  renewAt \in Nat /\ renewAt + Transit < expires
      BY <1>2 DEF RenewedInTime
    <3>1. renewAt = RenewalDelay(lent)
      BY <2>1, <2>2, <2>3, <1>0
    <3>2. QED BY <3>1, <2>1, <2>3, <1>0
  <2>5. QED BY <1>0, <1>1, <1>2, <1>4, <2>1, <2>2, <2>3, <2>4 DEF TokenInv
<1>5. QED BY <1>3, <1>4

LEMMA TokenNext == TokenInv /\ [VaultNext]_secretVars => TokenInv'
<1> SUFFICES ASSUME TokenInv, [VaultNext]_secretVars PROVE TokenInv'
  OBVIOUS
<1>0. /\ {TokenMaxLife, Transit} \subseteq Nat /\ NoMoment \notin Nat /\ lease \in Nat
  BY VaultSecretsAssumption DEF TokenInv
\* Reads and rotations leave the token alone.
<1>1. ASSUME UNCHANGED <<minute, lease, lent, expires, renewAt, renewal>>,
             vaultHealthy' => vaultHealthy, failed' \in {failed, failed + 1}
      PROVE  TokenInv'
  BY <1>1 DEF TokenInv, RenewedInTime, IsLentLong, RenewalDelay
<1>2. CASE UNCHANGED secretVars
  BY <1>2, <1>1 DEF secretVars
<1>3. CASE Rotate
  BY <1>3, <1>1 DEF Rotate
<1>4. CASE AnswerFromCopy
  BY <1>4, <1>1 DEF AnswerFromCopy
<1>5. CASE RefreshAllSecrets
  BY <1>5, <1>1 DEF RefreshAllSecrets
<1>6. ASSUME NEW r \in Readers, Ask(r) \/ Served(r) \/ Answered(r) PROVE TokenInv'
  <2>1. UNCHANGED <<minute, lease, lent, expires, renewAt, renewal, failed, vaultHealthy>>
    <3>1. CASE Ask(r)
      BY <3>1 DEF Ask
    <3>2. CASE Served(r)
      BY <3>2, Zenon DEF Served
    <3>3. CASE Answered(r)
      BY <3>3 DEF Answered
    <3>4. QED BY <1>6, <3>1, <3>2, <3>3
  <2>2. QED BY <2>1, <1>1
<1>7. ASSUME NEW r \in Readers, ReadFails(r) PROVE TokenInv'
  <2>1. /\ UNCHANGED <<minute, lease, lent, expires, renewAt, renewal, vaultHealthy>>
        /\ failed' = failed \/ failed' = failed + 1
    BY <1>7 DEF ReadFails
  <2>2. QED BY <2>1, <1>1
<1>8. CASE RenewToken
  <2>1. /\ renewAt = minute /\ renewAt' = NoMoment
        /\ renewal' = [at |-> "sent", lent |-> 0, since |-> minute]
        /\ UNCHANGED <<minute, lease, lent, expires, failed, vaultHealthy>>
    BY <1>8 DEF RenewToken
  <2>2. expires # NoMoment /\ renewal.at = "idle"
    BY <2>1, <1>0 DEF TokenInv
  <2>3. RenewedInTime => RenewedInTime'
    BY <2>1, <2>2, <1>0 DEF RenewedInTime, IsLentLong
  <2>4. QED BY <2>1, <2>2, <2>3, <1>0 DEF TokenInv, Places
<1>9. CASE RenewalServed
  <2>1. /\ renewal.at = "sent" /\ expires \in Nat /\ lease # 0 /\ renewAt = NoMoment
        /\ UNCHANGED <<minute, lease, renewAt, failed, vaultHealthy>>
    BY <1>9, <1>0 DEF RenewalServed, TokenInv
  <2> DEFINE until == Min({minute + lease, TokenMaxLife})
  <2>2. /\ until \in {minute + lease, TokenMaxLife} /\ until \in Int
        /\ until <= minute + lease /\ until <= TokenMaxLife
    <3>1. minute + lease \in Int /\ TokenMaxLife \in Int
      BY <1>0 DEF TokenInv
    <3>2. /\ until \in {minute + lease, TokenMaxLife}
          /\ until <= minute + lease /\ until <= TokenMaxLife
      BY <3>1, ShortestIs, Zenon
    <3>3. QED BY <3>1, <3>2
  <2>3. CASE TokenValid /\ until >= minute
    <3>1. /\ expires' = Longest(expires, until) /\ lent' = until - minute
          /\ renewal' = [renewal EXCEPT !.at = "served", !.lent = until - minute]
      BY <1>9, <2>3 DEF RenewalServed
    <3>2. expires' \in Nat /\ expires' >= until /\ expires' >= expires
      BY <2>1, <2>2, <2>3, <3>1, LongestIs DEF TokenInv
    <3>3. /\ renewal' \in [at : Places, lent : Nat, since : Nat]
          /\ renewal'.at = "served" /\ renewal'.lent = lent' /\ lent' \in Nat
          /\ renewal'.since = renewal.since
      <4>1. until - minute \in Nat
        BY <2>2, <2>3 DEF TokenInv
      <4>2. QED BY <3>1, <4>1 DEF TokenInv, Places
    <3>4. renewal.since <= minute /\ minute <= renewal.since + Transit
      BY <2>1 DEF TokenInv
    <3>5. RenewedInTime'
      <4>1. RenewalDelay(lent') \in Nat
        BY <3>3, QuarterIs
      <4>2. ASSUME IsLentLong(lent)' PROVE renewal'.since + 2 * Transit + RenewalDelay(lent') < expires'
        <5>1. 2 * Transit + RenewalDelay(lent') < lent'
          BY <3>3, <4>2, QuarterIs DEF IsLentLong
        <5>2. QED BY <5>1, <4>1, <2>2, <3>1, <3>2, <3>3, <3>4, <1>0 DEF TokenInv
      <4>3. QED BY <3>3, <4>2 DEF RenewedInTime, RenewalDelay, IsLentLong
    <3>6. QED BY <2>1, <3>2, <3>3, <3>4, <3>5, <1>0 DEF TokenInv
  <2>4. CASE ~(TokenValid /\ until >= minute)
    <3>1. renewal' = [renewal EXCEPT !.at = "refused"] /\ expires' = expires /\ lent' = lent
      BY <1>9, <2>4 DEF RenewalServed
    <3>2. /\ renewal' \in [at : Places, lent : Nat, since : Nat]
          /\ renewal'.at = "refused" /\ renewal'.since = renewal.since
      BY <3>1 DEF TokenInv, Places
    <3>3. RenewedInTime => expires >= TokenMaxLife \/ ~IsLentLong(lent)
      BY <2>1, <2>2, <2>4, <1>0 DEF RenewedInTime, TokenInv, TokenValid
    <3>4. RenewedInTime => RenewedInTime'
      BY <3>1, <3>3 DEF RenewedInTime, IsLentLong
    <3>5. QED BY <2>1, <3>1, <3>2, <3>4, <1>0 DEF TokenInv
  <2>5. QED BY <2>3, <2>4
<1>10. CASE RenewalAnswered
  <2>1. /\ renewal.at = "served" /\ renewal' = NoRenewal /\ renewAt = NoMoment
        /\ UNCHANGED <<minute, lease, lent, expires, failed, vaultHealthy>>
    BY <1>10, <1>0 DEF RenewalAnswered, TokenInv
  <2>2. renewal' \in [at : Places, lent : Nat, since : Nat] /\ renewal'.at = "idle"
    BY <2>1 DEF NoRenewal, Places
  <2>3. expires \in Nat /\ lease # 0
    BY <2>1, <1>0 DEF TokenInv
  <2>4. renewal.lent \div 4 \in Int /\ renewal.lent \div 4 >= 0
    BY DEF TokenInv
  <2>5. RenewalDelay(renewal.lent) \in Nat
    BY <2>4, LongestIs DEF RenewalDelay
  <2>6. /\ renewAt' \in Nat \cup {NoMoment} /\ (renewAt' # NoMoment => minute <= renewAt')
        /\ (renewal.lent > 0 => renewAt' = minute + RenewalDelay(renewal.lent))
    BY <1>10, <2>5, <1>0 DEF RenewalAnswered, TokenInv
  <2>7. RenewedInTime => RenewedInTime'
    <3>1. CASE /\ IsLentLong(lent) /\ renewal.lent = lent
               /\ renewal.since + 2 * Transit + RenewalDelay(lent) < expires
      <4>1. renewal.lent > 0
        BY <3>1, <2>5, QuarterIs, <1>0 DEF TokenInv
      <4>2. renewAt' = minute + RenewalDelay(lent)
        BY <2>6, <3>1, <4>1
      <4>3. minute <= renewal.since + Transit
        BY <2>1 DEF TokenInv
      <4>4. renewAt' + Transit < expires /\ renewAt' \in Nat
        BY <2>3, <2>5, <3>1, <4>2, <4>3, <1>0 DEF TokenInv
      <4>5. QED BY <4>4, <2>1, <2>2 DEF RenewedInTime
    <3>2. CASE expires >= TokenMaxLife
      BY <3>2, <2>1 DEF RenewedInTime
    <3>3. CASE ~IsLentLong(lent)
      BY <3>3, <2>1 DEF RenewedInTime, IsLentLong
    <3>4. QED BY <3>1, <3>2, <3>3, <2>1, <2>3, <1>0 DEF RenewedInTime
  <2>8. QED BY <2>1, <2>2, <2>3, <2>6, <2>7, <1>0 DEF TokenInv
<1>11. CASE RenewalFails
  <2>1. /\ renewal' = NoRenewal /\ vaultHealthy' = FALSE /\ renewal.at # "idle"
        /\ failed' = failed \/ failed' = failed + 1
        /\ UNCHANGED <<minute, lease, lent, expires, renewAt>>
    BY <1>11 DEF RenewalFails
  <2>2. renewal' \in [at : Places, lent : Nat, since : Nat] /\ renewal'.at = "idle"
    BY <2>1 DEF NoRenewal, Places
  <2>3. QED BY <2>1, <2>2, <1>0 DEF TokenInv
<1>12. CASE Destroy
  <2>1. /\ renewAt' = NoMoment /\ vaultHealthy' = FALSE
        /\ UNCHANGED <<minute, lease, lent, expires, renewal, failed>>
    BY <1>12 DEF Destroy
  <2>2. QED BY <2>1, <1>0 DEF TokenInv
<1>13. CASE MinutePasses
  <2>1. /\ minute' = minute + 1 /\ renewAt # minute
        /\ renewal.at = "idle" \/ minute < renewal.since + Transit
        /\ UNCHANGED <<lease, lent, expires, renewAt, renewal, failed, vaultHealthy>>
    BY <1>13 DEF MinutePasses
  <2>2. RenewedInTime => RenewedInTime'
    BY <2>1 DEF RenewedInTime, IsLentLong, RenewalDelay
  <2>3. QED BY <2>1, <2>2, <1>0 DEF TokenInv
<1>14. QED
  BY <1>2, <1>3, <1>4, <1>5, <1>6, <1>7, <1>8, <1>9, <1>10, <1>11, <1>12, <1>13 DEF VaultNext

LEMMA RecentInit == VaultInit => RecentInv
BY VaultSecretsAssumption DEF VaultInit, RecentInv, ReplacedFrom, NoRead, NoCopy, Places, SecretIsRecent

\* The age of what was replaced no earlier than m.
LEMMA AgeIs ==
    ASSUME RecentInv, NEW v \in Nat, NEW m \in Int, m <= minute, ReplacedFrom(v, m)
    PROVE  Age(v) \in Int /\ Age(v) <= minute - m
<1>1. CASE v > Len(replaced)
  BY <1>1 DEF Age, RecentInv
<1>2. CASE v <= Len(replaced)
  <2>1. v \in 1 .. Len(replaced) /\ replaced[v] >= m /\ replaced[v] \in Nat
    BY <1>2 DEF ReplacedFrom, RecentInv
  <2>2. QED BY <1>2, <2>1 DEF Age, RecentInv
<1>3. QED BY <1>1, <1>2 DEF RecentInv

LEMMA RecentNext == RecentInv /\ [VaultNext]_secretVars => RecentInv'
<1> SUFFICES ASSUME RecentInv, [VaultNext]_secretVars PROVE RecentInv'
  OBVIOUS
<1>0. {CacheLife, Transit} \subseteq Nat
  BY VaultSecretsAssumption
\* The token's steps leave the secret alone.
<1>1. ASSUME UNCHANGED <<minute, replaced, copy, reads, answered>> PROVE RecentInv'
  BY <1>1 DEF RecentInv, ReplacedFrom, SecretIsRecent
<1>2. CASE UNCHANGED secretVars
  BY <1>2, <1>1 DEF secretVars
<1>3. ASSUME RenewToken \/ RenewalServed \/ RenewalAnswered \/ RenewalFails PROVE RecentInv'
  <2>1. UNCHANGED <<minute, replaced, copy, reads, answered>>
    BY <1>3, Zenon DEF RenewToken, RenewalServed, RenewalAnswered, RenewalFails
  <2>2. QED BY <2>1, <1>1
<1>4. CASE Rotate
  <2>1. replaced' = Append(replaced, minute) /\ UNCHANGED <<minute, copy, reads, answered>>
    BY <1>4 DEF Rotate
  <2>2. /\ replaced' \in Seq(Nat) /\ Len(replaced') = Len(replaced) + 1
        /\ \A v \in 1 .. Len(replaced) : replaced'[v] = replaced[v]
        /\ replaced'[Len(replaced) + 1] = minute
    BY <2>1 DEF RecentInv
  <2>3. ASSUME NEW v \in 1 .. Len(replaced') PROVE replaced'[v] <= minute
    <3>1. v \in 1 .. Len(replaced) \/ v = Len(replaced) + 1
      BY <2>2 DEF RecentInv
    <3>2. CASE v \in 1 .. Len(replaced)
      <4>1. replaced'[v] = replaced[v] /\ replaced[v] <= minute
        BY <3>2, <2>2 DEF RecentInv
      <4>2. QED BY <4>1
    <3>3. CASE v = Len(replaced) + 1
      BY <3>3, <2>2 DEF RecentInv
    <3>4. QED BY <3>1, <3>2, <3>3
  <2>4. ASSUME NEW v \in Nat, NEW m \in Int, m <= minute, ReplacedFrom(v, m)
        PROVE  v > 0 /\ (v <= Len(replaced') => replaced'[v] >= m)
    <3>1. CASE v <= Len(replaced)
      BY <3>1, <2>2, <2>4 DEF ReplacedFrom, RecentInv
    <3>2. CASE v = Len(replaced) + 1
      BY <3>2, <2>2, <2>4 DEF ReplacedFrom, RecentInv
    <3>3. QED BY <3>1, <3>2, <2>2, <2>4 DEF ReplacedFrom, RecentInv
  <2>5. ASSUME NEW r \in Readers, reads[r].at = "served"
        PROVE  ReplacedFrom(reads[r].version, reads[r].since)'
    BY <2>5, <2>4, <2>1 DEF ReplacedFrom, RecentInv
  <2>6. copy # NoCopy => ReplacedFrom(copy.version, copy.until - CacheLife - Transit)'
    BY <2>4, <2>1, <1>0 DEF ReplacedFrom, RecentInv
  <2>7. QED BY <2>1, <2>2, <2>3, <2>5, <2>6 DEF RecentInv, SecretIsRecent
<1>5. CASE AnswerFromCopy
  <2>1. /\ minute < copy.until /\ answered' = Age(copy.version)
        /\ UNCHANGED <<minute, replaced, copy, reads>>
    BY <1>5 DEF AnswerFromCopy, CopyLives
  <2>2. copy # NoCopy
    BY <2>1 DEF NoCopy, RecentInv
  <2>3. answered' \in Int /\ answered' <= CacheLife + Transit
    BY <2>1, <2>2, AgeIs, <1>0 DEF RecentInv
  <2>4. QED BY <2>1, <2>3 DEF RecentInv, ReplacedFrom, SecretIsRecent
<1>6. ASSUME RefreshAllSecrets \/ Destroy PROVE RecentInv'
  <2>1. copy' = NoCopy /\ UNCHANGED <<minute, replaced, reads, answered>>
    BY <1>6 DEF RefreshAllSecrets, Destroy
  <2>2. copy' \in [version : Nat, until : Nat] /\ copy'.until <= minute + CacheLife
    BY <2>1, <1>0 DEF NoCopy, RecentInv
  <2>3. QED BY <2>1, <2>2 DEF RecentInv, ReplacedFrom, SecretIsRecent
<1>7. ASSUME NEW r \in Readers, Ask(r) PROVE RecentInv'
  <2>1. /\ reads' = [reads EXCEPT ![r] = [at |-> "sent", version |-> 0, since |-> minute]]
        /\ UNCHANGED <<minute, replaced, copy, answered>>
    BY <1>7 DEF Ask
  <2>2. reads' \in [Readers -> [at : Places, version : Nat, since : Nat]]
    BY <2>1 DEF RecentInv, Places
  <2>3. \A q \in Readers : IF q = r THEN reads'[q].at = "sent" /\ reads'[q].since = minute
                                    ELSE reads'[q] = reads[q]
    BY <2>1 DEF RecentInv
  <2>4. QED BY <2>1, <2>2, <2>3, <1>0 DEF RecentInv, ReplacedFrom, SecretIsRecent
<1>8. ASSUME NEW r \in Readers, Served(r) PROVE RecentInv'
  <2>1. /\ reads[r].at = "sent" /\ UNCHANGED <<minute, replaced, copy, answered>>
        /\ reads' = [reads EXCEPT ![r].at = IF TokenValid THEN "served" ELSE "refused",
                                  ![r].version = Len(replaced) + 1]
    BY <1>8, Zenon DEF Served
  <2>2. PICK at \in {"served", "refused"} :
          reads' = [reads EXCEPT ![r].at = at, ![r].version = Len(replaced) + 1]
    <3>1. CASE TokenValid
      BY <3>1, <2>1
    <3>2. CASE ~TokenValid
      BY <3>2, <2>1
    <3>3. QED BY <3>1, <3>2
  <2>3. reads' \in [Readers -> [at : Places, version : Nat, since : Nat]]
    <3>1. Len(replaced) + 1 \in Nat
      BY DEF RecentInv
    <3>2. QED BY <3>1, <2>2 DEF RecentInv, Places
  <2>4. \A q \in Readers : IF q = r THEN /\ reads'[q].version = Len(replaced) + 1
                                         /\ reads'[q].since = reads[q].since
                                    ELSE reads'[q] = reads[q]
    BY <2>2 DEF RecentInv
  <2>5. ReplacedFrom(Len(replaced) + 1, reads[r].since)
    BY DEF ReplacedFrom, RecentInv
  <2>6. QED BY <2>1, <2>3, <2>4, <2>5, <1>0 DEF RecentInv, ReplacedFrom, SecretIsRecent
<1>9. ASSUME NEW r \in Readers, Answered(r) PROVE RecentInv'
  <2>1. /\ reads[r].at = "served" /\ UNCHANGED <<minute, replaced>>
        /\ copy' = [version |-> reads[r].version, until |-> minute + CacheLife]
        /\ answered' = Age(reads[r].version) /\ reads' = [reads EXCEPT ![r] = NoRead]
    BY <1>9 DEF Answered
  <2>2. /\ reads[r].version \in Nat /\ reads[r].since \in Nat /\ reads[r].since <= minute
        /\ minute <= reads[r].since + Transit /\ ReplacedFrom(reads[r].version, reads[r].since)
    BY <2>1 DEF RecentInv
  <2>3. answered' \in Int /\ answered' <= CacheLife + Transit
    <3>1. Age(reads[r].version) \in Int /\ Age(reads[r].version) <= minute - reads[r].since
      BY <2>2, AgeIs
    <3>2. QED BY <3>1, <2>1, <2>2, <1>0 DEF RecentInv
  <2>4. /\ copy' \in [version : Nat, until : Nat] /\ copy'.until <= minute + CacheLife
        /\ ReplacedFrom(copy'.version, copy'.until - CacheLife - Transit)
    <3>1. copy'.version = reads[r].version /\ copy'.until = minute + CacheLife
      BY <2>1
    <3>2. ReplacedFrom(reads[r].version, minute + CacheLife - CacheLife - Transit)
      BY <2>2, <1>0 DEF ReplacedFrom, RecentInv
    <3>3. QED BY <3>1, <3>2, <2>1, <2>2, <1>0 DEF RecentInv
  <2>5. reads' \in [Readers -> [at : Places, version : Nat, since : Nat]]
    BY <2>1 DEF RecentInv, Places, NoRead
  <2>6. \A q \in Readers : IF q = r THEN reads'[q].at = "idle" ELSE reads'[q] = reads[q]
    BY <2>1 DEF RecentInv, NoRead
  <2>7. QED BY <2>1, <2>3, <2>4, <2>5, <2>6 DEF RecentInv, ReplacedFrom, SecretIsRecent
<1>10. ASSUME NEW r \in Readers, ReadFails(r) PROVE RecentInv'
  <2>1. reads' = [reads EXCEPT ![r] = NoRead] /\ UNCHANGED <<minute, replaced, copy, answered>>
    BY <1>10 DEF ReadFails
  <2>2. reads' \in [Readers -> [at : Places, version : Nat, since : Nat]]
    BY <2>1 DEF RecentInv, Places, NoRead
  <2>3. \A q \in Readers : IF q = r THEN reads'[q].at = "idle" ELSE reads'[q] = reads[q]
    BY <2>1 DEF RecentInv, NoRead
  <2>4. QED BY <2>1, <2>2, <2>3 DEF RecentInv, ReplacedFrom, SecretIsRecent
<1>11. CASE MinutePasses
  <2>1. /\ minute' = minute + 1 /\ UNCHANGED <<replaced, copy, reads, answered>>
        /\ \A r \in Readers : reads[r].at = "idle" \/ minute < reads[r].since + Transit
    BY <1>11 DEF MinutePasses
  <2>2. PICK m, n : m = minute /\ n = minute' /\ n = m + 1 /\ m \in Nat /\ n \in Nat
    BY <2>1 DEF RecentInv
  <2>3. /\ \A v \in 1 .. Len(replaced) : replaced[v] <= n
        /\ copy.until <= n + CacheLife
    <3>1. \A v \in 1 .. Len(replaced) : replaced[v] \in Nat /\ replaced[v] <= m
      BY <2>2 DEF RecentInv
    <3>2. copy.until \in Nat /\ copy.until <= m + CacheLife
      BY <2>2 DEF RecentInv
    <3>3. QED BY <3>1, <3>2, <2>2, <1>0
  <2>4. \A r \in Readers : reads[r].at # "idle" => reads[r].since <= n /\ n <= reads[r].since + Transit
    <3>1. \A r \in Readers : reads[r].since \in Nat /\ (reads[r].at # "idle" => reads[r].since <= m)
      BY <2>2 DEF RecentInv
    <3>2. QED BY <3>1, <2>1, <2>2, <1>0
  <2>5. QED BY <2>1, <2>2, <2>3, <2>4 DEF RecentInv, ReplacedFrom, SecretIsRecent
<1>12. QED
  BY <1>2, <1>3, <1>4, <1>5, <1>6, <1>7, <1>8, <1>9, <1>10, <1>11 DEF VaultNext

\* A read is refused when the token has lapsed, which it does for good.
RefusedInv == \A r \in Readers : reads[r].at = "refused" => ~TokenValid

LEMMA ValidBefore ==
    ASSUME TokenInv, failed = 0, vaultHealthy, minute < TokenMaxLife, IsLentLong(lent)
    PROVE  TokenValid
<1>1. RenewedInTime /\ {TokenMaxLife, Transit} \subseteq Nat /\ NoMoment \notin Nat
  BY VaultSecretsAssumption DEF TokenInv
<1>2. RenewalDelay(lent) \in Nat
  BY QuarterIs DEF TokenInv
<1>3. expires # NoMoment => minute < expires
  BY <1>1, <1>2 DEF TokenInv, RenewedInTime
<1>4. QED BY <1>3 DEF TokenValid

LEMMA RefusedNext == TokenInv /\ RecentInv /\ RefusedInv /\ [VaultNext]_secretVars => RefusedInv'
<1> SUFFICES ASSUME TokenInv, RecentInv, RefusedInv, [VaultNext]_secretVars,
                    NEW r \in Readers, reads'[r].at = "refused"
             PROVE  ~TokenValid'
  BY DEF RefusedInv
<1>1. ASSUME minute' \in {minute, minute + 1}, expires' = expires, ~TokenValid
      PROVE  ~TokenValid'
  BY <1>1 DEF TokenValid, TokenInv
<1>2. ASSUME reads[r].at = "refused", minute' \in {minute, minute + 1}, expires' = expires
      PROVE  ~TokenValid'
  BY <1>1, <1>2 DEF RefusedInv
<1>3. CASE UNCHANGED secretVars
  BY <1>3, <1>2 DEF secretVars
<1>4. CASE Rotate \/ AnswerFromCopy \/ RefreshAllSecrets
  BY <1>4, <1>2 DEF Rotate, AnswerFromCopy, RefreshAllSecrets
<1>5. CASE RenewToken \/ RenewalAnswered \/ RenewalFails \/ Destroy
  BY <1>5, <1>2 DEF RenewToken, RenewalAnswered, RenewalFails, Destroy
<1>6. CASE RenewalServed
  <2>1. UNCHANGED <<minute, reads>> /\ (TokenValid \/ expires' = expires)
    BY <1>6, Zenon DEF RenewalServed
  <2>2. ~TokenValid
    BY <2>1 DEF RefusedInv
  <2>3. QED BY <2>1, <2>2, <1>2
<1>7. CASE MinutePasses
  BY <1>7, <1>2 DEF MinutePasses
<1>8. ASSUME NEW q \in Readers, Ask(q) PROVE ~TokenValid'
  <2>1. /\ reads' = [reads EXCEPT ![q] = [at |-> "sent", version |-> 0, since |-> minute]]
        /\ UNCHANGED <<minute, expires>>
    BY <1>8 DEF Ask
  <2>2. reads[r].at = "refused"
    BY <2>1 DEF RecentInv
  <2>3. QED BY <2>1, <2>2, <1>2
<1>9. ASSUME NEW q \in Readers, Answered(q) \/ ReadFails(q) PROVE ~TokenValid'
  <2>1. reads' = [reads EXCEPT ![q] = NoRead] /\ UNCHANGED <<minute, expires>>
    BY <1>9 DEF Answered, ReadFails
  <2>2. reads[r].at = "refused"
    BY <2>1 DEF RecentInv, NoRead
  <2>3. QED BY <2>1, <2>2, <1>2
<1>10. ASSUME NEW q \in Readers, Served(q) PROVE ~TokenValid'
  <2>1. UNCHANGED <<minute, expires>>
    BY <1>10, Zenon DEF Served
  <2>2. CASE TokenValid
    <3>1. reads' = [reads EXCEPT ![q].at = "served", ![q].version = Len(replaced) + 1]
      BY <1>10, <2>2 DEF Served
    <3>2. reads[r].at = "refused"
      BY <3>1 DEF RecentInv
    <3>3. QED BY <2>1, <3>2, <1>2
  <2>3. QED BY <2>1, <2>2, <1>1
<1>11. QED
  BY <1>3, <1>4, <1>5, <1>6, <1>7, <1>8, <1>9, <1>10 DEF VaultNext

\* For all leases, remainders, lives and latencies, while no request fails of its
\* own: a token that lapses early, or refuses a read, was last lent less than its
\* renewal takes; and what is answered was out of date for as long as a copy lives
\* and a read takes at most.
THEOREM SecretsAreGood == VaultSpec => []SecretsStayGood
<1>1. VaultInit => RefusedInv
  BY DEF VaultInit, RefusedInv, NoRead
<1>2. TokenInv /\ RecentInv /\ RefusedInv => SecretsStayGood
  <2> SUFFICES ASSUME TokenInv, RecentInv, RefusedInv PROVE SecretsStayGood
    OBVIOUS
  <2>1. SecretIsRecent
    BY DEF RecentInv
  <2>2. ASSUME failed = 0, vaultHealthy, minute < TokenMaxLife, IsLentLong(lent)
        PROVE  TokenValid /\ \A r \in Readers : reads[r].at # "refused"
    <3>1. TokenValid
      BY <2>2, ValidBefore
    <3>2. QED BY <3>1 DEF RefusedInv
  <2>3. QED BY <2>1, <2>2 DEF SecretsStayGood, TokenOutlasts
<1>3. QED
  BY <1>1, <1>2, TokenInit, TokenNext, RecentInit, RecentNext, RefusedNext, PTL DEF VaultSpec
-----------------------------------------------------------------------------
(* Where the clients of a pool are.                                         *)

WithoutPoolClient == {"none", "connect", "failover"}
WithPoolClient == {"statement", "begin", "callback", "commit", "rollback"}

ConnectionTypes ==
    /\ out \in [Endpoints -> Int]
    /\ operation \in [Operations -> [pc : WithoutPoolClient \cup WithPoolClient,
                                     kind : Kinds, endpoint : Endpoints]]
    /\ check \in [CheckRounds -> [Endpoints -> {"none", "connect", "select"}]]
    /\ kept \in [Endpoints -> Nat]

ConnectionInv == ConnectionTypes /\ ClientsAccountedFor

\* The endpoint of the highest priority is one of those it is chosen from.
LEMMA FirstIsOne ==
    ASSUME NEW S \in SUBSET Endpoints, S # {}
    PROVE  First(S) \in S
<1>1. S \in SUBSET Nat
  BY ConnectionAssumption DEF Endpoints
<1>2. PICK e \in S : \A f \in S : e <= f
  BY <1>1, LeastNatural
<1>3. QED BY <1>2 DEF First

LEMMA HoldersAreFinite ==
    ASSUME NEW e
    PROVE  /\ IsFiniteSet(Holding(e)) /\ IsFiniteSet(Checking(e))
           /\ Cardinality(Holding(e)) \in Nat /\ Cardinality(Checking(e)) \in Nat
<1>1. Holding(e) \in SUBSET Operations /\ Checking(e) \in SUBSET CheckRounds
  BY DEF Holding, Checking
<1>2. QED BY <1>1, ConnectionAssumption, FS_Subset, FS_CardinalityType

\* The state of an operation changes: where it holds a client before or after, it
\* holds that of the endpoint it goes to.
LEMMA OperationMoves ==
    ASSUME ConnectionTypes, NEW o \in Operations, NEW pc \in WithoutPoolClient \cup WithPoolClient,
           GoesTo(o, pc), NEW at, at = operation[o].endpoint
    PROVE  /\ operation' \in [Operations -> [pc : WithoutPoolClient \cup WithPoolClient,
                                             kind : Kinds, endpoint : Endpoints]]
           /\ \A e \in Endpoints : e # at => Holding(e)' = Holding(e)
           /\ pc \in WithPoolClient => Holding(at)' = Holding(at) \cup {o}
           /\ pc \in WithoutPoolClient => Holding(at)' = Holding(at) \ {o}
  BY DEF ConnectionTypes, GoesTo, Holding, WithoutPoolClient, WithPoolClient

\* An operation takes a client, or returns the one it holds.
LEMMA HoldingOneMore ==
    ASSUME ConnectionInv, NEW o \in Operations, NEW pc \in WithPoolClient, GoesTo(o, pc),
           operation[o].pc \in WithoutPoolClient, TakesClient(operation[o].endpoint),
           UNCHANGED <<check, kept>>
    PROVE  ConnectionInv'
<1>0. PICK at : at = operation[o].endpoint
  OBVIOUS
<1>1. at \in Endpoints /\ o \notin Holding(at)
  BY <1>0 DEF ConnectionInv, ConnectionTypes, Holding, WithoutPoolClient
<1>2. /\ operation' \in [Operations -> [pc : WithoutPoolClient \cup WithPoolClient,
                                        kind : Kinds, endpoint : Endpoints]]
      /\ \A e \in Endpoints : e # at => Holding(e)' = Holding(e)
      /\ Holding(at)' = Holding(at) \cup {o}
  BY <1>0, OperationMoves DEF ConnectionInv
<1>3. Cardinality(Holding(at)') = Cardinality(Holding(at)) + 1
  BY <1>1, <1>2, HoldersAreFinite, FS_AddElement
<1>4. \A e \in Endpoints : Checking(e)' = Checking(e)
  BY DEF Checking
<1>5. out' \in [Endpoints -> Int] /\ out'[at] = out[at] + 1
      /\ \A e \in Endpoints : e # at => out'[e] = out[e]
  BY <1>0, <1>1 DEF TakesClient, ConnectionInv, ConnectionTypes
<1>6. ASSUME NEW e \in Endpoints
      PROVE  out'[e] = Cardinality(Holding(e)') + Cardinality(Checking(e)') + kept'[e]
  <2>1. /\ out[e] = Cardinality(Holding(e)) + Cardinality(Checking(e)) + kept[e]
        /\ Cardinality(Holding(e)) \in Nat /\ Cardinality(Checking(e)) \in Nat /\ kept[e] \in Nat
    BY HoldersAreFinite DEF ConnectionInv, ConnectionTypes, ClientsAccountedFor
  <2>2. CASE e = at
    BY <2>1, <2>2, <1>3, <1>4, <1>5
  <2>3. CASE e # at
    BY <2>1, <2>3, <1>2, <1>4, <1>5
  <2>4. QED BY <2>2, <2>3
<1>7. ClientsAccountedFor'
  BY <1>6 DEF ClientsAccountedFor
<1>8. QED BY <1>2, <1>5, <1>7 DEF ConnectionInv, ConnectionTypes

LEMMA HoldingOneLess ==
    ASSUME ConnectionInv, NEW o \in Operations, GoesTo(o, "none"),
           operation[o].pc \in WithPoolClient, Returned(operation[o].endpoint),
           UNCHANGED <<check, kept>>
    PROVE  ConnectionInv'
<1>0. PICK at : at = operation[o].endpoint
  OBVIOUS
<1>1. at \in Endpoints /\ o \in Holding(at)
  BY <1>0 DEF ConnectionInv, ConnectionTypes, Holding, WithPoolClient
<1>2. /\ operation' \in [Operations -> [pc : WithoutPoolClient \cup WithPoolClient,
                                        kind : Kinds, endpoint : Endpoints]]
      /\ \A e \in Endpoints : e # at => Holding(e)' = Holding(e)
      /\ Holding(at)' = Holding(at) \ {o}
  <2>1. "none" \in WithoutPoolClient
    BY DEF WithoutPoolClient
  <2>2. QED BY <1>0, <2>1, OperationMoves DEF ConnectionInv
<1>3. Cardinality(Holding(at)') = Cardinality(Holding(at)) - 1
  BY <1>1, <1>2, HoldersAreFinite, FS_RemoveElement
<1>4. \A e \in Endpoints : Checking(e)' = Checking(e)
  BY DEF Checking
<1>5. out' \in [Endpoints -> Int] /\ out'[at] = out[at] - 1
      /\ \A e \in Endpoints : e # at => out'[e] = out[e]
  BY <1>0, <1>1 DEF Returned, ConnectionInv, ConnectionTypes
<1>6. ASSUME NEW e \in Endpoints
      PROVE  out'[e] = Cardinality(Holding(e)') + Cardinality(Checking(e)') + kept'[e]
  <2>1. /\ out[e] = Cardinality(Holding(e)) + Cardinality(Checking(e)) + kept[e]
        /\ Cardinality(Holding(e)) \in Nat /\ Cardinality(Checking(e)) \in Nat /\ kept[e] \in Nat
    BY HoldersAreFinite DEF ConnectionInv, ConnectionTypes, ClientsAccountedFor
  <2>2. CASE e = at
    BY <2>1, <2>2, <1>3, <1>4, <1>5
  <2>3. CASE e # at
    BY <2>1, <2>3, <1>2, <1>4, <1>5
  <2>4. QED BY <2>2, <2>3
<1>7. ClientsAccountedFor'
  BY <1>6 DEF ClientsAccountedFor
<1>8. QED BY <1>2, <1>5, <1>7 DEF ConnectionInv, ConnectionTypes

\* An operation or a check goes on, and no client changes hands.
LEMMA NoClientChangesHands ==
    ASSUME ConnectionInv, ConnectionTypes', UNCHANGED <<out, kept>>,
           \A e \in Endpoints : Holding(e)' = Holding(e) /\ Checking(e)' = Checking(e)
    PROVE  ConnectionInv'
  BY DEF ConnectionInv, ClientsAccountedFor

LEMMA OperationGoesOn ==
    ASSUME ConnectionInv, NEW o \in Operations, NEW pc, GoesTo(o, pc),
           \/ operation[o].pc \in WithoutPoolClient /\ pc \in WithoutPoolClient
           \/ operation[o].pc \in WithPoolClient /\ pc \in WithPoolClient,
           UNCHANGED <<out, check, kept>>
    PROVE  ConnectionInv'
<1>0. PICK at : at = operation[o].endpoint
  OBVIOUS
<1>1. /\ operation' \in [Operations -> [pc : WithoutPoolClient \cup WithPoolClient,
                                        kind : Kinds, endpoint : Endpoints]]
      /\ \A e \in Endpoints : e # at => Holding(e)' = Holding(e)
      /\ pc \in WithPoolClient => Holding(at)' = Holding(at) \cup {o}
      /\ pc \in WithoutPoolClient => Holding(at)' = Holding(at) \ {o}
  BY <1>0, OperationMoves DEF ConnectionInv
<1>2. /\ operation[o].pc \in WithPoolClient => o \in Holding(at)
      /\ operation[o].pc \in WithoutPoolClient => o \notin Holding(at)
  BY <1>0 DEF Holding, WithPoolClient, WithoutPoolClient
<1>3. \A e \in Endpoints : Holding(e)' = Holding(e)
  BY <1>1, <1>2
<1>4. \A e \in Endpoints : Checking(e)' = Checking(e)
  BY DEF Checking
<1>5. ConnectionTypes'
  BY <1>1 DEF ConnectionTypes, ConnectionInv
<1>6. QED BY <1>3, <1>4, <1>5, NoClientChangesHands

\* The clients of other endpoints are where they were, and one of endpoint e may be
\* elsewhere.
LEMMA CheckMoves ==
    ASSUME ConnectionTypes, NEW c \in CheckRounds, NEW e \in Endpoints,
           NEW at \in {"none", "select"}, check' = [check EXCEPT ![c][e] = at]
    PROVE  /\ check' \in [CheckRounds -> [Endpoints -> {"none", "connect", "select"}]]
           /\ \A f \in Endpoints : f # e => Checking(f)' = Checking(f)
           /\ at = "select" => Checking(e)' = Checking(e) \cup {c}
           /\ at = "none" => Checking(e)' = Checking(e) \ {c}
  BY DEF ConnectionTypes, Checking

LEMMA CheckTakes ==
    ASSUME ConnectionInv, NEW c \in CheckRounds, NEW e \in Endpoints, CheckConnects(c, e)
    PROVE  ConnectionInv'
<1>1. /\ check' \in [CheckRounds -> [Endpoints -> {"none", "connect", "select"}]]
      /\ \A f \in Endpoints : f # e => Checking(f)' = Checking(f)
      /\ Checking(e)' = Checking(e) \cup {c}
  BY CheckMoves DEF ConnectionInv, CheckConnects
<1>2. c \notin Checking(e)
  BY DEF CheckConnects, Checking
<1>3. Cardinality(Checking(e)') = Cardinality(Checking(e)) + 1
  BY <1>1, <1>2, HoldersAreFinite, FS_AddElement
<1>4. \A f \in Endpoints : Holding(f)' = Holding(f)
  BY DEF Holding, CheckConnects
<1>5. /\ out' \in [Endpoints -> Int] /\ out'[e] = out[e] + 1
      /\ \A f \in Endpoints : f # e => out'[f] = out[f]
  BY DEF CheckConnects, TakesClient, ConnectionInv, ConnectionTypes
<1>6. operation' = operation /\ kept' = kept
  BY DEF CheckConnects
<1>7. ASSUME NEW f \in Endpoints
      PROVE  out'[f] = Cardinality(Holding(f)') + Cardinality(Checking(f)') + kept'[f]
  <2>1. /\ out[f] = Cardinality(Holding(f)) + Cardinality(Checking(f)) + kept[f]
        /\ Cardinality(Holding(f)) \in Nat /\ Cardinality(Checking(f)) \in Nat /\ kept[f] \in Nat
    BY HoldersAreFinite DEF ConnectionInv, ConnectionTypes, ClientsAccountedFor
  <2>2. CASE f = e
    BY <2>1, <2>2, <1>3, <1>4, <1>5, <1>6
  <2>3. CASE f # e
    BY <2>1, <2>3, <1>1, <1>4, <1>5, <1>6
  <2>4. QED BY <2>2, <2>3
<1>8. ClientsAccountedFor'
  BY <1>7 DEF ClientsAccountedFor
<1>9. QED BY <1>1, <1>5, <1>6, <1>8 DEF ConnectionInv, ConnectionTypes

LEMMA CheckReturns ==
    ASSUME ConnectionInv, NEW c \in CheckRounds, NEW e \in Endpoints, CheckSucceeds(c, e)
    PROVE  ConnectionInv'
<1>1. /\ check' \in [CheckRounds -> [Endpoints -> {"none", "connect", "select"}]]
      /\ \A f \in Endpoints : f # e => Checking(f)' = Checking(f)
      /\ Checking(e)' = Checking(e) \ {c}
  BY CheckMoves DEF ConnectionInv, CheckSucceeds
<1>2. c \in Checking(e)
  BY DEF CheckSucceeds, Checking
<1>3. Cardinality(Checking(e)') = Cardinality(Checking(e)) - 1
  BY <1>1, <1>2, HoldersAreFinite, FS_RemoveElement
<1>4. \A f \in Endpoints : Holding(f)' = Holding(f)
  BY DEF Holding, CheckSucceeds
<1>5. /\ out' \in [Endpoints -> Int] /\ out'[e] = out[e] - 1
      /\ \A f \in Endpoints : f # e => out'[f] = out[f]
  BY DEF CheckSucceeds, Returned, ConnectionInv, ConnectionTypes
<1>6. operation' = operation /\ kept' = kept
  BY DEF CheckSucceeds
<1>7. ASSUME NEW f \in Endpoints
      PROVE  out'[f] = Cardinality(Holding(f)') + Cardinality(Checking(f)') + kept'[f]
  <2>1. /\ out[f] = Cardinality(Holding(f)) + Cardinality(Checking(f)) + kept[f]
        /\ Cardinality(Holding(f)) \in Nat /\ Cardinality(Checking(f)) \in Nat /\ kept[f] \in Nat
    BY HoldersAreFinite DEF ConnectionInv, ConnectionTypes, ClientsAccountedFor
  <2>2. CASE f = e
    BY <2>1, <2>2, <1>3, <1>4, <1>5, <1>6
  <2>3. CASE f # e
    BY <2>1, <2>3, <1>1, <1>4, <1>5, <1>6
  <2>4. QED BY <2>2, <2>3
<1>8. ClientsAccountedFor'
  BY <1>7 DEF ClientsAccountedFor
<1>9. QED BY <1>1, <1>5, <1>6, <1>8 DEF ConnectionInv, ConnectionTypes

\* The client of a SELECT that fails changes from the checking ones to the kept.
LEMMA CheckKeeps ==
    ASSUME ConnectionInv, NEW c \in CheckRounds, NEW e \in Endpoints, CheckFails(c, e)
    PROVE  ConnectionInv'
<1>1. /\ check' \in [CheckRounds -> [Endpoints -> {"none", "connect", "select"}]]
      /\ \A f \in Endpoints : f # e => Checking(f)' = Checking(f)
      /\ Checking(e)' = Checking(e) \ {c}
  BY CheckMoves DEF ConnectionInv, CheckFails
<1>2. \A f \in Endpoints : Holding(f)' = Holding(f)
  BY DEF Holding, CheckFails
<1>3. operation' = operation /\ out' = out
  BY DEF CheckFails
<1>4. CASE check[c][e] = "select"
  <2>1. Cardinality(Checking(e)') = Cardinality(Checking(e)) - 1
    <3>1. c \in Checking(e)
      BY <1>4 DEF Checking
    <3>2. QED BY <3>1, <1>1, HoldersAreFinite, FS_RemoveElement
  <2>2. /\ kept' \in [Endpoints -> Nat] /\ kept'[e] = kept[e] + 1
        /\ \A f \in Endpoints : f # e => kept'[f] = kept[f]
    BY <1>4 DEF CheckFails, ConnectionInv, ConnectionTypes
  <2>3. ASSUME NEW f \in Endpoints
        PROVE  out'[f] = Cardinality(Holding(f)') + Cardinality(Checking(f)') + kept'[f]
    <3>1. /\ out[f] = Cardinality(Holding(f)) + Cardinality(Checking(f)) + kept[f]
          /\ Cardinality(Holding(f)) \in Nat /\ Cardinality(Checking(f)) \in Nat /\ kept[f] \in Nat
      BY HoldersAreFinite DEF ConnectionInv, ConnectionTypes, ClientsAccountedFor
    <3>2. CASE f = e
      BY <3>1, <3>2, <1>2, <1>3, <2>1, <2>2
    <3>3. CASE f # e
      BY <3>1, <3>3, <1>1, <1>2, <1>3, <2>2
    <3>4. QED BY <3>2, <3>3
  <2>4. ClientsAccountedFor'
    BY <2>3 DEF ClientsAccountedFor
  <2>5. QED BY <1>1, <1>3, <2>2, <2>4 DEF ConnectionInv, ConnectionTypes
<1>5. CASE check[c][e] # "select"
  <2>1. kept' = kept
    BY <1>5 DEF CheckFails
  <2>2. Checking(e)' = Checking(e)
    BY <1>1, <1>5 DEF Checking
  <2>3. ConnectionTypes'
    BY <2>1, <1>1, <1>3 DEF ConnectionInv, ConnectionTypes
  <2>4. QED BY <1>1, <1>2, <1>3, <2>1, <2>2, <2>3, NoClientChangesHands
<1>6. QED BY <1>4, <1>5

LEMMA ConnectionNextInv == ConnectionInv /\ [ConnectionNext]_connectionVars => ConnectionInv'
<1> SUFFICES ASSUME ConnectionInv, [ConnectionNext]_connectionVars PROVE ConnectionInv'
  OBVIOUS
<1>1. ASSUME NEW o \in Operations, NEW kind \in Kinds, Begin(o, kind) PROVE ConnectionInv'
  <2>1. PICK e \in Healthy :
           operation' = [operation EXCEPT ![o] = [pc |-> "connect", kind |-> kind, endpoint |-> e]]
    BY <1>1 DEF Begin, ReadEndpoints
  <2>2. e \in Endpoints
    BY DEF Healthy
  <2>3. operation[o].pc = "none" /\ UNCHANGED <<out, check, kept>>
    BY <1>1 DEF Begin
  <2>4. ConnectionTypes'
    BY <2>1, <2>2, <2>3 DEF ConnectionInv, ConnectionTypes, WithoutPoolClient
  <2>5. \A f \in Endpoints : Holding(f)' = Holding(f)
    BY <2>1, <2>3 DEF Holding, ConnectionInv, ConnectionTypes
  <2>6. \A f \in Endpoints : Checking(f)' = Checking(f)
    BY <2>3 DEF Checking
  <2>7. QED BY <2>3, <2>4, <2>5, <2>6, NoClientChangesHands
<1>2. ASSUME NEW o \in Operations, Connected(o) PROVE ConnectionInv'
  <2>1. PICK pc \in WithPoolClient : GoesTo(o, pc)
    BY <1>2 DEF Connected, WithPoolClient
  <2>2. QED BY <1>2, <2>1, HoldingOneMore DEF Connected, WithoutPoolClient
<1>3. ASSUME NEW o \in Operations, ConnectFails(o) PROVE ConnectionInv'
  <2> DEFINE others == Healthy \ {operation[o].endpoint}
  <2>1. operation[o].pc \in WithoutPoolClient /\ UNCHANGED <<out, check, kept>>
    BY <1>3 DEF ConnectFails, WithoutPoolClient
  <2>2. CASE GoesTo(o, "none")
    BY <2>1, <2>2, OperationGoesOn DEF WithoutPoolClient
  <2>3. CASE /\ others # {}
             /\ operation' = [operation EXCEPT ![o].pc = "failover", ![o].endpoint = First(others)]
    <3>1. First(others) \in Endpoints
      <4>1. others \in SUBSET Endpoints
        BY DEF Healthy
      <4>2. QED BY <4>1, <2>3, FirstIsOne
    <3>2. ConnectionTypes'
      BY <2>1, <2>3, <3>1 DEF ConnectionInv, ConnectionTypes, WithoutPoolClient
    <3>3. \A f \in Endpoints : Holding(f)' = Holding(f)
      BY <2>1, <2>3 DEF Holding, ConnectionInv, ConnectionTypes, WithoutPoolClient
    <3>4. \A f \in Endpoints : Checking(f)' = Checking(f)
      BY <2>1 DEF Checking
    <3>5. QED BY <2>1, <3>2, <3>3, <3>4, NoClientChangesHands
  <2>4. QED BY <1>3, <2>2, <2>3 DEF ConnectFails
<1>4. ASSUME NEW o \in Operations, StatementSucceeds(o) PROVE ConnectionInv'
  <2>1. PICK pc \in WithPoolClient : GoesTo(o, pc)
    BY <1>4 DEF StatementSucceeds, WithPoolClient
  <2>2. QED BY <1>4, <2>1, OperationGoesOn DEF StatementSucceeds, WithPoolClient
<1>5. ASSUME NEW o \in Operations, CallbackFails(o) PROVE ConnectionInv'
  <2>1. "rollback" \in WithPoolClient /\ operation[o].pc \in WithPoolClient
    BY <1>5 DEF CallbackFails, WithPoolClient
  <2>2. QED BY <1>5, <2>1, OperationGoesOn DEF CallbackFails
<1>6. ASSUME NEW o \in Operations, OperationEnds(o) PROVE ConnectionInv'
  <2>1. operation[o].pc \in WithPoolClient
    BY <1>6 DEF OperationEnds, WithPoolClient
  <2>2. QED BY <1>6, <2>1, HoldingOneLess DEF OperationEnds
<1>7. ASSUME NEW c \in CheckRounds, StartChecks(c) PROVE ConnectionInv'
  <2>1. ConnectionTypes' /\ UNCHANGED <<out, kept>>
    BY <1>7 DEF StartChecks, ConnectionInv, ConnectionTypes
  <2>2. \A e \in Endpoints : Checking(e)' = Checking(e)
    BY <1>7 DEF StartChecks, Checking, ConnectionInv, ConnectionTypes
  <2>3. \A e \in Endpoints : Holding(e)' = Holding(e)
    BY <1>7 DEF StartChecks, Holding
  <2>4. QED BY <2>1, <2>2, <2>3, NoClientChangesHands
<1>8. ASSUME NEW c \in CheckRounds, NEW e \in Endpoints,
             CheckConnects(c, e) \/ CheckSucceeds(c, e) \/ CheckFails(c, e)
      PROVE  ConnectionInv'
  BY <1>8, CheckTakes, CheckReturns, CheckKeeps
<1>9. ASSUME Shutdown \/ PoolsEnded \/ UNCHANGED connectionVars PROVE ConnectionInv'
  BY <1>9 DEF Shutdown, PoolsEnded, connectionVars, ConnectionInv, ConnectionTypes,
              ClientsAccountedFor, Holding, Checking
<1>10. QED
  BY <1>1, <1>2, <1>3, <1>4, <1>5, <1>6, <1>7, <1>8, <1>9 DEF ConnectionNext

\* For any number of endpoints, clients, calls and rounds of checks, a client that
\* is out of its pool serves an operation or a check under way, or is one that a
\* health check did not release: failovers, failing statements, a ROLLBACK that
\* throws and checks of both outcomes lose no other.
THEOREM NoOtherClientIsLost == ConnectionSpec => []ClientsAccountedFor
<1>1. ConnectionInit => ConnectionInv
  <2> SUFFICES ASSUME ConnectionInit PROVE ConnectionInv
    OBVIOUS
  <2>1. ConnectionTypes
    BY ConnectionAssumption
       DEF ConnectionInit, ConnectionTypes, Endpoints, Kinds, WithoutPoolClient
  <2>2. \A e \in Endpoints : Holding(e) = {} /\ Checking(e) = {}
    BY DEF ConnectionInit, Holding, Checking
  <2>3. \A e \in Endpoints : out[e] = 0 /\ kept[e] = 0
    BY DEF ConnectionInit
  <2>4. ClientsAccountedFor
    BY <2>2, <2>3, FS_EmptySet DEF ClientsAccountedFor
  <2>5. QED BY <2>1, <2>4 DEF ConnectionInv
<1>2. ConnectionInv => ClientsAccountedFor
  BY DEF ConnectionInv
<1>3. QED BY <1>1, <1>2, ConnectionNextInv, PTL DEF ConnectionSpec

-----------------------------------------------------------------------------
(* The queue in front of the Cosmos endpoint.                               *)

CallRecords == [at : {"new", "queued", "active", "retrying", "settled"},
                priority : DOMAIN Urgency, retries : Nat]

\* Every call waits once at most, and only while it is queued.
IsQueue(queue, calls) ==
    /\ queue \in Seq(Calls)
    /\ \A i, j \in DOMAIN queue : i # j => queue[i] # queue[j]
    /\ \A i \in DOMAIN queue : calls[queue[i]].at = "queued"

ThrottleInv ==
    /\ call \in [Calls -> CallRecords]
    /\ IsQueue(waiting, call)
    /\ timers \in Nat
    /\ configured \in SUBSET Nat /\ maxConcurrent \in configured
    /\ NoSlotIsLost

ActiveOf(calls) == {c \in Calls : calls[c].at = "active"}

LEMMA ActiveIsFinite ==
    ASSUME NEW calls
    PROVE  IsFiniteSet(ActiveOf(calls)) /\ Cardinality(ActiveOf(calls)) \in Nat
<1>1. ActiveOf(calls) \in SUBSET Calls
  BY DEF ActiveOf
<1>2. QED BY <1>1, ThrottleAssumption, FS_Subset, FS_CardinalityType

\* Sorting loses no request of the queue and doubles none.
LEMMA SortedIsQueue ==
    ASSUME NEW queue, NEW calls, IsQueue(queue, calls), NEW sorted \in ByPriority(queue, calls)
    PROVE  IsQueue(sorted, calls) /\ Len(sorted) = Len(queue)
<1>1. PICK order \in Bijection(DOMAIN queue, DOMAIN queue) :
          sorted = [i \in DOMAIN queue |-> queue[order[i]]]
  BY DEF ByPriority
<1>2. /\ order \in [DOMAIN queue -> DOMAIN queue]
      /\ \A i, j \in DOMAIN queue : order[i] = order[j] => i = j
  BY <1>1 DEF Bijection, Injection, IsInjective
<1>3. queue \in Seq(Calls) /\ DOMAIN queue = 1 .. Len(queue) /\ Len(queue) \in Nat
  BY DEF IsQueue
<1>4. sorted \in Seq(Calls) /\ Len(sorted) = Len(queue) /\ DOMAIN sorted = DOMAIN queue
  BY <1>1, <1>2, <1>3
<1>5. QED BY <1>1, <1>2, <1>4 DEF IsQueue

LEMMA TimedOutKeeps ==
    ASSUME NEW calls \in [Calls -> CallRecords], NEW queue, IsQueue(queue, calls),
           NEW n \in 0 .. Len(queue)
    PROVE  /\ TimedOut(queue, n, calls) \in [Calls -> CallRecords]
           /\ ActiveOf(TimedOut(queue, n, calls)) = ActiveOf(calls)
           /\ \A i \in DOMAIN queue : i > n => TimedOut(queue, n, calls)[queue[i]].at = "queued"
<1>1. queue \in Seq(Calls) /\ DOMAIN queue = 1 .. Len(queue) /\ Len(queue) \in Nat
  BY DEF IsQueue
<1>2. TimedOut(queue, n, calls) \in [Calls -> CallRecords]
  BY DEF TimedOut, CallRecords
<1>3. \A i \in 1 .. n : calls[queue[i]].at = "queued"
  BY <1>1 DEF IsQueue
<1>4. ActiveOf(TimedOut(queue, n, calls)) = ActiveOf(calls)
  BY <1>3 DEF TimedOut, ActiveOf, CallRecords
<1>5. ASSUME NEW i \in DOMAIN queue, i > n
      PROVE  TimedOut(queue, n, calls)[queue[i]].at = "queued"
  <2>1. \A j \in 1 .. n : queue[j] # queue[i]
    BY <1>1, <1>5 DEF IsQueue
  <2>2. queue[i] \in Calls
    BY <1>1
  <2>3. QED BY <2>1, <2>2 DEF TimedOut, IsQueue
<1>6. QED BY <1>2, <1>4, <1>5

\* Of a queue that is served, what still waits is a queue, and then one request
\* more is under way.
LEMMA ServedOne ==
    ASSUME NEW calls \in [Calls -> CallRecords], NEW queue, IsQueue(queue, calls),
           NEW n \in 0 .. Len(queue), ServeFirst(queue, n, calls)
    PROVE  /\ call' \in [Calls -> CallRecords]
           /\ IsQueue(waiting', call')
           /\ waiting' # << >> =>
                /\ Len(queue) > 1
                /\ Cardinality(ActiveOf(call')) = Cardinality(ActiveOf(calls)) + 1
<1> DEFINE left == TimedOut(queue, n, calls)
<1>1. queue \in Seq(Calls) /\ DOMAIN queue = 1 .. Len(queue) /\ Len(queue) \in Nat
  BY DEF IsQueue
<1>2. /\ left \in [Calls -> CallRecords]
      /\ ActiveOf(left) = ActiveOf(calls)
      /\ \A i \in DOMAIN queue : i > n => left[queue[i]].at = "queued"
  BY TimedOutKeeps
<1>3. /\ waiting' = SubSeq(queue, n + 2, Len(queue))
      /\ n < Len(queue) => call' = [left EXCEPT ![queue[n + 1]].at = "active"]
      /\ ~(n < Len(queue)) => call' = left
  BY DEF ServeFirst
<1> HIDE DEF left
<1>4. CASE n < Len(queue)
  <2>1. n + 1 \in DOMAIN queue /\ queue[n + 1] \in Calls /\ left[queue[n + 1]].at = "queued"
    BY <1>1, <1>2, <1>4
  <2>0. PICK done : done = call' /\ done = [left EXCEPT ![queue[n + 1]].at = "active"]
    BY <1>3, <1>4
  <2>2. done \in [Calls -> CallRecords]
    <3>1. [left[queue[n + 1]] EXCEPT !.at = "active"] \in CallRecords
      BY <1>2, <2>1 DEF CallRecords
    <3>2. QED BY <1>2, <2>0, <2>1, <3>1
  <2>3. ActiveOf(done) = ActiveOf(left) \cup {queue[n + 1]} /\ queue[n + 1] \notin ActiveOf(left)
    BY <1>2, <2>0, <2>1 DEF ActiveOf, CallRecords
  <2>4. Cardinality(ActiveOf(done)) = Cardinality(ActiveOf(calls)) + 1
    <3>1. IsFiniteSet(ActiveOf(left))
      BY ActiveIsFinite
    <3>2. Cardinality(ActiveOf(left) \cup {queue[n + 1]}) = Cardinality(ActiveOf(left)) + 1
      BY <2>3, <3>1, FS_AddElement
    <3>3. QED BY <1>2, <2>3, <3>2
  <2>5. /\ waiting' \in Seq(Calls)
        /\ \A i \in DOMAIN waiting' : i + n + 1 \in DOMAIN queue /\ waiting'[i] = queue[i + n + 1]
        /\ waiting' # << >> => Len(queue) > 1
    BY <1>1, <1>3, <1>4
  <2>6. DOMAIN waiting' = 1 .. Len(waiting')
    BY <2>5
  <2>7. ASSUME NEW i \in DOMAIN waiting', NEW j \in DOMAIN waiting', i # j
        PROVE  waiting'[i] # waiting'[j]
    <3>1. i \in Int /\ j \in Int /\ n \in Int
      BY <2>6
    <3>2. i + n + 1 # j + n + 1
      BY <2>7, <3>1
    <3>3. QED BY <2>5, <3>2 DEF IsQueue
  <2>8. \A i \in DOMAIN waiting' : call'[waiting'[i]].at = "queued"
    <3> SUFFICES ASSUME NEW i \in DOMAIN waiting' PROVE call'[waiting'[i]].at = "queued"
      OBVIOUS
    <3>1. i + n + 1 \in DOMAIN queue /\ i + n + 1 > n /\ i + n + 1 # n + 1
      <4>1. i \in Int /\ i >= 1 /\ n \in Int
        BY <2>6
      <4>2. QED BY <4>1, <2>5
    <3>2. queue[i + n + 1] # queue[n + 1] /\ left[queue[i + n + 1]].at = "queued"
      BY <3>1, <2>1, <1>2 DEF IsQueue
    <3>3. QED BY <3>1, <3>2, <2>5, <1>1, <1>2, <1>3, <1>4
  <2>9. QED BY <2>0, <2>2, <2>4, <2>5, <2>7, <2>8 DEF IsQueue
<1>5. CASE ~(n < Len(queue))
  <2>1. waiting' = << >>
    BY <1>1, <1>3, <1>5
  <2>2. QED BY <2>1, <1>2, <1>3, <1>5 DEF IsQueue
<1>6. QED BY <1>4, <1>5

\* processQueue leaves requests to wait when all slots are taken, or starts one
\* of several.
LEMMA ProcessedOne ==
    ASSUME ThrottleInv, NEW calls \in [Calls -> CallRecords], NEW queue, IsQueue(queue, calls),
           ActiveOf(calls) = Active, NEW justQueued, ProcessQueue(queue, calls, justQueued)
    PROVE  /\ call' \in [Calls -> CallRecords]
           /\ IsQueue(waiting', call')
           /\ waiting' # << >> =>
                \/ Cardinality(Active) >= maxConcurrent /\ Cardinality(Active') = Cardinality(Active)
                \/ Len(queue) > 1 /\ Cardinality(Active') = Cardinality(Active) + 1
<1>1. Active' = ActiveOf(call')
  BY DEF Active, ActiveOf
<1>2. CASE Cardinality(Active) >= maxConcurrent \/ queue = << >>
  BY <1>1, <1>2 DEF ProcessQueue
<1>3. CASE ~(Cardinality(Active) >= maxConcurrent \/ queue = << >>)
  <2>1. PICK sorted \in ByPriority(queue, calls), n \in 0 .. Len(queue) : ServeFirst(sorted, n, calls)
    BY <1>3 DEF ProcessQueue
  <2>2. IsQueue(sorted, calls) /\ Len(sorted) = Len(queue)
    BY SortedIsQueue
  <2>3. QED BY <2>1, <2>2, <1>1, ServedOne
<1>4. QED BY <1>2, <1>3

\* A call joins the queue at either end.
LEMMA JoinsQueue ==
    ASSUME ThrottleInv, NEW c \in Calls, call[c].at # "queued",
           NEW calls, calls[c].at = "queued",
           \A d \in Calls : d # c => calls[d].at = call[d].at
    PROVE  /\ IsQueue(Append(waiting, c), calls) /\ Len(Append(waiting, c)) = Len(waiting) + 1
           /\ IsQueue(<<c>> \o waiting, calls) /\ Len(<<c>> \o waiting) = Len(waiting) + 1
<1>1. waiting \in Seq(Calls) /\ DOMAIN waiting = 1 .. Len(waiting) /\ Len(waiting) \in Nat
  BY DEF ThrottleInv, IsQueue
<1>2. \A i \in DOMAIN waiting : waiting[i] # c /\ waiting[i] \in Calls
  BY <1>1 DEF ThrottleInv, IsQueue
<1>3. \A i \in DOMAIN waiting : calls[waiting[i]].at = "queued"
  BY <1>2 DEF ThrottleInv, IsQueue
<1>4. IsQueue(Append(waiting, c), calls) /\ Len(Append(waiting, c)) = Len(waiting) + 1
  <2> DEFINE queue == Append(waiting, c)
  <2>1. /\ queue \in Seq(Calls) /\ Len(queue) = Len(waiting) + 1
        /\ DOMAIN queue = 1 .. Len(waiting) + 1
        /\ \A i \in DOMAIN queue : i \in DOMAIN waiting \/ i = Len(waiting) + 1
        /\ \A i \in DOMAIN waiting : queue[i] = waiting[i]
        /\ queue[Len(waiting) + 1] = c
    BY <1>1
  <2> HIDE DEF queue
  <2>2. \A i, j \in DOMAIN queue : i # j => queue[i] # queue[j]
    BY <2>1, <1>2 DEF ThrottleInv, IsQueue
  <2>3. \A i \in DOMAIN queue : calls[queue[i]].at = "queued"
    BY <2>1, <1>3
  <2>4. IsQueue(queue, calls) /\ Len(queue) = Len(waiting) + 1
    BY <2>1, <2>2, <2>3 DEF IsQueue
  <2>5. QED BY <2>4 DEF queue
<1>5. IsQueue(<<c>> \o waiting, calls) /\ Len(<<c>> \o waiting) = Len(waiting) + 1
  <2> DEFINE queue == <<c>> \o waiting
  <2>1. /\ queue \in Seq(Calls) /\ Len(queue) = Len(waiting) + 1
        /\ DOMAIN queue = 1 .. Len(waiting) + 1
        /\ queue[1] = c
        /\ \A i \in 2 .. Len(waiting) + 1 : queue[i] = waiting[i - 1]
    BY <1>1
  <2> HIDE DEF queue
  <2>2. \A i \in DOMAIN queue : i = 1 \/ (i \in 2 .. Len(waiting) + 1 /\ i - 1 \in DOMAIN waiting)
    BY <2>1, <1>1
  <2>3. \A i, j \in DOMAIN queue : i # j => queue[i] # queue[j]
    <3> SUFFICES ASSUME NEW i \in DOMAIN queue, NEW j \in DOMAIN queue, i # j
                 PROVE  queue[i] # queue[j]
      OBVIOUS
    <3>1. CASE i = 1 \/ j = 1
      BY <3>1, <2>1, <2>2, <1>2
    <3>2. CASE i # 1 /\ j # 1
      <4>1. i - 1 \in DOMAIN waiting /\ j - 1 \in DOMAIN waiting /\ i - 1 # j - 1
        BY <3>2, <2>1, <2>2, <1>1
      <4>2. QED BY <4>1, <3>2, <2>1, <2>2 DEF ThrottleInv, IsQueue
    <3>3. QED BY <3>1, <3>2
  <2>4. \A i \in DOMAIN queue : calls[queue[i]].at = "queued"
    BY <2>1, <2>2, <1>3
  <2>5. IsQueue(queue, calls) /\ Len(queue) = Len(waiting) + 1
    BY <2>1, <2>3, <2>4 DEF IsQueue
  <2>6. QED BY <2>5 DEF queue
<1>6. QED BY <1>4, <1>5

\* The slots after a call has joined the queue and the queue was processed.
LEMMA SlotsAfterJoining ==
    ASSUME ThrottleInv, NEW c \in Calls, call[c].at \notin {"queued", "active"},
           NEW calls \in [Calls -> CallRecords], calls[c].at = "queued",
           \A d \in Calls : d # c => calls[d].at = call[d].at,
           NEW queue \in {Append(waiting, c), <<c>> \o waiting},
           ProcessQueue(queue, calls, {c}),
           UNCHANGED <<timers, maxConcurrent, configured>>
    PROVE  ThrottleInv'
<1>1. IsQueue(queue, calls) /\ Len(queue) = Len(waiting) + 1
  BY JoinsQueue
<1>2. ActiveOf(calls) = Active
  BY DEF ActiveOf, Active
<1>3. /\ call' \in [Calls -> CallRecords]
      /\ IsQueue(waiting', call')
      /\ waiting' # << >> =>
           \/ Cardinality(Active) >= maxConcurrent /\ Cardinality(Active') = Cardinality(Active)
           \/ Len(queue) > 1 /\ Cardinality(Active') = Cardinality(Active) + 1
  BY <1>1, <1>2, ProcessedOne
<1>4. Cardinality(Active) \in Nat
  BY ActiveIsFinite, <1>2
<1>5. NoSlotIsLost'
  <2> SUFFICES ASSUME waiting' # << >>
               PROVE  \E limit \in configured' : Cardinality(Active') + timers' >= limit
    BY DEF NoSlotIsLost
  <2>1. timers \in Nat /\ configured \in SUBSET Nat /\ maxConcurrent \in configured
    BY DEF ThrottleInv
  <2>2. CASE Cardinality(Active) >= maxConcurrent /\ Cardinality(Active') = Cardinality(Active)
    BY <2>1, <2>2, <1>4
  <2>3. CASE Len(queue) > 1 /\ Cardinality(Active') = Cardinality(Active) + 1
    <3>1. waiting # << >>
      BY <2>3, <1>1
    <3>2. PICK limit \in configured : Cardinality(Active) + timers >= limit
      BY <3>1 DEF ThrottleInv, NoSlotIsLost
    <3>3. QED BY <3>2, <2>1, <2>3, <1>4
  <2>4. QED BY <2>2, <2>3, <1>3
<1>6. QED BY <1>3, <1>5 DEF ThrottleInv

\* A request under way ends, and its timer takes its place.
LEMMA TimerTakesPlace ==
    ASSUME ThrottleInv, NEW c \in Active, call' \in [Calls -> CallRecords],
           call'[c].at \in {"settled", "retrying"},
           \A d \in Calls : d # c => call'[d] = call[d],
           timers' = timers + 1, UNCHANGED <<waiting, maxConcurrent, configured>>
    PROVE  ThrottleInv'
<1>1. c \in Calls /\ call[c].at = "active"
  BY DEF Active
<1>2. Active' = Active \ {c}
  BY <1>1 DEF Active
<1>3. IsFiniteSet(Active) /\ Cardinality(Active) \in Nat
  BY ActiveIsFinite DEF Active, ActiveOf
<1>4. Cardinality(Active') = Cardinality(Active) - 1
  BY <1>2, <1>3, FS_RemoveElement
<1>5. NoSlotIsLost'
  <2> SUFFICES ASSUME waiting # << >>
               PROVE  \E limit \in configured : Cardinality(Active') + timers' >= limit
    BY DEF NoSlotIsLost
  <2>1. PICK limit \in configured : Cardinality(Active) + timers >= limit
    BY DEF ThrottleInv, NoSlotIsLost
  <2>2. timers \in Nat /\ limit \in Nat
    BY DEF ThrottleInv
  <2>3. QED BY <2>1, <2>2, <1>3, <1>4
<1>6. IsQueue(waiting', call')
  BY <1>1 DEF ThrottleInv, IsQueue
<1>7. QED BY <1>5, <1>6 DEF ThrottleInv

LEMMA ThrottleNextInv == ThrottleInv /\ [ThrottleNext]_throttleVars => ThrottleInv'
<1> SUFFICES ASSUME ThrottleInv, [ThrottleNext]_throttleVars PROVE ThrottleInv'
  OBVIOUS
<1> USE DEF CallRecords
<1>1. ASSUME NEW c \in Calls, NEW priority \in DOMAIN Urgency, Execute(c, priority)
      PROVE  ThrottleInv'
  <2>1. call[c].at = "new" /\ UNCHANGED <<timers, maxConcurrent, configured>>
    BY <1>1 DEF Execute
  <2>2. CASE Len(waiting) >= QueueLimit
    <3>1. call' = [call EXCEPT ![c].at = "settled"] /\ waiting' = waiting
      BY <1>1, <2>2 DEF Execute, MoveCall
    <3>2. call' \in [Calls -> CallRecords] /\ \A d \in Calls : d # c => call'[d] = call[d]
      BY <3>1 DEF ThrottleInv
    <3>3. Active' = Active /\ IsQueue(waiting', call')
      BY <2>1, <3>1, <3>2 DEF ThrottleInv, IsQueue, Active
    <3>4. QED BY <2>1, <3>1, <3>2, <3>3 DEF ThrottleInv, NoSlotIsLost
  <2>3. CASE ~(Len(waiting) >= QueueLimit)
    <3>1. PICK calls : /\ calls = [call EXCEPT ![c].at = "queued", ![c].priority = priority]
                       /\ ProcessQueue(Append(waiting, c), calls, {c})
      BY <1>1, <2>3 DEF Execute
    <3>2. /\ calls \in [Calls -> CallRecords] /\ calls[c].at = "queued"
          /\ \A d \in Calls : d # c => calls[d].at = call[d].at
      BY <3>1 DEF ThrottleInv
    <3>3. QED BY <2>1, <3>1, <3>2, SlotsAfterJoining
  <2>4. QED BY <2>2, <2>3
<1>2. ASSUME NEW c \in Calls, RequestEnds(c) PROVE ThrottleInv'
  <2>1. /\ c \in Active /\ call' = [call EXCEPT ![c].at = "settled"]
        /\ timers' = timers + 1 /\ UNCHANGED <<waiting, maxConcurrent, configured>>
    BY <1>2 DEF RequestEnds, MoveCall
  <2>2. /\ call' \in [Calls -> CallRecords] /\ call'[c].at = "settled"
        /\ \A d \in Calls : d # c => call'[d] = call[d]
    BY <2>1 DEF ThrottleInv
  <2>3. QED BY <2>1, <2>2, TimerTakesPlace
<1>3. ASSUME NEW c \in Calls, RequestFails(c) PROVE ThrottleInv'
  <2>1. /\ c \in Active
        /\ call' = [call EXCEPT ![c].at = "retrying", ![c].retries = @ + 1]
        /\ timers' = timers + 1 /\ UNCHANGED <<waiting, maxConcurrent, configured>>
    BY <1>3 DEF RequestFails
  <2>2. /\ call' \in [Calls -> CallRecords] /\ call'[c].at = "retrying"
        /\ \A d \in Calls : d # c => call'[d] = call[d]
    BY <2>1 DEF ThrottleInv
  <2>3. QED BY <2>1, <2>2, TimerTakesPlace
<1>4. ASSUME NEW c \in Calls, RequestRetries(c) PROVE ThrottleInv'
  <2>1. PICK calls : /\ calls = [call EXCEPT ![c].at = "queued"]
                     /\ ProcessQueue(<<c>> \o waiting, calls, {c})
    BY <1>4 DEF RequestRetries, MoveCall
  <2>2. /\ calls \in [Calls -> CallRecords] /\ calls[c].at = "queued"
        /\ \A d \in Calls : d # c => calls[d].at = call[d].at
    BY <2>1 DEF ThrottleInv
  <2>3. call[c].at = "retrying" /\ UNCHANGED <<timers, maxConcurrent, configured>>
    BY <1>4 DEF RequestRetries
  <2>4. QED BY <2>1, <2>2, <2>3, SlotsAfterJoining
<1>5. ASSUME TimerFires PROVE ThrottleInv'
  <2>1. /\ timers > 0 /\ timers' = timers - 1 /\ ProcessQueue(waiting, call, {})
        /\ UNCHANGED <<maxConcurrent, configured>>
    BY <1>5 DEF TimerFires
  <2>2. /\ timers \in Nat /\ configured \in SUBSET Nat /\ maxConcurrent \in configured
        /\ call \in [Calls -> CallRecords] /\ IsQueue(waiting, call)
    BY DEF ThrottleInv
  <2>3. ActiveOf(call) = Active
    BY DEF ActiveOf, Active
  <2>4. /\ call' \in [Calls -> CallRecords]
        /\ IsQueue(waiting', call')
        /\ waiting' # << >> =>
             \/ Cardinality(Active) >= maxConcurrent /\ Cardinality(Active') = Cardinality(Active)
             \/ Len(waiting) > 1 /\ Cardinality(Active') = Cardinality(Active) + 1
    BY <2>1, <2>2, <2>3, ProcessedOne
  <2>5. Cardinality(Active) \in Nat
    BY <2>3, ActiveIsFinite
  <2>6. NoSlotIsLost'
    <3> SUFFICES ASSUME waiting' # << >>
                 PROVE  \E limit \in configured' : Cardinality(Active') + timers' >= limit
      BY DEF NoSlotIsLost
    <3>1. CASE Cardinality(Active) >= maxConcurrent /\ Cardinality(Active') = Cardinality(Active)
      BY <3>1, <2>1, <2>2, <2>5
    <3>2. CASE Len(waiting) > 1 /\ Cardinality(Active') = Cardinality(Active) + 1
      <4>1. waiting # << >>
        BY <3>2
      <4>2. PICK limit \in configured : Cardinality(Active) + timers >= limit
        BY <4>1 DEF ThrottleInv, NoSlotIsLost
      <4>3. QED BY <4>2, <3>2, <2>1, <2>2, <2>5
    <3>3. QED BY <3>1, <3>2, <2>4
  <2>7. QED BY <2>1, <2>2, <2>4, <2>6 DEF ThrottleInv
<1>6. ASSUME ClearQueue PROVE ThrottleInv'
  <2>1. /\ waiting' = << >> /\ call' = TimedOut(waiting, Len(waiting), call)
        /\ UNCHANGED <<timers, maxConcurrent, configured>>
    BY <1>6 DEF ClearQueue
  <2>2. /\ IsQueue(waiting, call) /\ call \in [Calls -> CallRecords]
        /\ Len(waiting) \in 0 .. Len(waiting)
    BY DEF ThrottleInv, IsQueue
  <2>3. call' \in [Calls -> CallRecords]
    BY <2>1, <2>2, TimedOutKeeps
  <2>4. QED BY <2>1, <2>3 DEF ThrottleInv, IsQueue, NoSlotIsLost
<1>7. ASSUME NEW limit \in Limits, UpdateConfig(limit) PROVE ThrottleInv'
  <2>1. /\ maxConcurrent' = limit /\ configured' = configured \cup {limit}
        /\ UNCHANGED <<call, waiting, timers>>
    BY <1>7 DEF UpdateConfig
  <2>2. limit \in Nat /\ Active' = Active
    BY <2>1, ThrottleAssumption DEF Active
  <2>3. NoSlotIsLost'
    BY <2>1, <2>2 DEF ThrottleInv, NoSlotIsLost
  <2>4. QED BY <2>1, <2>2, <2>3 DEF ThrottleInv
<1>8. ASSUME UNCHANGED throttleVars PROVE ThrottleInv'
  <2>1. Active' = Active
    BY <1>8 DEF throttleVars, Active
  <2>2. QED BY <1>8, <2>1 DEF throttleVars, ThrottleInv, NoSlotIsLost
<1>9. QED BY <1>1, <1>2, <1>3, <1>4, <1>5, <1>6, <1>7, <1>8 DEF ThrottleNext

\* For any number of calls, whatever the limits, the retries and how often the limit
\* changes: while requests wait, as many are under way or about to be started by a
\* timer as some limit has allowed, so the queue never stands still for good.
THEOREM QueueGoesOn == ThrottleSpec => []NoSlotIsLost
<1>1. ThrottleInit => ThrottleInv
  <2> SUFFICES ASSUME ThrottleInit PROVE ThrottleInv
    OBVIOUS
  <2>1. call \in [Calls -> CallRecords]
    BY DEF ThrottleInit, CallRecords, Urgency
  <2>2. maxConcurrent \in Nat /\ configured = {maxConcurrent}
    BY ThrottleAssumption DEF ThrottleInit
  <2>3. QED BY <2>1, <2>2 DEF ThrottleInit, ThrottleInv, IsQueue, NoSlotIsLost
<1>2. ThrottleInv => NoSlotIsLost
  BY DEF ThrottleInv
<1>3. QED BY <1>1, <1>2, ThrottleNextInv, PTL DEF ThrottleSpec
=============================================================================
