------------------------- MODULE TenantConsumersProofs -------------------------
(***************************************************************************)
(* Theorems about the consumers of a tenant, for any number of handlers,    *)
(* refreshes and faults: their types and the queue of requests, and that a  *)
(* tenant has one consumer.                                                 *)
(***************************************************************************)
EXTENDS TenantConsumers, FiniteSetTheorems, TLAPS

Waiting == {"topology", "consume", "cancel"}
States == [at : {"idle", "read", "topology", "consume", "cancel", "recover"}, on : BOOLEAN,
           tag : Tags \cup {NoTag}]

Worker ==
  /\ handler \in [Handlers -> States] /\ requests \in Seq(Handlers)
  /\ \A i, j \in DOMAIN requests : requests[i] = requests[j] => i = j
  /\ \A h \in Handlers : handler[h].at \in Waiting <=> \E i \in DOMAIN requests : requests[i] = h

Around ==
  /\ active \in BOOLEAN /\ channel \in {"open", "closed", "none"}
  /\ updates \in 0..MaxUpdates /\ faults \in [left : 0..MaxFaults, seen : SUBSET FaultKinds]
  /\ unsent \in Seq(Refresh) /\ messages \in Seq(Refresh)
  /\ consumers \subseteq Tags /\ tag \in Tags \cup {NoTag}

LEMMA FaultTypes ==
  ASSUME faults \in [left : 0..MaxFaults, seen : SUBSET FaultKinds], NEW kind, Fault(kind)
  PROVE  /\ faults' \in [left : 0..MaxFaults, seen : SUBSET FaultKinds]
         /\ faults'.seen = faults.seen \cup {kind}
<1>1. /\ faults.left \in 0..MaxFaults /\ faults.seen \subseteq FaultKinds
      /\ faults.left > 0 /\ kind \in FaultKinds
      /\ faults' = [left |-> faults.left - 1, seen |-> faults.seen \cup {kind}]
  BY DEF Fault
<1>2. faults.left - 1 \in 0..MaxFaults
  BY <1>1, BoundsAssumption
<1> QED
  BY <1>1, <1>2

LEMMA IdleType == Idle \in States /\ Idle.at = "idle"
BY DEF Idle, States

LEMMA EndedType == ASSUME NEW h PROVE Ended(h) \in States /\ Ended(h).at \in {"idle", "recover"}
BY DEF Ended, Idle, States

-----------------------------------------------------------------------------
(* The queue of requests.                                                   *)

LEMMA Appended ==
  ASSUME NEW S, NEW s \in Seq(S), NEW e \in S
  PROVE  /\ Append(s, e) \in Seq(S) /\ Len(s) \in Nat
         /\ \A i \in 1..Len(s) : Append(s, e)[i] = s[i]
         /\ Append(s, e)[Len(s) + 1] = e
         /\ DOMAIN s = 1..Len(s) /\ DOMAIN Append(s, e) = 1..(Len(s) + 1)
OBVIOUS

\* A handler that waits for nothing makes a request.
LEMMA RequestQueued ==
  ASSUME Worker, NEW h \in Handlers, handler[h].at \notin Waiting, NEW s \in States, s.at \in Waiting,
         handler' = [handler EXCEPT ![h] = s], requests' = Append(requests, h)
  PROVE  Worker'
<1>1. \A i \in DOMAIN requests : requests[i] # h
  BY DEF Worker
<1>2. /\ requests' \in Seq(Handlers) /\ Len(requests') = Len(requests) + 1 /\ Len(requests) \in Nat
      /\ \A i \in 1..Len(requests) : requests'[i] = requests[i]
      /\ requests'[Len(requests) + 1] = h
      /\ DOMAIN requests = 1..Len(requests) /\ DOMAIN requests' = 1..(Len(requests) + 1)
  BY DEF Worker
<1>3. \A i \in DOMAIN requests' : i \in DOMAIN requests \/ i = Len(requests) + 1
  BY <1>2
<1>4. \A i, j \in DOMAIN requests' : requests'[i] = requests'[j] => i = j
  BY <1>1, <1>2, <1>3 DEF Worker
<1>5. \A g \in Handlers : (\E i \in DOMAIN requests' : requests'[i] = g)
                            <=> g = h \/ \E i \in DOMAIN requests : requests[i] = g
  BY <1>2, <1>3
<1>6. \A g \in Handlers : handler'[g].at \in Waiting <=> \E i \in DOMAIN requests' : requests'[i] = g
  BY <1>5 DEF Worker
<1>7. handler' \in [Handlers -> States]
  BY DEF Worker
<1> QED
  BY <1>2, <1>4, <1>6, <1>7 DEF Worker

\* The first request is served.
LEMMA RequestServed ==
  ASSUME Worker, NEW h \in Handlers, Served(h)
  PROVE  /\ Tail(requests) \in Seq(Handlers)
         /\ \A i, j \in DOMAIN Tail(requests) : Tail(requests)[i] = Tail(requests)[j] => i = j
         /\ \A g \in Handlers : (\E i \in DOMAIN Tail(requests) : Tail(requests)[i] = g)
                                  <=> g # h /\ handler[g].at \in Waiting
<1>1. /\ requests \in Seq(Handlers) /\ requests # <<>> /\ Head(requests) = requests[1] /\ requests[1] = h
      /\ Len(requests) \in Nat /\ Len(requests) >= 1 /\ DOMAIN requests = 1..Len(requests)
  BY DEF Worker, Served
<1>2. /\ Tail(requests) \in Seq(Handlers) /\ Len(Tail(requests)) = Len(requests) - 1
      /\ \A i \in 1..(Len(requests) - 1) : Tail(requests)[i] = requests[i + 1]
      /\ DOMAIN Tail(requests) = 1..(Len(requests) - 1)
  BY <1>1
<1>3. \A i, j \in DOMAIN Tail(requests) : Tail(requests)[i] = Tail(requests)[j] => i = j
  <2> SUFFICES ASSUME NEW i \in 1..(Len(requests) - 1), NEW j \in 1..(Len(requests) - 1),
                      Tail(requests)[i] = Tail(requests)[j]
               PROVE  i = j
    BY <1>2
  <2>1. i + 1 \in DOMAIN requests /\ j + 1 \in DOMAIN requests /\ requests[i + 1] = requests[j + 1]
    BY <1>1, <1>2
  <2> QED
    BY <2>1 DEF Worker
<1>4. ASSUME NEW g \in Handlers
      PROVE  (\E i \in DOMAIN Tail(requests) : Tail(requests)[i] = g)
               <=> g # h /\ \E i \in DOMAIN requests : requests[i] = g
  <2>1. ASSUME NEW i \in DOMAIN Tail(requests), Tail(requests)[i] = g
        PROVE  g # h /\ \E k \in DOMAIN requests : requests[k] = g
    <3>1. i + 1 \in DOMAIN requests /\ requests[i + 1] = g /\ i + 1 # 1 /\ 1 \in DOMAIN requests
      BY <1>1, <1>2, <2>1
    <3> QED
      BY <1>1, <3>1 DEF Worker
  <2>2. ASSUME g # h, NEW i \in DOMAIN requests, requests[i] = g
        PROVE  \E k \in DOMAIN Tail(requests) : Tail(requests)[k] = g
    <3>1. i - 1 \in 1..(Len(requests) - 1) /\ (i - 1) + 1 = i
      BY <1>1, <2>2
    <3> QED
      BY <1>2, <2>2, <3>1
  <2> QED
    BY <2>1, <2>2
<1> QED
  BY <1>2, <1>3, <1>4 DEF Worker

LEMMA HandlerEnds ==
  ASSUME Worker, NEW h \in Handlers, Served(h), requests' = Tail(requests),
         NEW s \in States, s.at \notin Waiting, handler' = [handler EXCEPT ![h] = s]
  PROVE  Worker'
<1>1. /\ requests' \in Seq(Handlers)
      /\ \A i, j \in DOMAIN requests' : requests'[i] = requests'[j] => i = j
      /\ \A g \in Handlers : (\E i \in DOMAIN requests' : requests'[i] = g)
                               <=> g # h /\ handler[g].at \in Waiting
  BY RequestServed
<1>2. /\ handler' \in [Handlers -> States]
      /\ \A g \in Handlers : handler'[g].at \in Waiting <=> g # h /\ handler[g].at \in Waiting
  BY DEF Worker
<1> QED
  BY <1>1, <1>2 DEF Worker

\* A handler that is served asks for more.
LEMMA HandlerGoesOn ==
  ASSUME Worker, NEW h \in Handlers, Served(h), requests' = Append(Tail(requests), h),
         NEW s \in States, s.at \in Waiting, handler' = [handler EXCEPT ![h] = s]
  PROVE  Worker'
<1> DEFINE rest == Tail(requests)
<1>1. /\ rest \in Seq(Handlers)
      /\ \A i, j \in DOMAIN rest : rest[i] = rest[j] => i = j
      /\ \A g \in Handlers : (\E i \in DOMAIN rest : rest[i] = g) <=> g # h /\ handler[g].at \in Waiting
  BY RequestServed
<1> HIDE DEF rest
<1>2. requests' = Append(rest, h)
  BY DEF rest
<1>3. /\ requests' \in Seq(Handlers) /\ Len(rest) \in Nat
      /\ \A i \in 1..Len(rest) : requests'[i] = rest[i]
      /\ requests'[Len(rest) + 1] = h
      /\ DOMAIN rest = 1..Len(rest) /\ DOMAIN requests' = 1..(Len(rest) + 1)
  <2>1. rest \in Seq(Handlers)
    BY <1>1
  <2>2. /\ Append(rest, h) \in Seq(Handlers) /\ Len(rest) \in Nat
        /\ \A i \in 1..Len(rest) : Append(rest, h)[i] = rest[i]
        /\ Append(rest, h)[Len(rest) + 1] = h
        /\ DOMAIN rest = 1..Len(rest) /\ DOMAIN Append(rest, h) = 1..(Len(rest) + 1)
    BY <2>1, Appended
  <2> QED
    BY <1>2, <2>2
<1>4. \A i \in DOMAIN requests' : i \in DOMAIN rest \/ i = Len(rest) + 1
  BY <1>3
<1>5. \A i \in DOMAIN rest : rest[i] # h
  BY <1>1
<1>6. \A i, j \in DOMAIN requests' : requests'[i] = requests'[j] => i = j
  BY <1>1, <1>3, <1>4, <1>5
<1>7. \A g \in Handlers : (\E i \in DOMAIN requests' : requests'[i] = g)
                            <=> g = h \/ \E i \in DOMAIN rest : rest[i] = g
  BY <1>3, <1>4
<1>8. /\ handler' \in [Handlers -> States]
      /\ \A g \in Handlers : handler'[g].at \in Waiting <=> g = h \/ handler[g].at \in Waiting
  BY DEF Worker
<1> QED
  BY <1>1, <1>3, <1>6, <1>7, <1>8 DEF Worker

\* A handler that waits for nothing goes on without a request.
LEMMA HandlerMoves ==
  ASSUME Worker, NEW h \in Handlers, handler[h].at \notin Waiting, NEW s \in States,
         s.at \notin Waiting, handler' = [handler EXCEPT ![h] = s], UNCHANGED requests
  PROVE  Worker'
BY DEF Worker

-----------------------------------------------------------------------------
(* Every step keeps the handlers and their requests.                        *)

LEMMA HandlerAsks ==
  ASSUME Worker, Around, NEW h \in Handlers, handler[h].at \notin Waiting
  PROVE  /\ Stop(h) => Worker'
         /\ Ensure(h) => Worker'
<1>1. handler[h] \in States
  BY DEF Worker
<1>2. ASSUME NEW at \in Waiting, NEW t \in Tags \cup {NoTag}, Request(h, at, t)
      PROVE  Worker'
  <2> DEFINE s == [handler[h] EXCEPT !.at = at, !.tag = t]
  <2>1. s \in States /\ s.at \in Waiting
    BY <1>1 DEF States, Waiting
  <2>2. handler' = [handler EXCEPT ![h] = s] /\ requests' = Append(requests, h)
    BY <1>2, <1>1 DEF Request, Worker, States
  <2> QED
    BY <2>1, <2>2, RequestQueued
<1>3. End(h) => Worker'
  <2>1. Ended(h) \in States /\ Ended(h).at \notin Waiting
    BY EndedType DEF Waiting
  <2> QED
    BY <2>1, HandlerMoves DEF End
<1>4. tag \in Tags \cup {NoTag} /\ NoTag \in Tags \cup {NoTag} /\ "cancel" \in Waiting /\ "topology" \in Waiting
  BY DEF Around, Waiting
<1> QED
  BY <1>2, <1>3, <1>4 DEF Stop, Ensure

LEMMA Reads ==
  ASSUME Worker, Around, NEW h \in Handlers, handler[h].at \notin Waiting, Reconcile(h), UNCHANGED requests
  PROVE  Worker'
<1> DEFINE s == [at |-> "read", on |-> active, tag |-> NoTag]
<1>1. s \in States /\ s.at \notin Waiting
  BY DEF States, Waiting, Around
<1> QED
  BY <1>1, HandlerMoves DEF Reconcile

\* Requests on a channel that closes are rejected.
LEMMA Rejected ==
  ASSUME Worker, NEW kept, Reject(kept)
  PROVE  Worker' /\ \A h \in Handlers : handler'[h] = Idle \/ handler'[h] = handler[h]
<1>1. /\ requests' = <<>>
      /\ handler' = [h \in Handlers |-> IF handler[h].at \in {"read", "recover"} /\ h \in kept
                                        THEN handler[h] ELSE Idle]
  BY DEF Reject
<1>2. \A h \in Handlers : \/ handler'[h] = Idle
                         \/ (handler'[h] = handler[h] /\ handler[h].at \in {"read", "recover"})
  BY <1>1
<1>3. handler' \in [Handlers -> States] /\ \A h \in Handlers : handler'[h].at \notin Waiting
  <2>1. \A h \in Handlers : handler'[h] \in States /\ handler'[h].at \notin Waiting
    BY <1>2, IdleType DEF Worker, Waiting
  <2> QED
    BY <1>1, <2>1
<1>4. requests' \in Seq(Handlers) /\ DOMAIN requests' = {}
  BY <1>1
<1> QED
  BY <1>2, <1>3, <1>4 DEF Worker

LEMMA WorkerKept ==
  ASSUME Worker, Around, [Next]_vars
  PROVE  Worker'
<1> USE DEF Waiting
<1>1. ASSUME UNCHANGED <<handler, requests>>
      PROVE  Worker'
  BY <1>1 DEF Worker
<1>2. CASE \E on \in BOOLEAN : Update(on, IF on THEN "on" ELSE "off") \/ Update(on, "all")
  BY <1>1, <1>2 DEF Update
<1>3. CASE \E i \in DOMAIN unsent : Publish(i)
  BY <1>1, <1>3 DEF Publish
<1>4. CASE PublishFails
  BY <1>1, <1>4 DEF PublishFails
<1>5. CASE Poll
  BY <1>5, HandlersAssumption, Reads DEF Poll, Start
<1>6. CASE Drop \/ CloseUnheard \/ ReconnectFails
  <2>1. PICK kept : Reject(kept)
    BY <1>6 DEF Drop, CloseUnheard, ReconnectFails, ScheduleReconnect
  <2> QED
    BY <2>1, Rejected
<1>8. ASSUME NEW h \in Handlers PROVE Ended(h) \in States /\ Ended(h).at \notin Waiting
  BY EndedType
<1>7. ASSUME NEW h \in Handlers, Receive(h) \/ Resume(h) \/ Serve(h)
      PROVE  Worker'
  <2>1. CASE Receive(h)
    <3>1. handler[h].at \notin Waiting
      BY <2>1 DEF Receive, Start
    <3>2. (Reconcile(h) /\ UNCHANGED requests) \/ Stop(h) \/ Ensure(h)
      <4>1. messages \in Seq(Refresh) /\ messages # <<>>
        BY <2>1 DEF Receive, Around
      <4>2. Head(messages) \in Refresh
        BY <4>1
      <4> QED
        BY <4>2, <2>1 DEF Receive, Refresh
    <3> QED
      BY <3>1, <3>2, HandlerAsks, Reads
  <2>2. CASE Resume(h)
    <3>1. handler[h].at \notin Waiting /\ (Stop(h) \/ Ensure(h))
      BY <2>2 DEF Resume
    <3> QED
      BY <3>1, HandlerAsks
  <2>3. CASE Topology(h)
    <3>1. CASE tag # NoTag
      BY <2>3, <3>1, <1>8, HandlerEnds DEF Topology
    <3>2. CASE tag = NoTag
      <4> DEFINE s == [handler[h] EXCEPT !.at = "consume"]
      <4>1. s \in States /\ s.at \in Waiting
        BY DEF Worker, States
      <4>2. handler' = [handler EXCEPT ![h] = s] /\ requests' = Append(Tail(requests), h) /\ Served(h)
        BY <2>3, <3>2 DEF Topology
      <4> QED
        BY <4>1, <4>2, HandlerGoesOn
    <3> QED
      BY <3>1, <3>2
  <2>4. CASE Consume(h)
    BY <2>4, <1>8, HandlerEnds DEF Consume
  <2>5. CASE Cancel(h)
    BY <2>5, <1>8, HandlerEnds DEF Cancel
  <2> QED
    BY <1>7, <2>1, <2>2, <2>3, <2>4, <2>5 DEF Serve
<1>9. CASE Reconnect
  BY <1>9, HandlersAssumption, Reads DEF Reconnect, Start
<1>10. CASE Recovered
  <2>1. handler[Reconnector].at \notin Waiting /\ Idle \in States /\ Idle.at \notin Waiting
    BY <1>10, IdleType DEF Recovered, Recovering
  <2> QED
    BY <1>10, <2>1, HandlersAssumption, HandlerMoves DEF Recovered
<1> QED
  BY <1>1, <1>2, <1>3, <1>4, <1>5, <1>6, <1>7, <1>9, <1>10 DEF Next, vars

-----------------------------------------------------------------------------
(* Every step keeps the rest.                                               *)

LEMMA SequenceTypes ==
  ASSUME NEW S, NEW s \in Seq(S)
  PROVE  /\ \A e \in S : Append(s, e) \in Seq(S)
         /\ s # <<>> => Head(s) \in S /\ Tail(s) \in Seq(S)
OBVIOUS

\* A refresh that is published leaves the others in their order.
LEMMA Published ==
  ASSUME NEW S, NEW s \in Seq(S), NEW i \in DOMAIN s
  PROVE  [j \in 1..(Len(s) - 1) |-> s[IF j < i THEN j ELSE j + 1]] \in Seq(S)
<1> DEFINE n == Len(s) - 1
<1>1. Len(s) \in Nat /\ Len(s) >= 1 /\ DOMAIN s = 1..Len(s) /\ i \in 1..Len(s)
  OBVIOUS
<1>2. n \in Nat
  BY <1>1
<1>3. \A j \in 1..n : (IF j < i THEN j ELSE j + 1) \in 1..Len(s)
  BY <1>1
<1>4. \A j \in 1..n : s[IF j < i THEN j ELSE j + 1] \in S
  BY <1>1, <1>3
<1>5. \A j \in 1..n : j \in 1..n
  OBVIOUS
<1> HIDE DEF n
<1>6. [j \in 1..n |-> s[IF j < i THEN j ELSE j + 1]] \in [1..n -> S]
  BY <1>4
<1>7. [j \in 1..n |-> s[IF j < i THEN j ELSE j + 1]] \in Seq(S)
  BY <1>2, <1>6
<1> QED
  BY <1>7 DEF n

LEMMA StartTypes ==
  ASSUME Around, NEW h, Start(h)
  PROVE  faults' \in [left : 0..MaxFaults, seen : SUBSET FaultKinds]
BY FaultTypes DEF Around, Start

LEMMA AroundKept ==
  ASSUME Worker, Around, [Next]_vars
  PROVE  Around'
<1>1. CASE UNCHANGED vars
  BY <1>1 DEF Around, vars
<1>2. ASSUME NEW on \in BOOLEAN, NEW refresh \in Refresh, Update(on, refresh)
      PROVE  Around'
  <2>1. unsent' \in Seq(Refresh)
    BY <1>2, SequenceTypes DEF Update, Around
  <2>2. updates' \in 0..MaxUpdates
    BY <1>2, BoundsAssumption DEF Update, Around
  <2> QED
    BY <1>2, <2>1, <2>2 DEF Update, Around, broker
<1>3. CASE \E i \in DOMAIN unsent : Publish(i)
  <2> PICK i \in DOMAIN unsent : Publish(i)
    BY <1>3
  <2>1. unsent' \in Seq(Refresh)
    BY Published DEF Publish, Around
  <2>2. unsent[i] \in Refresh
    BY DEF Around
  <2>3. messages' \in Seq(Refresh)
    BY <2>2, SequenceTypes DEF Publish, Around
  <2>4. faults' \in [left : 0..MaxFaults, seen : SUBSET FaultKinds]
    BY FaultTypes DEF Publish, Around
  <2> QED
    BY <2>1, <2>3, <2>4 DEF Publish, Around, broker
<1>4. CASE PublishFails
  <2>1. unsent' \in Seq(Refresh)
    BY <1>4, SequenceTypes DEF PublishFails, Around
  <2>2. faults' \in [left : 0..MaxFaults, seen : SUBSET FaultKinds]
    BY <1>4, FaultTypes DEF PublishFails, Around
  <2> QED
    BY <1>4, <2>1, <2>2 DEF PublishFails, Around, broker
<1>5. CASE Poll
  BY <1>5, StartTypes DEF Poll, Around, broker, webapi
<1>6. CASE Drop \/ CloseUnheard \/ ReconnectFails
  <2>1. faults' \in [left : 0..MaxFaults, seen : SUBSET FaultKinds]
    BY <1>6, FaultTypes DEF Drop, CloseUnheard, ReconnectFails, Around
  <2> QED
    BY <1>6, <2>1 DEF Drop, CloseUnheard, ReconnectFails, ScheduleReconnect, Around, webapi
<1>7. ASSUME NEW h \in Handlers, Receive(h) \/ Resume(h) \/ Serve(h)
      PROVE  Around'
  <2>1. CASE Receive(h)
    <3>1. messages' \in Seq(Refresh)
      BY <2>1, SequenceTypes DEF Receive, Around
    <3> QED
      BY <2>1, <3>1, StartTypes DEF Receive, Around, broker, webapi
  <2>2. CASE Resume(h)
    BY <2>2 DEF Resume, Around, broker, webapi
  <2>3. CASE Topology(h)
    BY <2>3 DEF Topology, Around, broker, webapi
  <2>4. CASE Consume(h)
    BY <2>4 DEF Consume, Around, webapi
  <2>5. CASE Cancel(h)
    BY <2>5 DEF Cancel, Around, webapi
  <2> QED
    BY <1>7, <2>1, <2>2, <2>3, <2>4, <2>5 DEF Serve
<1>8. CASE Reconnect
  BY <1>8, StartTypes DEF Reconnect, Around, broker, webapi
<1>9. CASE Recovered
  BY <1>9 DEF Recovered, Around, broker, webapi
<1> QED
  BY <1>1, <1>2, <1>3, <1>4, <1>5, <1>6, <1>7, <1>8, <1>9 DEF Next, Refresh

\* Every variable has its type, and a handler that waits for the broker has
\* exactly one request in the channel's queue (rotina-consumer.ts: stopConsumer,
\* ensureTenantTopology and ensureTenantConsumer await one answer each).
THEOREM TenantTypeCorrect == Spec => []TypeOK
<1>1. Init => Worker /\ Around
  <2> SUFFICES ASSUME Init PROVE Worker /\ Around
    OBVIOUS
  <2>1. Around
    BY BoundsAssumption DEF Init, Around, Tags, NoTag
  <2>2. /\ handler \in [Handlers -> States] /\ requests \in Seq(Handlers) /\ DOMAIN requests = {}
        /\ \A h \in Handlers : handler[h].at \notin Waiting
    BY IdleType DEF Init, Waiting
  <2> QED
    BY <2>1, <2>2 DEF Worker
<1>2. Worker /\ Around /\ [Next]_vars => (Worker /\ Around)'
  BY WorkerKept, AroundKept
<1>3. Worker /\ Around => TypeOK
  BY DEF Worker, Around, TypeOK, Waiting, States
<1> QED
  BY <1>1, <1>2, <1>3, PTL DEF Spec

-----------------------------------------------------------------------------
(* One consumer.                                                            *)

\* As long as handlers take turns, a consumer of the broker is the one of the tag.
TagInv ==
  Without({"overlap"}) =>
    /\ \A g, h \in Busy : g = h
    /\ consumers \subseteq {tag} \ {NoTag}
    /\ \A h \in Handlers : handler[h].at = "consume" => tag = NoTag
    /\ \A h \in Handlers : handler[h].at = "cancel" => tag # NoTag /\ handler[h].tag = tag

LEMMA FaultsStay ==
  ASSUME Worker, Around, [Next]_vars, Without({"overlap"})'
  PROVE  Without({"overlap"})
<1>1. ASSUME NEW kind, Fault(kind)
      PROVE  faults.seen \subseteq faults'.seen
  BY <1>1, FaultTypes DEF Around
<1>2. ASSUME NEW h, Start(h)
      PROVE  faults.seen \subseteq faults'.seen
  BY <1>1, <1>2 DEF Start
<1>3. faults.seen \subseteq faults'.seen
  BY <1>1, <1>2 DEF Next, vars, Update, Publish, PublishFails, Poll, Receive, Resume, Serve, Topology,
     Consume, Cancel, Drop, CloseUnheard, Reconnect, ReconnectFails, Recovered
<1> QED
  BY <1>3 DEF Without

\* Without an overlap, a handler starts when no other one is on its way.
LEMMA StartsAlone ==
  ASSUME Around, NEW h \in Handlers, Start(h), Without({"overlap"})'
  PROVE  Busy = {}
<1>1. Busy # {} => faults'.seen = faults.seen \cup {"overlap"}
  BY FaultTypes DEF Start, Around
<1> QED
  BY <1>1 DEF Without

LEMMA TurnTaken ==
  ASSUME Worker, NEW h \in Handlers, Busy = {} \/ h \in Busy, \A f, g \in Busy : f = g,
         NEW s \in States, handler' = [handler EXCEPT ![h] = s]
  PROVE  /\ \A g \in Handlers : handler'[g] = IF g = h THEN s ELSE handler[g]
         /\ \A g \in Handlers : g # h => handler[g].at \in {"idle", "recover"}
         /\ \A f, g \in Busy' : f = g
<1>1. \A g \in Handlers : handler'[g] = IF g = h THEN s ELSE handler[g]
  BY DEF Worker
<1>2. \A g \in Handlers : g # h => handler[g].at \in {"idle", "recover"}
  BY DEF Busy
<1>3. \A g \in Busy' : g = h
  BY <1>1, <1>2 DEF Busy
<1> QED
  BY <1>1, <1>2, <1>3

LEMMA AsksInTurn ==
  ASSUME Worker, Around, NEW h \in Handlers, Busy = {} \/ h \in Busy, TagInv, Without({"overlap"}),
         UNCHANGED broker
  PROVE  /\ Stop(h) => TagInv'
         /\ Ensure(h) => TagInv'
<1>1. handler[h] \in States /\ tag \in Tags \cup {NoTag}
  BY DEF Worker, Around
<1>2. ASSUME NEW at \in {"topology", "cancel"}, NEW t \in Tags \cup {NoTag}, Request(h, at, t),
             at = "cancel" => t = tag /\ tag # NoTag
      PROVE  TagInv'
  <2> DEFINE s == [handler[h] EXCEPT !.at = at, !.tag = t]
  <2>1. s \in States /\ s.at = at /\ s.tag = t
    BY <1>1 DEF States
  <2>2. handler' = [handler EXCEPT ![h] = s]
    BY <1>2, <1>1 DEF Request, Worker, States
  <2> HIDE DEF s
  <2>3. /\ \A g \in Handlers : handler'[g] = IF g = h THEN s ELSE handler[g]
        /\ \A g \in Handlers : g # h => handler[g].at \in {"idle", "recover"}
        /\ \A f, g \in Busy' : f = g
    BY <2>1, <2>2, TurnTaken DEF TagInv
  <2> QED
    BY <1>2, <2>1, <2>3 DEF TagInv, broker
<1>3. ASSUME End(h)
      PROVE  TagInv'
  <2>1. /\ \A g \in Handlers : handler'[g] = IF g = h THEN Ended(h) ELSE handler[g]
        /\ \A g \in Handlers : g # h => handler[g].at \in {"idle", "recover"}
        /\ \A f, g \in Busy' : f = g
    BY <1>3, EndedType, TurnTaken DEF TagInv, End
  <2> QED
    BY <2>1, EndedType DEF TagInv, broker
<1> QED
  BY <1>1, <1>2, <1>3 DEF Stop, Ensure

LEMMA ReadsInTurn ==
  ASSUME Worker, Around, NEW h \in Handlers, Busy = {} \/ h \in Busy, TagInv, Without({"overlap"}),
         UNCHANGED broker, Reconcile(h)
  PROVE  TagInv'
<1> DEFINE s == [at |-> "read", on |-> active, tag |-> NoTag]
<1>1. s \in States /\ s.at = "read"
  BY DEF States, Around
<1> HIDE DEF s
<1>2. handler' = [handler EXCEPT ![h] = s]
  BY DEF Reconcile, s
<1>3. /\ \A g \in Handlers : handler'[g] = IF g = h THEN s ELSE handler[g]
      /\ \A g \in Handlers : g # h => handler[g].at \in {"idle", "recover"}
      /\ \A f, g \in Busy' : f = g
  BY <1>1, <1>2, TurnTaken DEF TagInv
<1> QED
  BY <1>1, <1>3 DEF TagInv, broker

LEMMA ServedInTurn ==
  ASSUME Worker, Around, NEW h \in Handlers, TagInv, Without({"overlap"}), Serve(h)
  PROVE  TagInv'
<1>1. h \in Busy /\ handler[h] \in States
  BY DEF Serve, Topology, Consume, Cancel, Busy, Worker
<1>2. ASSUME handler' = [handler EXCEPT ![h] = Ended(h)], consumers' \subseteq {tag'} \ {NoTag}
      PROVE  TagInv'
  <2>1. /\ \A g \in Handlers : handler'[g] = IF g = h THEN Ended(h) ELSE handler[g]
        /\ \A g \in Handlers : g # h => handler[g].at \in {"idle", "recover"}
        /\ \A f, g \in Busy' : f = g
    BY <1>1, <1>2, EndedType, TurnTaken DEF TagInv
  <2> QED
    BY <1>2, <2>1, EndedType DEF TagInv
<1>3. CASE Topology(h)
  <2>1. CASE tag # NoTag
    BY <1>2, <1>3, <2>1 DEF Topology, TagInv, broker
  <2>2. CASE tag = NoTag
    <3> DEFINE s == [handler[h] EXCEPT !.at = "consume"]
    <3>1. s \in States /\ s.at = "consume"
      BY <1>1 DEF States
    <3>2. handler' = [handler EXCEPT ![h] = s]
      BY <1>1, <1>3, <2>2 DEF Topology, Worker
    <3> HIDE DEF s
    <3>3. /\ \A g \in Handlers : handler'[g] = IF g = h THEN s ELSE handler[g]
          /\ \A g \in Handlers : g # h => handler[g].at \in {"idle", "recover"}
          /\ \A f, g \in Busy' : f = g
      BY <1>1, <3>1, <3>2, TurnTaken DEF TagInv
    <3> QED
      BY <1>3, <2>2, <3>1, <3>3 DEF Topology, TagInv, broker
  <2> QED
    BY <2>1, <2>2
<1>4. CASE Consume(h)
  <2>1. tag = NoTag /\ consumers = {}
    BY <1>4 DEF Consume, TagInv
  <2>2. tag' \in Tags /\ consumers' = {tag'}
    BY <1>4, <2>1 DEF Consume
  <2>3. NoTag \notin Tags
    BY DEF Tags, NoTag
  <2> QED
    BY <1>2, <1>4, <2>2, <2>3 DEF Consume
<1>5. CASE Cancel(h)
  <2>1. handler[h].tag = tag /\ consumers \subseteq {tag} \ {NoTag}
    BY <1>5 DEF Cancel, TagInv
  <2> QED
    BY <1>2, <1>5, <2>1 DEF Cancel
<1> QED
  BY <1>3, <1>4, <1>5 DEF Serve

LEMMA TagKept ==
  ASSUME Worker, Around, TagInv, [Next]_vars
  PROVE  TagInv'
<1> SUFFICES ASSUME Without({"overlap"})' PROVE TagInv'
  BY DEF TagInv
<1>1. Without({"overlap"})
  BY FaultsStay
<1>2. ASSUME UNCHANGED <<handler, broker>>
      PROVE  TagInv'
  BY <1>1, <1>2 DEF TagInv, Busy, broker
<1>3. CASE \E on \in BOOLEAN : Update(on, IF on THEN "on" ELSE "off") \/ Update(on, "all")
  BY <1>2, <1>3 DEF Update
<1>4. CASE \E i \in DOMAIN unsent : Publish(i)
  BY <1>2, <1>4 DEF Publish
<1>5. CASE PublishFails
  BY <1>2, <1>5 DEF PublishFails
<1>6. CASE Poll
  BY <1>1, <1>6, HandlersAssumption, StartsAlone, ReadsInTurn DEF Poll
<1>7. CASE Drop \/ CloseUnheard \/ ReconnectFails
  <2>1. PICK kept : Reject(kept)
    BY <1>7 DEF Drop, CloseUnheard, ReconnectFails, ScheduleReconnect
  <2>2. consumers' = {}
    BY <1>7 DEF Drop, CloseUnheard, ReconnectFails, ScheduleReconnect
  <2>3. \A h \in Handlers : handler'[h].at \notin {"consume", "cancel"}
    <3>1. Worker' /\ requests' = <<>>
      BY <2>1, Rejected DEF Reject
    <3> QED
      BY <3>1 DEF Worker, Waiting
  <2>4. Busy' \subseteq Busy
    BY <2>1, Rejected, IdleType DEF Busy
  <2> QED
    BY <1>1, <2>2, <2>3, <2>4 DEF TagInv
<1>8. ASSUME NEW h \in Handlers, Receive(h) \/ Resume(h) \/ Serve(h)
      PROVE  TagInv'
  <2>1. CASE Receive(h)
    <3>1. Busy = {} /\ UNCHANGED broker
      BY <2>1, StartsAlone DEF Receive
    <3>2. Reconcile(h) \/ Stop(h) \/ Ensure(h)
      <4>1. messages \in Seq(Refresh) /\ messages # <<>>
        BY <2>1 DEF Receive, Around
      <4>2. Head(messages) \in Refresh
        BY <4>1
      <4> QED
        BY <4>2, <2>1 DEF Receive, Refresh
    <3> QED
      BY <1>1, <3>1, <3>2, AsksInTurn, ReadsInTurn
  <2>2. CASE Resume(h)
    <3>1. h \in Busy /\ UNCHANGED broker /\ (Stop(h) \/ Ensure(h))
      BY <2>2 DEF Resume, Busy
    <3> QED
      BY <1>1, <3>1, AsksInTurn
  <2>3. CASE Serve(h)
    BY <1>1, <2>3, ServedInTurn
  <2> QED
    BY <1>8, <2>1, <2>2, <2>3
<1>9. CASE Reconnect
  BY <1>1, <1>9, HandlersAssumption, StartsAlone, ReadsInTurn DEF Reconnect
<1>10. CASE Recovered
  <2>1. handler' = [handler EXCEPT ![Reconnector] = Idle] /\ UNCHANGED broker
    BY <1>10 DEF Recovered
  <2>2. /\ \A h \in Handlers : handler'[h] = Idle \/ handler'[h] = handler[h]
        /\ Busy' \subseteq Busy
    BY <2>1, IdleType DEF Worker, Busy
  <2> QED
    BY <1>1, <2>1, <2>2, IdleType DEF TagInv, broker
<1>11. CASE UNCHANGED vars
  BY <1>2, <1>11 DEF vars, broker
<1> QED
  BY <1>3, <1>4, <1>5, <1>6, <1>7, <1>8, <1>9, <1>10, <1>11 DEF Next

\* The queue of the tenant has one consumer as long as handlers take turns, under every
\* loss, delay and reconnection (rotina-consumer.ts: ensureTenantConsumer, stopConsumer).
THEOREM TenantHasOneConsumer == Spec => []OneConsumer
<1>1. Init => Worker /\ Around /\ TagInv
  <2> SUFFICES ASSUME Init PROVE Worker /\ Around /\ TagInv
    OBVIOUS
  <2>1. Around
    BY BoundsAssumption DEF Init, Around, Tags, NoTag
  <2>2. /\ handler \in [Handlers -> States] /\ requests \in Seq(Handlers) /\ DOMAIN requests = {}
        /\ \A h \in Handlers : handler[h].at = "idle"
    BY IdleType DEF Init
  <2>3. Worker
    BY <2>2 DEF Worker, Waiting
  <2>4. TagInv
    BY <2>2 DEF Init, TagInv, Busy
  <2> QED
    BY <2>1, <2>3, <2>4
<1>2. Worker /\ Around /\ TagInv /\ [Next]_vars => (Worker /\ Around /\ TagInv)'
  BY WorkerKept, AroundKept, TagKept
<1>3. TagInv => OneConsumer
  <2>1. consumers \subseteq {tag} \ {NoTag} => consumers = {} \/ consumers = {tag}
    OBVIOUS
  <2>2. Cardinality({}) = 0 /\ Cardinality({tag}) = 1
    BY FS_EmptySet, FS_Singleton
  <2> QED
    BY <2>1, <2>2 DEF TagInv, OneConsumer
<1> QED
  BY <1>1, <1>2, <1>3, PTL DEF Spec

=============================================================================
