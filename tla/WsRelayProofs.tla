---------------------------- MODULE WsRelayProofs ----------------------------
(***************************************************************************)
(* Theorems about the relay to the equipment, for any number of sockets,   *)
(* requests and faults.                                                    *)
(*                                                                         *)
(* That no resolved response lacks a part follows from Collected: while    *)
(* nothing is lost with a socket, there is one socket (OneLink), and of a  *)
(* request that is pending the asker has each part that the connector sent *)
(* or it is on the wire, ahead of those sent after it.                     *)
(*                                                                         *)
(* Of the worker's client, Single says which of its sockets lives.          *)
(***************************************************************************)
EXTENDS WsRelay, WsRelayClient, SequenceTheorems, FiniteSetTheorems, TLAPS

\* A socket that somebody handles has been opened.
Opened == \A s \in Sock : handler[s] # "none" => socket[s] # "none"

TypeInv == TypeOK /\ Opened

-----------------------------------------------------------------------------
LEMMA FaultTypes ==
  ASSUME faults \in [left : 0..MaxFaults, seen : SUBSET FaultKinds], NEW kind, Fault(kind) \/ Mishap(kind)
  PROVE  /\ faults' \in [left : 0..MaxFaults, seen : SUBSET FaultKinds]
         /\ faults'.seen = faults.seen \cup {kind}
<1>1. faults.left \in 0..MaxFaults /\ faults.seen \subseteq FaultKinds
  OBVIOUS
<1>2. CASE Fault(kind)
  <2>1. faults.left - 1 \in 0..MaxFaults
    BY <1>1, <1>2, FaultsAssumption DEF Fault
  <2> QED
    BY <1>1, <1>2, <2>1 DEF Fault
<1>3. CASE Mishap(kind)
  BY <1>1, <1>3 DEF Mishap
<1> QED
  BY <1>2, <1>3

\* The types of one part of the state each.
ConnectionTypes ==
  /\ link \in Sock \cup {None}
  /\ handler \in [Sock -> {"none", "auth", "greeting", "ready", "failed"}]
  /\ socket \in [Sock -> {"none", "open", "closing", "closed"}]
  /\ current \in Sock \cup {None} /\ (current # None => handler[current] \in {"greeting", "ready", "failed"})
  /\ status \in {"ONLINE", "OFFLINE"} /\ writes \subseteq {"ONLINE", "OFFLINE"}
  /\ Opened
RequestTypes ==
  /\ via \in [Req -> Sock \cup {None}]
  /\ exec \in [Req -> {"none", "sent", "device", "START", "CHUNK", "done"}]
  /\ origin \in [Req -> {"none", "live", "dead"}]
  /\ got \in [Req -> SUBSET {"START", "CHUNK"}]
  /\ outcome \in [Req -> {"none", "pending", "resolved", "rejected", "timeout"}]
WireType == wire \in [Sock -> Seq(Message)]
FaultType == faults \in [left : 0..MaxFaults, seen : SUBSET FaultKinds]

LEMMA TypeParts == TypeInv <=> ConnectionTypes /\ RequestTypes /\ WireType /\ FaultType
BY DEF TypeInv, TypeOK, ConnectionTypes, RequestTypes, WireType, FaultType

LEMMA NextTypeParts ==
  ASSUME ConnectionTypes', RequestTypes', WireType', FaultType' PROVE TypeInv'
BY DEF TypeInv, TypeOK, ConnectionTypes, RequestTypes, WireType, FaultType

LEMMA AppendKeepsWire ==
  ASSUME WireType, NEW s \in Sock, NEW m \in Message, wire' = [wire EXCEPT ![s] = Append(@, m)]
  PROVE  WireType'
<1>1. Append(wire[s], m) \in Seq(Message)
  BY AppendProperties DEF WireType
<1> QED
  BY <1>1 DEF WireType

LEMMA ConnectionStepTypes ==
  ASSUME TypeInv, NEW s \in Sock, Connect(s) \/ LinkDrops(s) \/ Accept(s) \/ Greet(s) \/ CheckHeartbeats(s)
  PROVE  TypeInv'
<1>0. ConnectionTypes /\ RequestTypes /\ WireType /\ FaultType /\ NoneAssumption
  BY TypeParts, NoneAssumption
<1>1. RequestTypes' /\ WireType'
  BY <1>0 DEF Connect, LinkDrops, Accept, Greet, CheckHeartbeats, requestVars, RequestTypes, WireType
<1>2. FaultType'
  BY <1>0, FaultTypes DEF Connect, LinkDrops, Accept, Greet, CheckHeartbeats, FaultType
<1>3. ASSUME Connect(s) PROVE ConnectionTypes'
  BY <1>0, <1>3 DEF Connect, Fresh, ConnectionTypes, Opened
<1>4. ASSUME LinkDrops(s) PROVE ConnectionTypes'
  BY <1>0, <1>4 DEF LinkDrops, ConnectionTypes, Opened
<1>5. ASSUME Accept(s) \/ Greet(s) PROVE ConnectionTypes'
  BY <1>0, <1>5 DEF Accept, Greet, ClosedByGateway, ConnectionTypes, Opened
<1>6. ASSUME CheckHeartbeats(s) PROVE ConnectionTypes'
  BY <1>0, <1>6 DEF CheckHeartbeats, ClosedByGateway, ConnectionTypes, Opened
<1> QED
  BY <1>1, <1>2, <1>3, <1>4, <1>5, <1>6, NextTypeParts

LEMMA CloseStepTypes ==
  ASSUME TypeInv, NEW s \in Sock, CloseEvent(s) PROVE TypeInv'
<1>0. ConnectionTypes /\ RequestTypes /\ WireType /\ FaultType
  BY TypeParts
<1>1. RequestTypes' /\ FaultType'
  BY <1>0 DEF CloseEvent, requestVars, RequestTypes, FaultType
<1>2. WireType'
  BY <1>0, EmptySeq DEF CloseEvent, WireType
<1>3. ConnectionTypes'
  BY <1>0 DEF CloseEvent, Disconnect, ConnectionTypes, Opened
<1> QED
  BY <1>1, <1>2, <1>3, NextTypeParts

LEMMA CollectTypes ==
  ASSUME RequestTypes, NEW r \in Req, NEW type, Respond(r, type), UNCHANGED <<via, exec>>
  PROVE  RequestTypes'
<1>1. CASE UNCHANGED <<origin, got, outcome>>
  BY <1>1 DEF RequestTypes
<1>2. CASE Collect(r, type)
  <2>1. origin' \in [Req -> {"none", "live", "dead"}]
    BY DEF Respond, RequestTypes
  <2>2. got[r] \cup ({type} \cap {"START", "CHUNK"}) \in SUBSET {"START", "CHUNK"}
    BY DEF RequestTypes
  <2>3. got' \in [Req -> SUBSET {"START", "CHUNK"}]
    BY <1>2, <2>2 DEF Collect, RequestTypes
  <2>4. outcome' \in [Req -> {"none", "pending", "resolved", "rejected", "timeout"}]
    BY <1>2 DEF Collect, RequestTypes
  <2> QED
    BY <2>1, <2>3, <2>4 DEF RequestTypes
<1> QED
  BY <1>1, <1>2 DEF Respond

LEMMA DeliverTypes ==
  ASSUME TypeInv, NEW s \in Sock, Deliver(s) PROVE TypeInv'
<1>0. ConnectionTypes /\ RequestTypes /\ WireType /\ FaultType
  BY TypeParts
<1>1. wire[s] \in Seq(Message) /\ wire[s] # <<>> /\ wire' = [wire EXCEPT ![s] = Tail(@)]
  BY <1>0 DEF Deliver, WireType
<1>2. Head(wire[s]) \in Message /\ Tail(wire[s]) \in Seq(Message)
  BY <1>1, HeadTailProperties
<1>3. WireType'
  BY <1>0, <1>1, <1>2 DEF WireType
<1>4. FaultType'
  BY <1>0, FaultTypes DEF Deliver, FaultType
<1>5. ConnectionTypes'
  BY <1>0 DEF Deliver, ConnectionTypes, Opened
<1>6. RequestTypes'
  <2>1. CASE UNCHANGED <<origin, got, outcome>>
    BY <1>0, <2>1 DEF Deliver, RequestTypes
  <2>2. CASE Head(wire[s]).type # "PONG" /\ Respond(Head(wire[s]).req, Head(wire[s]).type)
    <3>1. Head(wire[s]).req \in Req
      BY <1>2, <2>2 DEF Message
    <3> QED
      BY <1>0, <2>2, <3>1, CollectTypes DEF Deliver
  <2> QED
    BY <2>1, <2>2 DEF Deliver
<1> QED
  BY <1>3, <1>4, <1>5, <1>6, NextTypeParts

LEMMA RequestStepTypes ==
  ASSUME TypeInv, NEW r \in Req, Ask(r) \/ Receive(r) \/ Answer(r) \/ Timeout(r) PROVE TypeInv'
<1>0. ConnectionTypes /\ RequestTypes /\ WireType /\ FaultType
  BY TypeParts
<1>1. ConnectionTypes'
  BY <1>0 DEF Ask, Receive, Answer, Timeout, connectionVars, ConnectionTypes, Opened
<1>2. FaultType'
  BY <1>0, FaultTypes DEF Ask, Receive, Answer, Timeout, FaultType
<1>3. RequestTypes'
  <2>1. CASE Ask(r)
    BY <1>0, <2>1 DEF Ask, RequestTypes, ConnectionTypes
  <2>2. CASE Receive(r) \/ Answer(r) \/ Timeout(r)
    BY <1>0, <2>2 DEF Receive, Answer, Timeout, ExecTo, RequestTypes
  <2> QED
    BY <2>1, <2>2
<1>4. WireType'
  <2>1. CASE UNCHANGED wire
    BY <1>0, <2>1 DEF WireType
  <2>2. CASE Answer(r)
    <3>1. PICK type \in Part \cup {"ERROR"} : Send([type |-> type, req |-> r])
      BY <2>2 DEF Answer, Part
    <3>2. [type |-> type, req |-> r] \in Message
      BY DEF Message
    <3> QED
      BY <1>0, <2>1, <3>1, <3>2, AppendKeepsWire DEF Send, ConnectionTypes
  <2> QED
    BY <2>1, <2>2 DEF Ask, Receive, Timeout
<1> QED
  BY <1>1, <1>2, <1>3, <1>4, NextTypeParts

LEMMA OtherStepTypes ==
  ASSUME TypeInv,
         \/ InternalDrops
         \/ \E w \in {"ONLINE", "OFFLINE"} : Write(w) \/ WriteFails(w)
         \/ \E s \in Sock : Pong(s)
  PROVE  TypeInv'
<1>0. ConnectionTypes /\ RequestTypes /\ WireType /\ FaultType
  BY TypeParts
<1>1. CASE InternalDrops
  BY <1>0, <1>1, FaultTypes, NextTypeParts
  DEF InternalDrops, connectionVars, ConnectionTypes, Opened, RequestTypes, WireType, FaultType
<1>2. ASSUME NEW w \in {"ONLINE", "OFFLINE"}, Write(w) PROVE TypeInv'
  BY <1>0, <1>2, NextTypeParts DEF Write, requestVars, ConnectionTypes, Opened, RequestTypes, WireType, FaultType
<1>4. ASSUME NEW w \in {"ONLINE", "OFFLINE"}, WriteFails(w) PROVE TypeInv'
  <2>1. FaultType'
    BY <1>0, <1>4, FaultTypes DEF WriteFails, FaultType
  <2>2. WireType' /\ RequestTypes'
    BY <1>0, <1>4, EmptySeq DEF WriteFails, WireType, RequestTypes
  <2>3. ConnectionTypes'
    BY <1>0, <1>4 DEF WriteFails, ConnectionTypes, Opened
  <2> QED
    BY <2>1, <2>2, <2>3, NextTypeParts
<1>3. ASSUME NEW s \in Sock, Pong(s) PROVE TypeInv'
  <2>1. [type |-> "PONG"] \in Message
    BY DEF Message
  <2>2. WireType'
    BY <1>0, <1>3, <2>1, AppendKeepsWire DEF Pong
  <2> QED
    BY <1>0, <1>3, <2>2, NextTypeParts DEF Pong, connectionVars, requestVars, ConnectionTypes, Opened, RequestTypes, FaultType
<1> QED
  BY <1>1, <1>2, <1>3, <1>4

LEMMA StepKeepsTypes == TypeInv /\ [Next]_vars => TypeInv'
<1>1. TypeInv /\ UNCHANGED vars => TypeInv'
  BY DEF vars, TypeInv, TypeOK, Opened
<1>2. TypeInv /\ Next => TypeInv'
  BY ConnectionStepTypes, CloseStepTypes, DeliverTypes, RequestStepTypes, OtherStepTypes
  DEF Next, Gateway, Connector
<1> QED
  BY <1>1, <1>2

LEMMA TypeInvariant == Spec => []TypeInv
<1>1. Init => TypeInv
  BY FaultsAssumption, EmptySeq DEF Init, TypeInv, TypeOK, Opened
<1> QED
  BY <1>1, StepKeepsTypes, PTL DEF Spec

\* The sets of values of the relay; in particular a socket is in connections only
\* once its connector is authenticated.
THEOREM RelayTypeCorrect == Spec => []TypeOK
BY TypeInvariant, PTL DEF TypeInv

-----------------------------------------------------------------------------
LEMMA SeenGrows ==
  ASSUME TypeInv, [Next]_vars PROVE faults.seen \subseteq faults'.seen
<1>1. FaultType
  BY TypeParts
<1>2. ASSUME NEW kind, Fault(kind) \/ Mishap(kind) PROVE faults.seen \subseteq faults'.seen
  BY <1>1, <1>2, FaultTypes DEF FaultType
<1>3. ASSUME NEW s \in Sock, Connect(s) \/ LinkDrops(s) \/ Gateway(s) \/ CheckHeartbeats(s) \/ Pong(s)
      PROVE  faults.seen \subseteq faults'.seen
  BY <1>2, <1>3 DEF Connect, LinkDrops, Gateway, Accept, Greet, CloseEvent, Deliver, CheckHeartbeats, Pong
<1>4. ASSUME NEW r \in Req, Ask(r) \/ Connector(r) \/ Timeout(r) PROVE faults.seen \subseteq faults'.seen
  BY <1>2, <1>4 DEF Ask, Connector, Receive, Answer, Timeout
<1>5. ASSUME InternalDrops \/ \E w \in {"ONLINE", "OFFLINE"} : Write(w) \/ WriteFails(w)
      PROVE  faults.seen \subseteq faults'.seen
  BY <1>2, <1>5 DEF InternalDrops, Write, WriteFails
<1>6. UNCHANGED vars => faults.seen \subseteq faults'.seen
  BY DEF vars
<1> QED
  BY <1>3, <1>4, <1>5, <1>6 DEF Next

LEMMA NotYet ==
  ASSUME TypeInv, [Next]_vars, NEW K, Without(K)'
  PROVE  Without(K) /\ \A kind \in K : ~Fault(kind) /\ ~Mishap(kind)
<1>1. \A kind : Fault(kind) \/ Mishap(kind) => kind \in faults'.seen
  BY FaultTypes, TypeParts DEF FaultType
<1> QED
  BY <1>1, SeenGrows DEF Without

\* No step takes the socket that the connector uses out of connections, but an unheard
\* heartbeat, the late authentication of an older one and the end of the webapi.
THEOREM LiveConnectorKept == Spec => KeepsLiveConnector
<1> DEFINE Kept == Without({"stall", "late"})' =>
                    \A s \in Sock : current = s /\ link = s => current' = s \/ socket'[s] = "closed"
<1>1. ASSUME TypeInv, Next, Without({"stall", "late"})', NEW s \in Sock, current = s, link = s
      PROVE  current' = s \/ socket'[s] = "closed"
  <2>1. ~Fault("stall") /\ ~Mishap("late")
    BY <1>1, NotYet
  <2>2. ASSUME NEW t \in Sock, Accept(t) PROVE current' = s
    BY <1>1, <2>1, <2>2, NoneAssumption DEF Accept
  <2>3. ASSUME NEW t \in Sock, CloseEvent(t) \/ CheckHeartbeats(t) PROVE current' = s
    BY <1>1, <2>1, <2>3 DEF CloseEvent, Disconnect, CheckHeartbeats
  <2>4. ASSUME NEW t \in Sock, Connect(t) \/ LinkDrops(t) \/ Greet(t) \/ Deliver(t) \/ Pong(t) PROVE current' = s
    BY <1>1, <2>4 DEF Connect, LinkDrops, Greet, Deliver, Pong, connectionVars
  <2>5. ASSUME NEW r \in Req, Ask(r) \/ Connector(r) \/ Timeout(r) PROVE current' = s
    BY <1>1, <2>5 DEF Ask, Connector, Receive, Answer, Timeout, connectionVars
  <2>6. ASSUME InternalDrops \/ \E w \in {"ONLINE", "OFFLINE"} : Write(w) PROVE current' = s
    BY <1>1, <2>6 DEF InternalDrops, Write, connectionVars
  <2>7. ASSUME NEW w, WriteFails(w) PROVE socket'[s] = "closed"
    <3>1. handler[s] # "none" /\ ConnectionTypes
      BY <1>1, TypeParts, NoneAssumption DEF ConnectionTypes
    <3> QED
      BY <2>7, <3>1 DEF WriteFails, ConnectionTypes, Opened
  <2> QED
    BY <1>1, <2>2, <2>3, <2>4, <2>5, <2>6, <2>7 DEF Next, Gateway
<1>2. TypeInv /\ [Next]_vars => [Kept]_vars
  BY <1>1
<1> QED
  BY <1>2, TypeInvariant, PTL DEF Spec, KeepsLiveConnector

-----------------------------------------------------------------------------
(* Responses, while no message is lost with a socket or unheard.            *)
Calm == {"drop", "stall", "database", "early"}

\* One socket carries everything.
OneLink ==
  /\ current \in {None, link}
  /\ \A s \in Sock : IF link = s THEN socket[s] = "open" ELSE socket[s] = "none" /\ wire[s] = <<>>
  /\ \A r \in Req : exec[r] # "none" => link # None /\ via[r] = link

Sent(r, type) == [type |-> type, req |-> r]

\* A part of the response of r is among those collected, g, or on the wire w before position i.
Has(g, r, part, w, i) == part \in g \/ \E j \in 1..(i - 1) : w[j] = Sent(r, part)

\* The head comes before the body and both before the end; the connector is at step.
InOrder(g, r, w, step) ==
  /\ \A i \in 1..Len(w) : /\ w[i] = Sent(r, "CHUNK") => Has(g, r, "START", w, i)
                          /\ w[i] = Sent(r, "END") => Has(g, r, "START", w, i) /\ Has(g, r, "CHUNK", w, i)
  /\ step \in {"START", "CHUNK"} => Has(g, r, "START", w, Len(w) + 1)
  /\ step = "CHUNK" => Has(g, r, "CHUNK", w, Len(w) + 1)

NotOn(r, w) == \A i \in 1..Len(w) : \A type \in Part \cup {"ERROR"} : w[i] # Sent(r, type)

Wire == IF link = None THEN <<>> ELSE wire[link]

CollectedBy(r) ==
  /\ outcome[r] = "none" => exec[r] = "none"
  /\ exec[r] = "none" => NotOn(r, Wire)
  /\ outcome[r] = "pending" => exec[r] # "none" /\ origin[r] # "dead" /\ InOrder(got[r], r, Wire, exec[r])
  /\ outcome[r] = "resolved" => got[r] = {"START", "CHUNK"}
Collected == \A r \in Req : CollectedBy(r)

RelayInv == TypeInv /\ (Without(Calm) => OneLink /\ Collected)

\* A message is taken off the wire, and collected if it is a part of r.
LEMMA TailKeepsOrder ==
  ASSUME NEW r, NEW w \in Seq(Message), w # <<>>, NEW g, NEW h, NEW step, InOrder(g, r, w, step), g \subseteq h,
         \A part \in {"START", "CHUNK"} : Head(w) = Sent(r, part) => part \in h
  PROVE  InOrder(h, r, Tail(w), step)
<1>1. /\ Len(w) \in Nat \ {0} /\ Len(Tail(w)) = Len(w) - 1 /\ Head(w) = w[1]
      /\ \A i \in 1..Len(Tail(w)) : Tail(w)[i] = w[i + 1]
  BY HeadTailProperties, LenProperties, EmptySeq
<1>2. ASSUME NEW i \in 1..Len(w), NEW part \in {"START", "CHUNK"}, Has(g, r, part, w, i + 1)
      PROVE  Has(h, r, part, Tail(w), i)
  <2>1. CASE part \in g
    BY <2>1 DEF Has
  <2>2. ASSUME NEW j \in 1..(i + 1 - 1), w[j] = Sent(r, part) PROVE Has(h, r, part, Tail(w), i)
    <3>1. CASE j = 1
      BY <1>1, <2>2, <3>1 DEF Has
    <3>2. CASE j # 1
      <4>1. j - 1 \in 1..(i - 1) /\ j - 1 \in 1..Len(Tail(w)) /\ (j - 1) + 1 = j
        BY <1>1, <2>2, <3>2
      <4>2. Tail(w)[j - 1] = w[j]
        BY <1>1, <4>1
      <4> QED
        BY <2>2, <4>1, <4>2 DEF Has
    <3> QED
      BY <3>1, <3>2
  <2> QED
    BY <1>2, <2>1, <2>2 DEF Has
<1>3. ASSUME NEW i \in 1..Len(Tail(w))
      PROVE  /\ Tail(w)[i] = Sent(r, "CHUNK") => Has(h, r, "START", Tail(w), i)
             /\ Tail(w)[i] = Sent(r, "END") => Has(h, r, "START", Tail(w), i) /\ Has(h, r, "CHUNK", Tail(w), i)
  <2>1. i + 1 \in 1..Len(w) /\ i \in 1..Len(w) /\ Tail(w)[i] = w[i + 1]
    BY <1>1
  <2> QED
    BY <1>2, <2>1 DEF InOrder
<1>4. Len(Tail(w)) + 1 = Len(w) /\ Len(w) \in 1..Len(w)
  BY <1>1
<1>5. \A part \in {"START", "CHUNK"} : Has(g, r, part, w, Len(w) + 1) => Has(h, r, part, Tail(w), Len(Tail(w)) + 1)
  BY <1>2, <1>4
<1> QED
  BY <1>3, <1>5 DEF InOrder

\* A message is put on the wire, at the step it is for if it is a part of r.
LEMMA AppendKeepsOrder ==
  ASSUME NEW r, NEW w \in Seq(Message), NEW m \in Message, NEW g, NEW step, NEW next, InOrder(g, r, w, step),
         m = Sent(r, "CHUNK") => step \in {"START", "CHUNK"},
         m = Sent(r, "END") => step = "CHUNK",
         next \in {"START", "CHUNK"} => m = Sent(r, "START") \/ step \in {"START", "CHUNK"},
         next = "CHUNK" => m = Sent(r, "CHUNK") \/ step = "CHUNK"
  PROVE  InOrder(g, r, Append(w, m), next)
<1> DEFINE v == Append(w, m)
<1>1. /\ Len(w) \in Nat /\ Len(v) = Len(w) + 1 /\ v[Len(w) + 1] = m
      /\ \A i \in 1..Len(w) : v[i] = w[i]
  BY AppendProperties, LenProperties
<1> HIDE DEF v
<1>2. ASSUME NEW i \in 1..(Len(w) + 1), NEW k \in 1..(Len(v) + 1), i <= k, NEW part, Has(g, r, part, w, i)
      PROVE  Has(g, r, part, v, k)
  <2>1. CASE part \in g
    BY <2>1 DEF Has
  <2>2. ASSUME NEW j \in 1..(i - 1), w[j] = Sent(r, part) PROVE Has(g, r, part, v, k)
    <3>1. j \in 1..(k - 1) /\ v[j] = w[j]
      BY <1>1, <1>2
    <3> QED
      BY <2>2, <3>1 DEF Has
  <2> QED
    BY <1>2, <2>1, <2>2 DEF Has
<1>3. \A part : m = Sent(r, part) => Has(g, r, part, v, Len(v) + 1)
  <2>1. Len(w) + 1 \in 1..(Len(v) + 1 - 1)
    BY <1>1
  <2> QED
    BY <1>1, <2>1 DEF Has
<1>4. \A i \in 1..Len(v) : i \in 1..Len(w) \/ i = Len(w) + 1
  BY <1>1
<1>5. ASSUME NEW i \in 1..Len(v)
      PROVE  /\ v[i] = Sent(r, "CHUNK") => Has(g, r, "START", v, i)
             /\ v[i] = Sent(r, "END") => Has(g, r, "START", v, i) /\ Has(g, r, "CHUNK", v, i)
  <2>1. CASE i \in 1..Len(w)
    <3>1. v[i] = w[i] /\ i \in 1..(Len(w) + 1) /\ i \in 1..(Len(v) + 1) /\ i <= i
      BY <1>1, <2>1
    <3> QED
      BY <1>2, <2>1, <3>1 DEF InOrder
  <2>2. CASE i = Len(w) + 1
    <3>1. v[i] = m /\ i \in 1..(Len(w) + 1) /\ i \in 1..(Len(v) + 1) /\ i <= i
      BY <1>1, <2>2
    <3> QED
      BY <1>2, <2>2, <3>1 DEF InOrder
  <2> QED
    BY <1>4, <2>1, <2>2
<1>6. Len(w) + 1 \in 1..(Len(w) + 1) /\ Len(v) + 1 \in 1..(Len(v) + 1) /\ Len(w) + 1 <= Len(v) + 1
  BY <1>1
<1>7. \A part : Has(g, r, part, w, Len(w) + 1) => Has(g, r, part, v, Len(v) + 1)
  BY <1>2, <1>6
<1>8. InOrder(g, r, v, next)
  BY <1>3, <1>5, <1>7 DEF InOrder
<1> QED
  BY <1>8 DEF v

LEMMA StepKeepsOneLink ==
  ASSUME TypeInv, OneLink, Next, \A kind \in {"drop", "stall", "database"} : ~Fault(kind)
  PROVE  OneLink'
<1>0. ConnectionTypes /\ RequestTypes /\ WireType /\ None \notin Sock
  BY TypeParts, NoneAssumption
<1>1. ASSUME NEW s \in Sock, Connect(s) PROVE OneLink'
  BY <1>0, <1>1 DEF Connect, Fresh, requestVars, OneLink, ConnectionTypes
<1>2. ASSUME NEW s \in Sock, LinkDrops(s) \/ CloseEvent(s) \/ CheckHeartbeats(s) PROVE FALSE
  BY <1>0, <1>2 DEF LinkDrops, CloseEvent, CheckHeartbeats, OneLink
<1>3. ASSUME NEW s \in Sock, Accept(s) \/ Greet(s) PROVE OneLink'
  BY <1>0, <1>3 DEF Accept, Greet, requestVars, OneLink, ConnectionTypes, Opened
<1>4. ASSUME NEW s \in Sock, Pong(s) \/ Deliver(s) PROVE OneLink'
  BY <1>0, <1>4 DEF Pong, Deliver, connectionVars, requestVars, OneLink, WireType
<1>5. ASSUME NEW r \in Req, Ask(r) PROVE OneLink'
  BY <1>0, <1>5 DEF Ask, connectionVars, OneLink, RequestTypes
<1>6. ASSUME NEW r \in Req, Connector(r) PROVE OneLink'
  BY <1>0, <1>6 DEF Connector, Receive, Answer, Send, ExecTo, connectionVars, OneLink, RequestTypes, WireType
<1>7. ASSUME InternalDrops \/ (\E w \in {"ONLINE", "OFFLINE"} : Write(w)) \/ \E r \in Req : Timeout(r)
      PROVE  OneLink'
  BY <1>7 DEF InternalDrops, Write, Timeout, connectionVars, requestVars, OneLink
<1>8. ASSUME NEW w, WriteFails(w) PROVE FALSE
  BY <1>8 DEF WriteFails
<1> QED
  BY <1>1, <1>2, <1>3, <1>4, <1>5, <1>6, <1>7, <1>8 DEF Next, Gateway

LEMMA StepKeepsCollected ==
  ASSUME TypeInv, OneLink, Collected, Next, OneLink', \A kind \in Calm : ~Fault(kind) /\ ~Mishap(kind)
  PROVE  Collected'
<1>0. ConnectionTypes /\ RequestTypes /\ WireType /\ None \notin Sock
  BY TypeParts, NoneAssumption
<1>1. Wire \in Seq(Message)
  BY <1>0, EmptySeq DEF Wire, ConnectionTypes, WireType
<1>2. ASSUME UNCHANGED <<outcome, exec, origin, got>>, Wire' = Wire PROVE Collected'
  BY <1>2 DEF Collected, CollectedBy
<1>3. ASSUME NEW s \in Sock, Connect(s) PROVE Collected'
  <2>1. Wire' = Wire
    BY <1>0, <1>3 DEF Connect, OneLink, Wire
  <2> QED
    BY <1>2, <1>3, <2>1 DEF Connect, requestVars
<1>4. ASSUME NEW s \in Sock, Accept(s) \/ Greet(s) PROVE Collected'
  BY <1>2, <1>4 DEF Accept, Greet, requestVars, Wire
<1>5. ASSUME NEW s \in Sock, LinkDrops(s) \/ CloseEvent(s) \/ CheckHeartbeats(s) PROVE FALSE
  BY <1>0, <1>5 DEF LinkDrops, CloseEvent, CheckHeartbeats, OneLink, Calm
<1>6. ASSUME NEW m \in Message, Wire' = Append(Wire, m), UNCHANGED <<outcome, origin, got>>,
             \A r \in Req : exec'[r] = exec[r] /\ \A type \in Part \cup {"ERROR"} : m # Sent(r, type)
      PROVE  Collected'
  <2> SUFFICES ASSUME NEW r \in Req PROVE CollectedBy(r)'
    BY DEF Collected
  <2>1. NotOn(r, Wire) => NotOn(r, Wire')
    <3>1. /\ Len(Wire) \in Nat /\ Len(Wire') = Len(Wire) + 1 /\ Wire'[Len(Wire) + 1] = m
          /\ \A i \in 1..Len(Wire) : Wire'[i] = Wire[i]
      BY <1>1, <1>6, AppendProperties, LenProperties
    <3>2. \A i \in 1..Len(Wire') : i \in 1..Len(Wire) \/ i = Len(Wire) + 1
      BY <3>1
    <3> QED
      BY <1>6, <3>1, <3>2 DEF NotOn
  <2>2. InOrder(got[r], r, Wire, exec[r]) => InOrder(got[r], r, Wire', exec[r])
    BY <1>1, <1>6, AppendKeepsOrder DEF Part
  <2> QED
    BY <1>6, <2>1, <2>2 DEF Collected, CollectedBy
<1>7. ASSUME NEW s \in Sock, Pong(s) PROVE Collected'
  <2>1. [type |-> "PONG"] \in Message /\ \A r \in Req : \A type \in Part \cup {"ERROR"} : [type |-> "PONG"] # Sent(r, type)
    BY DEF Message, Sent, Part
  <2>2. Wire' = Append(Wire, [type |-> "PONG"])
    BY <1>0, <1>7 DEF Pong, connectionVars, Wire, WireType
  <2> QED
    BY <1>6, <1>7, <2>1, <2>2 DEF Pong, requestVars
<1>8. ASSUME NEW s \in Sock, Deliver(s) PROVE Collected'
  <2>1. link = s /\ handler[s] = "ready" /\ Wire = wire[s] /\ Wire # <<>> /\ Wire' = Tail(Wire)
    BY <1>0, <1>8 DEF Deliver, OneLink, Wire, WireType, Calm
  <2> DEFINE m == Head(Wire)
  <2>2. m \in Message
    BY <1>1, <2>1, HeadTailProperties
  <2>3. /\ m.type = "PONG" => UNCHANGED <<origin, got, outcome>>
        /\ m.type # "PONG" => Respond(m.req, m.type)
        /\ UNCHANGED exec
    BY <1>8, <2>1 DEF Deliver
  <2>4. m.type = "PONG" \/ (m.req \in Req /\ m.type \in Part \cup {"ERROR"} /\ m = Sent(m.req, m.type))
    BY <2>2 DEF Message, Sent
  <2>5. /\ Len(Wire) \in Nat \ {0} /\ Len(Wire') = Len(Wire) - 1 /\ m = Wire[1]
        /\ \A i \in 1..Len(Wire') : Wire'[i] = Wire[i + 1]
    BY <1>1, <2>1, HeadTailProperties, LenProperties, EmptySeq
  <2> HIDE DEF m
  <2>6. ASSUME NEW r \in Req PROVE CollectedBy(r)'
    <3>0. CollectedBy(r) /\ outcome[r] \in {"none", "pending", "resolved", "rejected", "timeout"}
      BY <1>0 DEF Collected, RequestTypes
    <3>1. NotOn(r, Wire) => NotOn(r, Wire')
      <4>1. \A i \in 1..Len(Wire') : i + 1 \in 1..Len(Wire)
        BY <2>5
      <4> QED
        BY <2>5, <4>1 DEF NotOn
    <3>2. CASE outcome[r] # "pending"
      <4>1. outcome'[r] = outcome[r] /\ got'[r] = got[r]
        <5>1. CASE m.type = "PONG"
          BY <2>3, <5>1
        <5>2. CASE m.type # "PONG"
          BY <1>0, <2>3, <2>4, <3>2, <5>2 DEF Respond, Collect, RequestTypes
        <5> QED
          BY <5>1, <5>2
      <4> QED
        BY <2>3, <3>0, <3>1, <3>2, <4>1 DEF CollectedBy
    <3>3. CASE outcome[r] = "pending"
      <4>1. origin[r] # "dead" /\ exec[r] # "none" /\ InOrder(got[r], r, Wire, exec[r])
        BY <3>0, <3>3 DEF CollectedBy
      <4>2. CASE m.type = "PONG" \/ m.req # r
        <5>1. outcome'[r] = outcome[r] /\ got'[r] = got[r] /\ origin'[r] = origin[r]
          <6>1. CASE m.type = "PONG"
            BY <2>3, <6>1
          <6>2. CASE m.type # "PONG" /\ m.req # r
            BY <1>0, <2>3, <2>4, <6>2 DEF Respond, Collect, RequestTypes
          <6> QED
            BY <4>2, <6>1, <6>2
        <5>2. \A part \in {"START", "CHUNK"} : m # Sent(r, part)
          BY <2>4, <4>2 DEF Sent
        <5>3. InOrder(got[r], r, Tail(Wire), exec[r])
          BY <1>1, <2>1, <4>1, <5>2, TailKeepsOrder DEF m
        <5> QED
          BY <2>1, <2>3, <3>3, <4>1, <5>1, <5>3 DEF CollectedBy
      <4>3. CASE m.type # "PONG" /\ m.req = r
        <5>1. Respond(r, m.type) /\ m.type \in Part \cup {"ERROR"} /\ m = Sent(r, m.type)
          BY <2>3, <2>4, <4>3
        <5>2. /\ got'[r] = got[r] \cup ({m.type} \cap {"START", "CHUNK"})
              /\ outcome'[r] = CASE m.type = "END" -> "resolved" [] m.type = "ERROR" -> "rejected" [] OTHER -> "pending"
              /\ m.type \notin {"END", "ERROR"} => origin'[r] # "dead"
          BY <1>0, <3>3, <4>1, <5>1 DEF Respond, Collect, RequestTypes
        <5>3. CASE m.type \in {"START", "CHUNK"}
          <6>1. \A part \in {"START", "CHUNK"} : m = Sent(r, part) => part \in got'[r]
            <7>1. m.type \in got'[r]
              BY <5>2, <5>3
            <7>2. \A part : Sent(r, part).type = part
              BY DEF Sent
            <7> QED
              BY <7>1, <7>2
          <6>2. InOrder(got'[r], r, Tail(Wire), exec[r])
            BY <1>1, <2>1, <4>1, <5>2, <6>1, TailKeepsOrder DEF m
          <6> QED
            BY <2>1, <2>3, <4>1, <5>2, <5>3, <6>2 DEF CollectedBy
        <5>4. CASE m.type = "END"
          <6>1. Wire[1] = Sent(r, "END") /\ 1 \in 1..Len(Wire)
            BY <2>5, <5>1, <5>4
          <6>2. Has(got[r], r, "START", Wire, 1) /\ Has(got[r], r, "CHUNK", Wire, 1)
            BY <4>1, <6>1 DEF InOrder
          <6>3. got[r] = {"START", "CHUNK"}
            BY <1>0, <6>2 DEF Has, RequestTypes
          <6> QED
            BY <2>3, <4>1, <5>2, <5>4, <6>3 DEF CollectedBy
        <5>5. CASE m.type = "ERROR"
          BY <2>3, <4>1, <5>2, <5>5 DEF CollectedBy
        <5> QED
          BY <5>1, <5>3, <5>4, <5>5 DEF Part
      <4> QED
        BY <4>2, <4>3
    <3> QED
      BY <3>2, <3>3
  <2> QED
    BY <2>6 DEF Collected
<1>9. ASSUME NEW r \in Req, Ask(r) PROVE Collected'
  <2>1. /\ UNCHANGED got /\ Wire' = Wire /\ outcome[r] = "none" /\ outcome'[r] \in {"rejected", "pending"}
        /\ \A q \in Req \ {r} : outcome'[q] = outcome[q] /\ exec'[q] = exec[q] /\ origin'[q] = origin[q]
        /\ outcome'[r] = "pending" => exec'[r] = "sent" /\ origin'[r] # "dead"
        /\ outcome'[r] = "rejected" => exec'[r] = exec[r]
    BY <1>0, <1>9 DEF Ask, connectionVars, Wire, RequestTypes
  <2>2. NotOn(r, Wire)
    BY <2>1 DEF Collected, CollectedBy
  <2>3. InOrder(got[r], r, Wire, "sent")
    BY <2>2 DEF NotOn, InOrder, Part
  <2>4. CollectedBy(r)'
    BY <2>1, <2>2, <2>3 DEF CollectedBy
  <2>5. \A q \in Req \ {r} : CollectedBy(q)'
    BY <2>1 DEF Collected, CollectedBy
  <2> QED
    BY <2>4, <2>5 DEF Collected
<1>10. ASSUME NEW r \in Req, Receive(r) PROVE Collected'
  <2>1. /\ UNCHANGED <<outcome, origin, got>> /\ Wire' = Wire /\ exec[r] = "sent" /\ exec'[r] \in {"device", "done"}
        /\ \A q \in Req \ {r} : exec'[q] = exec[q]
    BY <1>0, <1>10 DEF Receive, ExecTo, connectionVars, Wire, RequestTypes
  <2>2. InOrder(got[r], r, Wire, exec[r]) => InOrder(got[r], r, Wire, exec'[r])
    BY <2>1 DEF InOrder
  <2>3. CollectedBy(r)'
    BY <2>1, <2>2 DEF Collected, CollectedBy
  <2>4. \A q \in Req \ {r} : CollectedBy(q)'
    BY <2>1 DEF Collected, CollectedBy
  <2> QED
    BY <2>3, <2>4 DEF Collected
<1>11. ASSUME NEW r \in Req, Answer(r) PROVE Collected'
  <2>1. PICK type \in Part \cup {"ERROR"}, next \in {"START", "CHUNK", "done"} :
             /\ Send(Sent(r, type)) /\ ExecTo(r, next)
             /\ \/ exec[r] = "device" /\ type = "START" /\ next = "START"
                \/ exec[r] = "START" /\ type = "CHUNK" /\ next = "CHUNK"
                \/ exec[r] = "CHUNK" /\ type = "END" /\ next = "done"
                \/ type = "ERROR" /\ next = "done"
    BY <1>11 DEF Answer, Sent, Part
  <2> DEFINE m == Sent(r, type)
  <2>2. m \in Message /\ \A q \in Req : \A t \in Part \cup {"ERROR"} : m = Sent(q, t) => q = r /\ t = type
    BY DEF Message, Sent
  <2>3. link # None /\ link \in Sock /\ exec[r] # "none"
    BY <1>0, <1>11 DEF Answer, OneLink, ConnectionTypes
  <2>4. Wire' = Append(Wire, m) /\ UNCHANGED <<outcome, origin, got>>
    BY <1>0, <1>11, <2>1, <2>3 DEF Answer, Send, connectionVars, Wire, WireType
  <2>5. exec'[r] = next /\ \A q \in Req \ {r} : exec'[q] = exec[q]
    BY <1>0, <2>1 DEF ExecTo, RequestTypes
  <2>6. /\ Len(Wire) \in Nat /\ Len(Wire') = Len(Wire) + 1 /\ Wire'[Len(Wire) + 1] = m
        /\ \A i \in 1..Len(Wire) : Wire'[i] = Wire[i]
    BY <1>1, <2>2, <2>4, AppendProperties, LenProperties
  <2> HIDE DEF m
  <2>7. ASSUME NEW q \in Req \ {r} PROVE CollectedBy(q)'
    <3>1. NotOn(q, Wire) => NotOn(q, Wire')
      <4>1. \A i \in 1..Len(Wire') : i \in 1..Len(Wire) \/ i = Len(Wire) + 1
        BY <2>6
      <4> QED
        BY <2>2, <2>6, <4>1 DEF NotOn
    <3>2. InOrder(got[q], q, Wire, exec[q]) => InOrder(got[q], q, Wire', exec[q])
      BY <1>1, <2>2, <2>4, AppendKeepsOrder DEF Part
    <3> QED
      BY <2>4, <2>5, <3>1, <3>2 DEF Collected, CollectedBy
  <2>8. InOrder(got[r], r, Wire, exec[r]) => InOrder(got[r], r, Wire', next)
    <3>1. m = Sent(r, "CHUNK") => type = "CHUNK"
      BY <2>2 DEF Part
    <3>2. m = Sent(r, "END") => type = "END"
      BY <2>2 DEF Part
    <3>3. m = Sent(r, type)
      BY DEF m
    <3>4. /\ m = Sent(r, "CHUNK") => exec[r] \in {"START", "CHUNK"}
          /\ m = Sent(r, "END") => exec[r] = "CHUNK"
          /\ next \in {"START", "CHUNK"} => m = Sent(r, "START") \/ exec[r] \in {"START", "CHUNK"}
          /\ next = "CHUNK" => m = Sent(r, "CHUNK") \/ exec[r] = "CHUNK"
      BY <2>1, <3>1, <3>2, <3>3
    <3> QED
      BY <1>1, <2>2, <2>4, <3>4, AppendKeepsOrder
  <2>9. CollectedBy(r)'
    BY <2>3, <2>4, <2>5, <2>8 DEF Collected, CollectedBy
  <2> QED
    BY <2>7, <2>9 DEF Collected
<1>12. ASSUME NEW r \in Req, Timeout(r) PROVE Collected'
  BY <1>0, <1>12 DEF Timeout, connectionVars, Wire, Collected, CollectedBy, RequestTypes
<1>13. CASE InternalDrops
  BY <1>0, <1>13 DEF InternalDrops, connectionVars, Wire, Collected, CollectedBy, RequestTypes
<1>14. ASSUME NEW w \in {"ONLINE", "OFFLINE"}, Write(w) PROVE Collected'
  BY <1>2, <1>14 DEF Write, requestVars, Wire
<1>15. ASSUME NEW w, WriteFails(w) PROVE FALSE
  BY <1>15 DEF WriteFails, Calm
<1> QED
  BY <1>3, <1>4, <1>5, <1>7, <1>8, <1>9, <1>10, <1>11, <1>12, <1>13, <1>14, <1>15 DEF Next, Gateway, Connector

LEMMA RelayInvariant == Spec => []RelayInv
<1>1. ASSUME Init, TypeInv PROVE RelayInv
  <2>1. OneLink
    BY <1>1, NoneAssumption DEF Init, OneLink
  <2>2. Wire = <<>> /\ 1..Len(Wire) = {}
    BY <1>1 DEF Init, Wire
  <2>3. \A r \in Req : outcome[r] = "none" /\ exec[r] = "none"
    BY <1>1 DEF Init
  <2>4. Collected
    BY <2>2, <2>3 DEF Collected, CollectedBy, NotOn
  <2> QED
    BY <1>1, <2>1, <2>4 DEF RelayInv
<1>2. TypeInv /\ TypeInv' /\ RelayInv /\ [Next]_vars => RelayInv'
  <2>1. RelayInv /\ TypeInv' /\ UNCHANGED vars => RelayInv'
    BY DEF vars, RelayInv, OneLink, Collected, CollectedBy, Wire, Without
  <2>2. ASSUME RelayInv, TypeInv, Next, Without(Calm)' PROVE OneLink' /\ Collected'
    <3>1. Without(Calm) /\ \A kind \in Calm : ~Fault(kind) /\ ~Mishap(kind)
      BY <2>2, NotYet
    <3>2. OneLink'
      BY <2>2, <3>1, StepKeepsOneLink DEF RelayInv, Calm
    <3> QED
      BY <2>2, <3>1, <3>2, StepKeepsCollected DEF RelayInv
  <2> QED
    BY <2>1, <2>2 DEF RelayInv
<1> QED
  BY <1>1, <1>2, TypeInvariant, PTL DEF Spec

\* While the connector keeps its socket, whoever is told that a response is complete has
\* its head and its body, for any number of requests at a time, timeouts, errors of the
\* device and ends of the asker's own socket: parts of different responses mix on the
\* wire, but the parts of one stay in order.  Of a response whose parts a lost socket
\* swallowed this says nothing: the gateway resolves it as if it were whole.
THEOREM ResolvedHasAllParts == Spec => []ResolvedIsComplete
<1>1. RelayInv => ResolvedIsComplete
  BY DEF RelayInv, Collected, CollectedBy, ResolvedIsComplete, Calm
<1> QED
  BY <1>1, RelayInvariant, PTL

-----------------------------------------------------------------------------
(* The client of the worker.                                                *)

\* A call waits for a connection or for an answer.
ClientTypeInv == ClientTypeOK /\ \A r \in Call : waiting[r] = Null \/ pending[r] = Null

\* While every socket that ends has closed, this.ws is the one that lives.
Single ==
  /\ \A s \in WebSocket : state[s] # "closing"
  /\ \A s \in WebSocket : state[s] \in Live => ws = s
  /\ \A s \in WebSocket : state[s] \in {"connecting", "hung"} => promise = s

ClientInv == ClientTypeInv /\ (ClientWithout({"error", "goingAway"}) => Single)

LEMMA ClientFaultTypes ==
  ASSUME ClientTypeInv, NEW kind, ClientFault(kind)
  PROVE  /\ clientFaults' \in [left : 0..MaxClientFaults, seen : SUBSET ClientFaultKinds]
         /\ clientFaults'.seen = clientFaults.seen \cup {kind}
<1>1. clientFaults.left \in 0..MaxClientFaults /\ clientFaults.seen \subseteq ClientFaultKinds
  BY DEF ClientTypeInv, ClientTypeOK
<1>2. clientFaults.left - 1 \in 0..MaxClientFaults
  BY <1>1, ClientFaultsAssumption DEF ClientFault
<1> QED
  BY <1>1, <1>2 DEF ClientFault

\* A new socket is asked for when there is none.
LEMMA ConnectOnceKeepsSingle ==
  ASSUME ClientTypeInv, NEW s \in WebSocket, ConnectOnce(s)
  PROVE  /\ state' \in [WebSocket -> {"none", "connecting", "hung", "open", "closing", "closed"}]
         /\ ws' \in WebSocket /\ promise' = s
         /\ Single => Single'
BY NullAssumption
   DEF ClientTypeInv, ClientTypeOK, ConnectOnce, Connected, FreshSocket, StateTo, Live, Single

\* Sockets, calls and faults, one action each.
LEMMA ClientStepKeepsTypes ==
  ASSUME ClientTypeInv, ClientNext PROVE ClientTypeInv'
<1> USE NullAssumption
<1>0. /\ state \in [WebSocket -> {"none", "connecting", "hung", "open", "closing", "closed"}]
      /\ ws \in WebSocket \cup {Null} /\ promise \in WebSocket \cup {Null} /\ timer \in BOOLEAN
      /\ waiting \in [Call -> WebSocket \cup {Null}] /\ pending \in [Call -> WebSocket \cup {Null}]
      /\ calls \in [Call -> {"new", "asked", "answered", "closed", "failed", "timeout"}]
      /\ \A r \in Call : waiting[r] # Null \/ pending[r] # Null => calls[r] = "asked"
      /\ clientFaults \in [left : 0..MaxClientFaults, seen : SUBSET ClientFaultKinds]
      /\ \A r \in Call : waiting[r] = Null \/ pending[r] = Null
  BY DEF ClientTypeInv, ClientTypeOK
<1>1. CASE TimerFires
  <2>1. CASE UNCHANGED <<state, ws, promise>>
    BY <1>0, <1>1, <2>1 DEF TimerFires, ClientTypeInv, ClientTypeOK
  <2>2. ASSUME NEW s \in WebSocket, ConnectOnce(s) PROVE ClientTypeInv'
    BY <1>0, <1>1, <2>2, ConnectOnceKeepsSingle DEF TimerFires, ClientTypeInv, ClientTypeOK
  <2> QED
    BY <1>1, <2>1, <2>2 DEF TimerFires
<1>2. ASSUME NEW s \in WebSocket, Open(s) PROVE ClientTypeInv'
  BY <1>0, <1>2
     DEF Open, StateTo, Clear, Settle, Waiters, ClientTypeInv, ClientTypeOK
<1>3. ASSUME NEW s \in WebSocket, Refused(s) PROVE ClientTypeInv'
  BY <1>0, <1>3, ClientFaultTypes
     DEF Refused, OnClose, StateTo, Clear, Pendings, Waiters, ClientTypeInv, ClientTypeOK
<1>4. ASSUME NEW s \in WebSocket, Hang(s) \/ Error(s) \/ GoingAway(s) PROVE ClientTypeInv'
  BY <1>0, <1>4, ClientFaultTypes
     DEF Hang, Error, GoingAway, StateTo, ClientTypeInv, ClientTypeOK
<1>5. ASSUME NEW s \in WebSocket, Close(s) PROVE ClientTypeInv'
  BY <1>0, <1>5, ClientFaultTypes
     DEF Close, OnClose, StateTo, Clear, Pendings, ClientTypeInv, ClientTypeOK
<1>6. ASSUME NEW r \in Call, SendHttpRequest(r) PROVE ClientTypeInv'
  <2>1. \A s \in WebSocket : ConnectOnce(s) => ClientTypeInv'
    BY <1>0, <1>6, ConnectOnceKeepsSingle DEF SendHttpRequest, Settle, ClientTypeInv, ClientTypeOK
  <2> QED
    BY <1>0, <1>6, <2>1 DEF SendHttpRequest, Settle, Connected, ClientTypeInv, ClientTypeOK
<1>7. ASSUME NEW r \in Call, Answered(r) \/ TimesOut(r) PROVE ClientTypeInv'
  BY <1>0, <1>7 DEF Answered, TimesOut, Settle, ClientTypeInv, ClientTypeOK
<1> QED
  BY <1>1, <1>2, <1>3, <1>4, <1>5, <1>6, <1>7 DEF ClientNext, Event

\* What has not happened now had not before, and does not in this step.
LEMMA ClientSeenGrows ==
  ASSUME ClientTypeInv, ClientNext, ClientWithout({"error", "goingAway"})'
  PROVE  /\ ClientWithout({"error", "goingAway"})
         /\ \A kind \in {"error", "goingAway"} : ~ClientFault(kind)
<1>1. clientFaults'.seen = clientFaults.seen \/ \E kind : ClientFault(kind)
  BY DEF ClientNext, Event, TimerFires, Open, Close, Refused, Hang,
         Error, GoingAway, SendHttpRequest, Answered, TimesOut
<1> QED
  BY <1>1, ClientFaultTypes DEF ClientWithout

LEMMA ClientStepKeepsSingle ==
  ASSUME ClientTypeInv, Single, ClientNext, \A kind \in {"error", "goingAway"} : ~ClientFault(kind)
  PROVE  Single'
<1>0. state \in [WebSocket -> {"none", "connecting", "hung", "open", "closing", "closed"}]
  BY DEF ClientTypeInv, ClientTypeOK
<1>1. CASE TimerFires
  BY <1>1, ConnectOnceKeepsSingle DEF TimerFires, Single, Live
<1>2. ASSUME NEW s \in WebSocket, Open(s) \/ Hang(s) PROVE Single'
  BY <1>0, <1>2 DEF Open, Hang, StateTo, Single, Live
<1>3. ASSUME NEW s \in WebSocket, Refused(s) \/ Close(s) PROVE Single'
  BY <1>0, <1>3 DEF Refused, Close, OnClose, StateTo, Single, Live
<1>4. ASSUME NEW r \in Call, SendHttpRequest(r) PROVE Single'
  BY <1>4, ConnectOnceKeepsSingle DEF SendHttpRequest, Single, Live
<1>5. ASSUME NEW r \in Call, Answered(r) \/ TimesOut(r) PROVE Single'
  BY <1>5 DEF Answered, TimesOut, Single, Live
<1> QED
  BY <1>1, <1>2, <1>3, <1>4, <1>5 DEF ClientNext, Event, Error, GoingAway

LEMMA ClientInvariant == ClientSpec => []ClientInv
<1>1. ASSUME ClientInit PROVE ClientInv
  <2>1. ClientTypeInv
    <3>1. PICK s \in WebSocket :
            /\ state = [t \in WebSocket |-> IF t = s THEN "connecting" ELSE "none"]
            /\ ws = s /\ promise = s
      BY <1>1 DEF ClientInit
    <3>2. state \in [WebSocket -> {"none", "connecting", "hung", "open", "closing", "closed"}] /\ ws \in WebSocket /\ promise \in WebSocket
      BY <3>1
    <3>3. clientFaults \in [left : 0..MaxClientFaults, seen : SUBSET ClientFaultKinds]
      BY <1>1, ClientFaultsAssumption DEF ClientInit
    <3>4. /\ timer = FALSE
          /\ waiting = [r \in Call |-> Null] /\ pending = [r \in Call |-> Null] /\ calls = [r \in Call |-> "new"]
      BY <1>1 DEF ClientInit
    <3> QED
      BY <3>2, <3>3, <3>4 DEF ClientTypeInv, ClientTypeOK
  <2>2. Single
    BY <1>1 DEF ClientInit, Single, Live
  <2> QED
    BY <2>1, <2>2 DEF ClientInv
<1>2. ClientInv /\ [ClientNext]_clientVars => ClientInv'
  <2>1. ClientInv /\ UNCHANGED clientVars => ClientInv'
    BY DEF clientVars, ClientInv, ClientTypeInv, ClientTypeOK, Single, ClientWithout, Live
  <2>2. ASSUME ClientInv, ClientNext, ClientWithout({"error", "goingAway"})' PROVE Single'
    <3>0. ClientTypeInv
      BY <2>2 DEF ClientInv
    <3>1. /\ ClientWithout({"error", "goingAway"})
          /\ \A kind \in {"error", "goingAway"} : ~ClientFault(kind)
      BY <2>2, <3>0, ClientSeenGrows
    <3>2. Single
      BY <2>2, <3>1 DEF ClientInv
    <3> QED
      BY <2>2, <3>0, <3>1, <3>2, ClientStepKeepsSingle
  <2> QED
    BY <2>1, <2>2, ClientStepKeepsTypes DEF ClientInv
<1> QED
  BY <1>1, <1>2, PTL DEF ClientSpec

\* The sets of values of the client; a call that waits or is pending is asked.
THEOREM ClientTypeCorrect == ClientSpec => []ClientTypeOK
<1>1. ClientInv => ClientTypeOK
  BY DEF ClientInv, ClientTypeInv
<1> QED
  BY <1>1, ClientInvariant, PTL

\* However often calls, timers and events ask for a connection, the client has one
\* socket, if none of its sockets takes time to close.
THEOREM ClientHasOneSocket == ClientSpec => []OneSocket
<1>1. ClientInv => OneSocket
  <2> SUFFICES ASSUME Single PROVE Cardinality({s \in WebSocket : state[s] \in Live}) <= 1
    BY DEF ClientInv, OneSocket
  <2> DEFINE lives == {s \in WebSocket : state[s] \in Live}
  <2>1. lives \subseteq {ws}
    BY DEF Single
  <2>2. IsFiniteSet({ws}) /\ Cardinality({ws}) = 1
    BY FS_Singleton
  <2>3. Cardinality(lives) <= Cardinality({ws})
    <3> HIDE DEF lives
    <3> QED
      BY <2>1, <2>2, FS_Subset
  <2> QED
    BY <2>2, <2>3
<1> QED
  BY <1>1, ClientInvariant, PTL
=============================================================================
