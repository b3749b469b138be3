------------------------------- MODULE WsRelay -------------------------------
(***************************************************************************)
(* The relay to the equipment of one institution: the gateway of the webapi *)
(* (webapi/src/connector/ws-relay.gateway.ts), the connector that dials in  *)
(* from the premises (projects/addon/src/services), and the services that   *)
(* send HTTP requests through both.  Time is left out: a heartbeat may be   *)
(* found stale when the link is dead, a request may time out at any moment. *)
(***************************************************************************)
EXTENDS Naturals, Sequences, SequencesExt

CONSTANTS
  Sock,       \* the sockets of the connector, one per (re)connection
  None,       \* no socket
  Req,        \* requestIds
  FaultKinds, \* which faults may happen
  MaxFaults   \* bound on how many

AllFaultKinds == {"drop", "stall", "late", "early", "database", "internal", "device"}

ASSUME NoneAssumption == None \notin Sock
ASSUME FaultsAssumption == FaultKinds \subseteq AllFaultKinds /\ MaxFaults \in Nat

VARIABLES
  link,    \* the open socket of the connector, as the connector sees it
  handler, \* how far handleConnection is with a socket
  socket,  \* its readyState in the gateway
  current, \* the socket in connections
  status,  \* CONStatus
  writes,  \* updates of CONStatus on their way to the database
  wire,    \* messages from the connector, per socket
  via,     \* the socket a request was sent on
  exec,    \* execution of a request by the connector
  origin,  \* requestOrigin: a live socket, or one that closed
  got,     \* what the asker collected of the response
  outcome, \* what he was told
  faults   \* how many may still happen, which kinds did

vars == <<link, handler, socket, current, status, writes, wire, via, exec, origin, got, outcome, faults>>
connectionVars == <<link, handler, socket, current, status, writes>>
requestVars == <<via, exec, origin, got, outcome>>

Part == {"START", "CHUNK", "END"}
Message == [type : Part \cup {"ERROR"}, req : Req] \cup [type : {"PONG"}]

TypeOK ==
  /\ link \in Sock \cup {None}
  /\ handler \in [Sock -> {"none", "auth", "greeting", "ready", "failed"}]
  /\ socket \in [Sock -> {"none", "open", "closing", "closed"}]
  /\ current \in Sock \cup {None} /\ (current # None => handler[current] \in {"greeting", "ready", "failed"})
  /\ status \in {"ONLINE", "OFFLINE"}
  /\ writes \subseteq {"ONLINE", "OFFLINE"}
  /\ wire \in [Sock -> Seq(Message)]
  /\ via \in [Req -> Sock \cup {None}]
  /\ exec \in [Req -> {"none", "sent", "device", "START", "CHUNK", "done"}]
  /\ origin \in [Req -> {"none", "live", "dead"}]
  /\ got \in [Req -> SUBSET {"START", "CHUNK"}]
  /\ outcome \in [Req -> {"none", "pending", "resolved", "rejected", "timeout"}]
  /\ faults \in [left : 0..MaxFaults, seen : SUBSET FaultKinds]

Init ==
  /\ link = None /\ current = None
  /\ handler = [s \in Sock |-> "none"] /\ socket = [s \in Sock |-> "none"]
  /\ status = "OFFLINE" /\ writes = {}
  /\ wire = [s \in Sock |-> <<>>]
  /\ via = [r \in Req |-> None] /\ exec = [r \in Req |-> "none"]
  /\ origin = [r \in Req |-> "none"] /\ got = [r \in Req |-> {}]
  /\ outcome = [r \in Req |-> "none"]
  /\ faults = [left |-> MaxFaults, seen |-> {}]

-----------------------------------------------------------------------------
Fault(kind) ==
  /\ kind \in FaultKinds /\ faults.left > 0
  /\ faults' = [left |-> faults.left - 1, seen |-> faults.seen \cup {kind}]

\* An unlucky order: possible without a fault, or after one.
Mishap(kind) == kind \in FaultKinds /\ faults' = [faults EXCEPT !.seen = @ \cup {kind}]

\* None of these has happened.
Without(kinds) == faults.seen \cap kinds = {}

(* The connection of the connector -----------------------------------------*)
\* A socket it has not used; which is no matter.
Fresh(s) == socket[s] = "none" /\ s = CHOOSE t \in Sock : socket[t] = "none"

Connect(s) ==
  /\ link = None /\ Fresh(s)
  /\ link' = s
  /\ socket' = [socket EXCEPT ![s] = "open"]
  /\ handler' = [handler EXCEPT ![s] = "auth"]
  /\ UNCHANGED <<current, status, writes, wire, requestVars, faults>>

ClosedByGateway(s) == IF socket[s] = "open" THEN [socket EXCEPT ![s] = "closing"] ELSE socket

\* After findByInstituicao: into connections, and on with updateHeartbeat.  It may be
\* late, when the connector has lost that socket and dialled again.
Accept(s) ==
  /\ handler[s] = "auth"
  /\ \/ /\ current' = s /\ handler' = [handler EXCEPT ![s] = "greeting"]
        /\ IF link \notin {s, None} THEN Mishap("late") ELSE UNCHANGED faults
        /\ UNCHANGED socket
     \/ /\ Fault("database")
        /\ handler' = [handler EXCEPT ![s] = "failed"] /\ socket' = ClosedByGateway(s)
        /\ UNCHANGED current
  /\ UNCHANGED <<link, status, writes, wire, requestVars>>

\* After updateHeartbeat: the listeners.  Its failure closes the socket and leaves
\* it in connections.
Greet(s) ==
  /\ handler[s] = "greeting"
  /\ \/ status' = "ONLINE" /\ handler' = [handler EXCEPT ![s] = "ready"] /\ UNCHANGED <<socket, faults>>
     \/ /\ Fault("database")
        /\ handler' = [handler EXCEPT ![s] = "failed"] /\ socket' = ClosedByGateway(s)
        /\ UNCHANGED status
  /\ UNCHANGED <<link, current, writes, wire, requestVars>>

\* The connector loses its socket, or is told that the gateway closed it.
LinkDrops(s) ==
  /\ link = s
  /\ link' = None
  /\ IF socket[s] = "open" THEN Fault("drop") ELSE UNCHANGED faults
  /\ UNCHANGED <<handler, socket, current, status, writes, wire, requestVars>>

(* (mutant) Takes whatever socket the connector has out of connections.     *)
MutDisconnect(s) ==
  current' = None /\ writes' = writes \cup {"OFFLINE"}

\* handleDisconnect: only the socket that closed leaves connections.
Disconnect(s) ==
  IF current = s THEN current' = None /\ writes' = writes \cup {"OFFLINE"}
                 ELSE UNCHANGED <<current, writes>>

\* The gateway sees the end of a socket; nobody listens before Greet.
CloseEvent(s) ==
  /\ socket[s] \in {"open", "closing"} /\ link # s
  /\ socket' = [socket EXCEPT ![s] = "closed"]
  /\ wire' = [wire EXCEPT ![s] = <<>>]
  /\ IF handler[s] = "ready" THEN Disconnect(s) ELSE UNCHANGED <<current, writes>>
  /\ UNCHANGED <<link, handler, status, requestVars, faults>>

\* checkHeartbeats: nothing heard for 90 s.
CheckHeartbeats(s) ==
  /\ current = s
  /\ IF link = s THEN Fault("stall") ELSE UNCHANGED faults
  /\ current' = None /\ writes' = writes \cup {"OFFLINE"}
  /\ socket' = ClosedByGateway(s)
  /\ UNCHANGED <<link, handler, status, wire, requestVars>>

\* setOffline and the updateHeartbeat of a PONG are not awaited.
Write(w) ==
  /\ w \in writes
  /\ status' = w /\ writes' = writes \ {w}
  /\ UNCHANGED <<link, handler, socket, current, wire, requestVars, faults>>

\* The rejection of an update nobody awaits ends the webapi: its sockets close, those
\* who asked over them are told so, and another update may still arrive.
WriteFails(w) ==
  /\ w \in writes /\ Fault("database")
  /\ writes' \in SUBSET (writes \ {w})
  /\ current' = None
  /\ socket' = [s \in Sock |-> IF socket[s] = "none" THEN "none" ELSE "closed"]
  /\ handler' = [s \in Sock |-> IF handler[s] = "none" THEN "none" ELSE "failed"]
  /\ wire' = [s \in Sock |-> <<>>]
  /\ origin' = [r \in Req |-> "none"]
  /\ outcome' = [r \in Req |-> IF outcome[r] = "pending" THEN "rejected" ELSE outcome[r]]
  /\ UNCHANGED <<link, status, via, exec, got>>

(* (mutant) Does not answer.                                                *)
MutPong(s) == FALSE /\ UNCHANGED vars

\* The connector answers the PING of checkHeartbeats.
Pong(s) ==
  /\ link = s /\ current = s /\ handler[s] = "ready"
  /\ [type |-> "PONG"] \notin ToSet(wire[s])
  /\ wire' = [wire EXCEPT ![s] = Append(@, [type |-> "PONG"])]
  /\ UNCHANGED <<connectionVars, requestVars, faults>>

(* The requests ------------------------------------------------------------*)
\* routeGatewayRequest, for the internal service on whose socket it came, or
\* sendHttpRequest of the gateway itself, which has no entry in requestOrigin.
Ask(r) ==
  /\ outcome[r] = "none"
  /\ IF current = None
     THEN outcome' = [outcome EXCEPT ![r] = "rejected"] /\ UNCHANGED <<via, exec, origin>>
     ELSE /\ outcome' = [outcome EXCEPT ![r] = "pending"]
          /\ \E o \in {"live", "none"} : origin' = [origin EXCEPT ![r] = o]
          /\ via' = [via EXCEPT ![r] = current]
          /\ exec' = [exec EXCEPT ![r] = "sent"]
  /\ UNCHANGED <<connectionVars, wire, got, faults>>

ExecTo(r, step) == exec' = [exec EXCEPT ![r] = step]

\* The request arrives, or its socket is gone.
Receive(r) ==
  /\ exec[r] = "sent"
  /\ ExecTo(r, IF link = via[r] THEN "device" ELSE "done")
  /\ UNCHANGED <<connectionVars, wire, via, origin, got, outcome, faults>>

\* send drops what it is given while no socket is open.
Send(m) == wire' = IF link = None THEN wire ELSE [wire EXCEPT ![link] = Append(@, m)]

\* HttpExecutor: the head, the body, the end; or an error.
Answer(r) ==
  /\ exec[r] \in {"device", "START", "CHUNK"}
  /\ \/ LET part == CASE exec[r] = "device" -> "START" [] exec[r] = "START" -> "CHUNK" [] OTHER -> "END" IN
        Send([type |-> part, req |-> r]) /\ ExecTo(r, IF part = "END" THEN "done" ELSE part) /\ UNCHANGED faults
     \/ Fault("device") /\ Send([type |-> "ERROR", req |-> r]) /\ ExecTo(r, "done")
  /\ UNCHANGED <<connectionVars, via, origin, got, outcome>>

\* (mutant) Takes an error for the end of the response.
MutCollect(r, type) ==
  IF outcome[r] # "pending" THEN UNCHANGED <<got, outcome>>
  ELSE /\ got' = [got EXCEPT ![r] = @ \cup ({type} \cap {"START", "CHUNK"})]
       /\ outcome' = IF type \in {"END", "ERROR"} THEN [outcome EXCEPT ![r] = "resolved"] ELSE outcome

\* What the asker does with a part of his response.
Collect(r, type) ==
  IF outcome[r] # "pending" THEN UNCHANGED <<got, outcome>>
  ELSE /\ got' = [got EXCEPT ![r] = @ \cup ({type} \cap {"START", "CHUNK"})]
       /\ outcome' = [outcome EXCEPT ![r] = CASE type = "END" -> "resolved"
                                              [] type = "ERROR" -> "rejected"
                                              [] OTHER -> @]

\* handleResponseStart, Chunk, End and Error: to the socket that asked, if it is
\* still open; what has no asker any more is dropped, and its origin stays.
Respond(r, type) ==
  IF origin[r] = "dead" THEN UNCHANGED <<origin, got, outcome>>
  ELSE /\ Collect(r, type)
       /\ origin' = IF type \in {"END", "ERROR"} THEN [origin EXCEPT ![r] = "none"] ELSE origin

\* handleMessage, of a socket that may be closing; before Greet nobody listens.
Deliver(s) ==
  /\ socket[s] \in {"open", "closing"} /\ wire[s] # <<>>
  /\ wire' = [wire EXCEPT ![s] = Tail(@)]
  /\ LET m == Head(wire[s]) IN
     /\ writes' = IF m.type = "PONG" /\ handler[s] = "ready" THEN writes \cup {"ONLINE"} ELSE writes
     /\ IF m.type = "PONG" \/ handler[s] # "ready" THEN UNCHANGED <<origin, got, outcome>>
                                                   ELSE Respond(m.req, m.type)
  /\ IF handler[s] = "ready" THEN UNCHANGED faults ELSE Mishap("early")
  /\ UNCHANGED <<link, handler, socket, current, status, via, exec>>

Timeout(r) ==
  /\ outcome[r] = "pending"
  /\ outcome' = [outcome EXCEPT ![r] = "timeout"]
  /\ UNCHANGED <<connectionVars, wire, via, exec, origin, got, faults>>

\* The socket of the internal service closes: it gives up its requests and dials again.
InternalDrops ==
  /\ Fault("internal")
  /\ origin' = [r \in Req |-> IF origin[r] = "live" THEN "dead" ELSE origin[r]]
  /\ outcome' = [r \in Req |-> IF origin[r] = "live" /\ outcome[r] = "pending" THEN "rejected" ELSE outcome[r]]
  /\ UNCHANGED <<connectionVars, wire, via, exec, got>>

-----------------------------------------------------------------------------
Gateway(s) == Accept(s) \/ Greet(s) \/ CloseEvent(s) \/ Deliver(s)
Connector(r) == Receive(r) \/ Answer(r)

Next ==
  \/ InternalDrops
  \/ \E w \in {"ONLINE", "OFFLINE"} : Write(w) \/ WriteFails(w)
  \/ \E s \in Sock : Connect(s) \/ LinkDrops(s) \/ Gateway(s) \/ CheckHeartbeats(s) \/ Pong(s)
  \/ \E r \in Req : Ask(r) \/ Connector(r) \/ Timeout(r)

Spec == Init /\ [][Next]_vars

(* Events are handled, timers run, updates arrive, the connector answers.   *)
FairSpec ==
  /\ Spec
  /\ \A w \in {"ONLINE", "OFFLINE"} : WF_vars(Write(w))
  /\ \A s \in Sock : /\ WF_vars(Gateway(s)) /\ WF_vars(Pong(s))
                     /\ WF_vars(CheckHeartbeats(s) /\ link # s)
  /\ \A r \in Req : WF_vars(Connector(r)) /\ WF_vars(Timeout(r))

-----------------------------------------------------------------------------
\* A response that is resolved has its head and its body, and a failed one is not taken
\* for it, as long as no message of the connector was lost with a socket or unheard: what
\* is left then is resolved all the same, since nothing counts the parts.
ResolvedIsComplete ==
  Without({"drop", "stall", "database", "early"}) =>
    \A r \in Req : outcome[r] = "resolved" => got[r] = {"START", "CHUNK"}

\* The end of an old socket never takes the connector's new one out of
\* connections: only a heartbeat that is not heard does, the late authentication of
\* an older one, or the end of the webapi and of the socket with it.
KeepsLiveConnector ==
  [][Without({"stall", "late"})' =>
       \A s \in Sock : current = s /\ link = s => current' = s \/ socket'[s] = "closed"]_vars

\* A connector that is connected is shown as online, unless an older socket was
\* authenticated after its own.
StatusCatchesUp ==
  \A s \in Sock :
    link = s ~> status = "ONLINE" \/ link # s \/ socket[s] # "open" \/ ~Without({"late"})
=============================================================================
