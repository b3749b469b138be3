----------------------------- MODULE WsRelayClient -----------------------------
(***************************************************************************)
(* The worker's client of the relay                                        *)
(* (worker/src/hardware/relay/ws-relay-client.ts): one WebSocket that is    *)
(* opened again when it closes, and the requests that wait for it or were   *)
(* sent over it.  The gateway behind it is reduced to an answer per request. *)
(***************************************************************************)
EXTENDS Naturals, FiniteSets

CONSTANTS
  WebSocket,        \* the WebSockets the client makes
  Null,             \* null
  Call,             \* calls of sendHttpRequest
  ClientFaultKinds, \* which faults may happen
  MaxClientFaults   \* bound on how many

AllClientFaultKinds == {"refused", "hang", "error", "goingAway", "drop"}

ASSUME NullAssumption == Null \notin WebSocket
ASSUME ClientFaultsAssumption == ClientFaultKinds \subseteq AllClientFaultKinds /\ MaxClientFaults \in Nat

VARIABLES
  state,        \* readyState of a socket; "hung" is a handshake nobody answers
  ws,           \* this.ws
  promise,      \* connectPromise: the socket it is for
  timer,        \* reconnectTimer is set
  waiting,      \* the socket whose connectPromise a call of sendHttpRequest awaits
  pending,      \* the socket a request in the pending Map was sent on
  calls,        \* how a call ended
  clientFaults  \* how many may still happen, which kinds did

clientVars == <<state, ws, promise, timer, waiting, pending, calls, clientFaults>>

Live == {"connecting", "hung", "open"}

ClientTypeOK ==
  /\ state \in [WebSocket -> {"none", "connecting", "hung", "open", "closing", "closed"}]
  /\ ws \in WebSocket \cup {Null} /\ promise \in WebSocket \cup {Null}
  /\ timer \in BOOLEAN
  /\ waiting \in [Call -> WebSocket \cup {Null}]
  /\ pending \in [Call -> WebSocket \cup {Null}]
  /\ calls \in [Call -> {"new", "asked", "answered", "closed", "failed", "timeout"}]
  /\ \A r \in Call : waiting[r] # Null \/ pending[r] # Null => calls[r] = "asked"
  /\ clientFaults \in [left : 0..MaxClientFaults, seen : SUBSET ClientFaultKinds]

\* start() has been called.
ClientInit ==
  \E s \in WebSocket :
    /\ state = [t \in WebSocket |-> IF t = s THEN "connecting" ELSE "none"]
    /\ ws = s /\ promise = s
    /\ timer = FALSE
    /\ waiting = [r \in Call |-> Null] /\ pending = [r \in Call |-> Null]
    /\ calls = [r \in Call |-> "new"]
    /\ clientFaults = [left |-> MaxClientFaults, seen |-> {}]

-----------------------------------------------------------------------------
ClientFault(kind) ==
  /\ kind \in ClientFaultKinds /\ clientFaults.left > 0
  /\ clientFaults' = [left |-> clientFaults.left - 1, seen |-> clientFaults.seen \cup {kind}]

\* None of these faults has happened.
ClientWithout(kinds) == clientFaults.seen \cap kinds = {}

\* A new WebSocket; which identity it gets is no matter.
FreshSocket(s) == state[s] = "none" /\ s = CHOOSE t \in WebSocket : state[t] = "none"
StateTo(s, to) == state' = [state EXCEPT ![s] = to]
Connected == ws # Null /\ state[ws] = "open"

Waiters(s) == {r \in Call : waiting[r] = s}
Pendings == {r \in Call : pending[r] # Null}
Settle(requests, how) == calls' = [r \in Call |-> IF r \in requests THEN how ELSE calls[r]]
Clear(map, requests) == [r \in Call |-> IF r \in requests THEN Null ELSE map[r]]

\* (mutant) Opens a socket although one is being opened.
MutConnectOnce(s) ==
  ~Connected /\ FreshSocket(s) /\ StateTo(s, "connecting") /\ ws' = s /\ promise' = s

\* connectOnce, when it makes a new socket.
ConnectOnce(s) ==
  /\ promise = Null /\ ~Connected /\ FreshSocket(s)
  /\ StateTo(s, "connecting") /\ ws' = s /\ promise' = s

TimerFires ==
  /\ timer /\ timer' = FALSE
  /\ IF promise # Null \/ Connected THEN UNCHANGED <<state, ws, promise>>
                                     ELSE \E s \in WebSocket : ConnectOnce(s)
  /\ UNCHANGED <<waiting, pending, calls, clientFaults>>

\* sendHttpRequest: sent at once, or after the connectPromise.
SendHttpRequest(r) ==
  /\ calls[r] = "new"
  /\ Settle({r}, "asked")
  /\ \/ Connected /\ pending' = [pending EXCEPT ![r] = ws] /\ UNCHANGED <<state, ws, promise, waiting>>
     \/ /\ ~Connected /\ promise # Null
        /\ waiting' = [waiting EXCEPT ![r] = promise] /\ UNCHANGED <<state, ws, promise, pending>>
     \/ \E s \in WebSocket : ConnectOnce(s) /\ waiting' = [waiting EXCEPT ![r] = s] /\ UNCHANGED pending
  /\ UNCHANGED <<timer, clientFaults>>

(* The events of a socket --------------------------------------------------*)
\* (mutant) Leaves its waiters.
MutOpen(s) ==
  /\ state[s] = "connecting"
  /\ StateTo(s, "open") /\ promise' = Null
  /\ UNCHANGED <<ws, timer, waiting, pending, calls, clientFaults>>

\* 'open': its waiters go on, and send over this.ws, whichever socket that is, if it is open.
Open(s) ==
  /\ state[s] = "connecting"
  /\ StateTo(s, "open")
  /\ promise' = Null
  /\ waiting' = Clear(waiting, Waiters(s))
  /\ IF ws = s \/ Connected
     THEN pending' = [r \in Call |-> IF r \in Waiters(s) THEN ws ELSE pending[r]] /\ UNCHANGED calls
     ELSE Settle(Waiters(s), "failed") /\ UNCHANGED pending
  /\ UNCHANGED <<ws, timer, clientFaults>>

\* 'close': this.ws, whichever socket it is, and every pending request.
OnClose(failed) ==
  /\ ws' = Null /\ promise' = Null
  /\ calls' = [r \in Call |-> CASE r \in Pendings -> "closed" [] r \in failed -> "failed" [] OTHER -> calls[r]]
  /\ pending' = Clear(pending, Call) /\ waiting' = Clear(waiting, failed)
  /\ timer' = TRUE

\* A handshake that fails: 'error' and 'close' at once.
Refused(s) ==
  /\ state[s] = "connecting" /\ ClientFault("refused")
  /\ StateTo(s, "closed")
  /\ OnClose(Waiters(s))

\* No handshakeTimeout is given.
Hang(s) ==
  /\ state[s] = "connecting" /\ ClientFault("hang")
  /\ StateTo(s, "hung")
  /\ UNCHANGED <<ws, promise, timer, waiting, pending, calls>>

\* 'error' on an open socket; its 'close' comes later.
Error(s) ==
  /\ state[s] = "open" /\ ClientFault("error")
  /\ StateTo(s, "closing")
  /\ promise' = Null
  /\ UNCHANGED <<ws, timer, waiting, pending, calls>>

\* The close frame of the gateway: no event before the handshake of the close ends.
GoingAway(s) ==
  /\ state[s] = "open" /\ ClientFault("goingAway")
  /\ StateTo(s, "closing")
  /\ UNCHANGED <<ws, promise, timer, waiting, pending, calls>>

Close(s) ==
  /\ \/ state[s] = "closing" /\ UNCHANGED clientFaults
     \/ state[s] = "open" /\ ClientFault("drop")
  /\ StateTo(s, "closed")
  /\ OnClose({})

(* The requests ------------------------------------------------------------*)
\* An answer, on whatever socket.
Answered(r) ==
  /\ pending[r] # Null /\ state[pending[r]] \in {"open", "closing"}
  /\ Settle({r}, "answered") /\ pending' = [pending EXCEPT ![r] = Null]
  /\ UNCHANGED <<state, ws, promise, timer, waiting, clientFaults>>

TimesOut(r) ==
  /\ pending[r] # Null
  /\ Settle({r}, "timeout") /\ pending' = [pending EXCEPT ![r] = Null]
  /\ UNCHANGED <<state, ws, promise, timer, waiting, clientFaults>>

-----------------------------------------------------------------------------
Event(s) == Open(s) \/ Close(s)

ClientNext ==
  \/ TimerFires
  \/ \E s \in WebSocket : Event(s) \/ Refused(s) \/ Hang(s) \/ Error(s) \/ GoingAway(s)
  \/ \E r \in Call : SendHttpRequest(r) \/ Answered(r) \/ TimesOut(r)

ClientSpec == ClientInit /\ [][ClientNext]_clientVars

(* Timers fire, handshakes of opening and of closing end.                   *)
ClientFairSpec ==
  /\ ClientSpec
  /\ WF_clientVars(TimerFires)
  /\ \A s \in WebSocket : WF_clientVars(Open(s)) /\ WF_clientVars(Close(s) /\ state[s] = "closing")
  /\ \A r \in Call : WF_clientVars(TimesOut(r))

-----------------------------------------------------------------------------
\* Starting is idempotent: the client has one socket at a time, as long as none
\* of them takes time to close.
OneSocket ==
  ClientWithout({"error", "goingAway"}) => Cardinality({s \in WebSocket : state[s] \in Live}) <= 1

\* Every call is answered, fails or times out, but for a handshake that hangs.
EveryCallSettles ==
  \A r \in Call : calls[r] = "asked" ~> calls[r] # "asked" \/ ~ClientWithout({"hang"})
=============================================================================
