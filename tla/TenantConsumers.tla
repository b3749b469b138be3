---------------------------- MODULE TenantConsumers ----------------------------
(***************************************************************************)
(* Which tenant queues the worker consumes (worker/src/rotina-consumer.ts).  *)
(* An administrator switches a tenant on and off in the webapi, which       *)
(* writes the database and publishes a refresh in Redis; the worker adds or *)
(* cancels its RabbitMQ consumer, and reconciles with the database every    *)
(* two minutes and whenever it reconnects.  The handlers run concurrently:  *)
(* each is suspended at its database read and at its channel requests,      *)
(* which the broker serves in order.  One tenant.                           *)
(***************************************************************************)
EXTENDS Naturals, Sequences, FiniteSets

CONSTANTS
  Handlers,   \* runs of handleRefreshMessage and reconcileInstitutions
  Poller,     \* the one of pollTimer
  Reconnector, \* the one of reconnectRabbit
  MaxTag,     \* bound on consumers that live at the same time
  MaxUpdates, \* bound on calls of the administrator
  FaultKinds, \* which faults may happen
  MaxFaults   \* bound on how many

AllFaultKinds == {"overlap", "lost", "overtaken", "drop", "unheard"}

ASSUME HandlersAssumption == Poller \in Handlers /\ Reconnector \in Handlers /\ Poller # Reconnector
ASSUME BoundsAssumption == MaxTag \in Nat \ {0} /\ MaxUpdates \in Nat /\ MaxFaults \in Nat
ASSUME FaultsAssumption == FaultKinds \subseteq AllFaultKinds

NoTag == 0
Tags == 1..MaxTag

VARIABLES
  active,    \* the tenant's row: INSAtivo and INSWorkerAtivo
  updates,   \* calls of the administrator left
  unsent,    \* refreshes of calls that have written the row, in that order
  messages,  \* refreshes the subscription has yet to hand over
  consumers, \* the broker's consumers of the tenant's queue
  tag,       \* consumerTags of the tenant
  handler,   \* where a handler is, and what it goes by
  requests,  \* handlers whose channel request is to be served, in order
  channel,   \* this.channel: open, closed, or none (null)
  faults     \* how many may still happen, which kinds did

vars == <<active, updates, unsent, messages, consumers, tag, handler, requests, channel, faults>>
webapi == <<active, updates, unsent>>
broker == <<consumers, tag>>

Refresh == {"on", "off", "all"}
Idle == [at |-> "idle", on |-> FALSE, tag |-> NoTag]

TypeOK ==
  /\ active \in BOOLEAN /\ channel \in {"open", "closed", "none"}
  /\ updates \in 0..MaxUpdates /\ faults \in [left : 0..MaxFaults, seen : SUBSET FaultKinds]
  /\ unsent \in Seq(Refresh) /\ messages \in Seq(Refresh)
  /\ consumers \subseteq Tags /\ tag \in Tags \cup {NoTag}
  /\ handler \in [Handlers -> [at : {"idle", "read", "topology", "consume", "cancel", "recover"},
                               on : BOOLEAN, tag : Tags \cup {NoTag}]]
  /\ requests \in Seq(Handlers)
  \* A request is served once, and every handler that waits for one has it queued.
  /\ \A i, j \in DOMAIN requests : requests[i] = requests[j] => i = j
  /\ \A h \in Handlers : handler[h].at \in {"topology", "consume", "cancel"}
                           <=> \E i \in DOMAIN requests : requests[i] = h

\* The worker has started: it consumes an active tenant.
Init ==
  /\ active \in BOOLEAN /\ updates = MaxUpdates
  /\ unsent = <<>> /\ messages = <<>>
  /\ tag = (IF active THEN 1 ELSE NoTag) /\ consumers = {tag} \ {NoTag}
  /\ handler = [h \in Handlers |-> Idle] /\ requests = <<>>
  /\ channel = "open" /\ faults = [left |-> MaxFaults, seen |-> {}]

-----------------------------------------------------------------------------
Fault(kind) ==
  /\ kind \in FaultKinds /\ faults.left > 0
  /\ faults' = [left |-> faults.left - 1, seen |-> faults.seen \cup {kind}]

\* None of these faults has happened.
Without(kinds) == faults.seen \cap kinds = {}

(* The webapi --------------------------------------------------------------*)
\* updateWorkerStatus, update and bulkUpdateWorkerStatus write the row.
Update(on, refresh) ==
  /\ updates > 0 /\ updates' = updates - 1
  /\ active' = on
  /\ unsent' = Append(unsent, refresh)
  /\ UNCHANGED <<messages, broker, handler, requests, channel, faults>>

\* publishQueueRefresh and publishReconcileAll: another call may be faster,
\* and an error is logged and forgotten.
Publish(i) ==
  /\ IF i = 1 THEN UNCHANGED faults ELSE Fault("overtaken")
  /\ unsent' = [j \in 1..(Len(unsent) - 1) |-> unsent[IF j < i THEN j ELSE j + 1]]
  /\ messages' = Append(messages, unsent[i])
  /\ UNCHANGED <<active, updates, broker, handler, requests, channel>>

PublishFails ==
  /\ unsent # <<>> /\ Fault("lost")
  /\ unsent' = Tail(unsent)
  /\ UNCHANGED <<active, updates, messages, broker, handler, requests, channel>>

(* The handlers of the worker ----------------------------------------------*)
Busy == {h \in Handlers : handler[h].at \notin {"idle", "recover"}}
Request(h, at, t) ==
  /\ handler' = [handler EXCEPT ![h].at = at, ![h].tag = t]
  /\ requests' = Append(requests, h)
\* reconnectRabbit goes on with startGlobalRetryConsumer and recoverSerialState.
Ended(h) == IF h = Reconnector THEN [Idle EXCEPT !.at = "recover"] ELSE Idle
End(h) == handler' = [handler EXCEPT ![h] = Ended(h)] /\ UNCHANGED requests

\* A handler starts: beside another one is a fault of its own.
Start(h) ==
  /\ handler[h].at = "idle"
  /\ IF Busy = {} THEN UNCHANGED faults ELSE Fault("overlap")

\* stopConsumer, up to its cancel.  A closed channel throws.
Stop(h) ==
  IF channel = "open" /\ tag # NoTag
  THEN Request(h, "cancel", tag)
  ELSE End(h)

\* ensureTenantTopology begins.
Ensure(h) == IF channel = "open" THEN Request(h, "topology", NoTag) ELSE End(h)

\* reconcileInstitutions reads the database.
Reconcile(h) ==
  handler' = [handler EXCEPT ![h] = [at |-> "read", on |-> active, tag |-> NoTag]]

Poll ==
  /\ Start(Poller) /\ Reconcile(Poller)
  /\ UNCHANGED <<webapi, messages, broker, requests, channel>>

\* handleRefreshMessage.
Receive(h) ==
  /\ h \notin {Poller, Reconnector} /\ messages # <<>> /\ Start(h)
  /\ messages' = Tail(messages)
  /\ CASE Head(messages) = "all" -> Reconcile(h) /\ UNCHANGED requests
       [] Head(messages) = "off" -> Stop(h)
       [] Head(messages) = "on" -> Ensure(h)
  /\ UNCHANGED <<webapi, broker, channel>>

\* (mutant) Leaves a tenant that was switched off to its refresh.
MutResume(h) ==
  /\ handler[h].at = "read" /\ ~(h = Reconnector /\ channel = "closed")
  /\ IF handler[h].on THEN Ensure(h) ELSE End(h)
  /\ UNCHANGED <<webapi, messages, broker, channel, faults>>

\* reconcileInstitutions goes on with the rows it read, tenant by tenant: an
\* inactive one is stopped if it has a tag by then.
Resume(h) ==
  /\ handler[h].at = "read" /\ ~(h = Reconnector /\ channel = "closed")
  /\ IF handler[h].on THEN Ensure(h) ELSE Stop(h)
  /\ UNCHANGED <<webapi, messages, broker, channel, faults>>

(* The channel -------------------------------------------------------------*)
Served(h) == requests # <<>> /\ Head(requests) = h

\* (mutant) Adds a consumer whatever the tag.
MutTopology(h) ==
  /\ Served(h) /\ handler[h].at = "topology"
  /\ requests' = Append(Tail(requests), h)
  /\ handler' = [handler EXCEPT ![h].at = "consume"]
  /\ UNCHANGED <<webapi, messages, broker, channel, faults>>

\* The queue is declared and bound; ensureTenantConsumer looks for a tag.
Topology(h) ==
  /\ Served(h) /\ handler[h].at = "topology"
  /\ IF tag # NoTag
     THEN handler' = [handler EXCEPT ![h] = Ended(h)] /\ requests' = Tail(requests)
     ELSE /\ handler' = [handler EXCEPT ![h].at = "consume"]
          /\ requests' = Append(Tail(requests), h)
  /\ UNCHANGED <<webapi, messages, broker, channel, faults>>

\* ensureTenantConsumer: consume is answered.
Consume(h) ==
  /\ Served(h) /\ handler[h].at = "consume"
  /\ \E t \in Tags \ consumers :
       /\ \A u \in Tags \ consumers : t <= u
       /\ consumers' = consumers \cup {t} /\ tag' = t
  /\ requests' = Tail(requests) /\ handler' = [handler EXCEPT ![h] = Ended(h)]
  /\ UNCHANGED <<webapi, messages, channel, faults>>

\* stopConsumer: cancel is answered.
Cancel(h) ==
  /\ Served(h) /\ handler[h].at = "cancel"
  /\ consumers' = consumers \ {handler[h].tag}
  /\ tag' = NoTag
  /\ requests' = Tail(requests) /\ handler' = [handler EXCEPT ![h] = Ended(h)]
  /\ UNCHANGED <<webapi, messages, channel, faults>>

(* The connection ----------------------------------------------------------*)
\* reconnecting: from scheduleReconnect until reconnectRabbit has ended.
Recovering == handler[Reconnector].at = "recover"
Reconciling == handler[Reconnector].at = "read"

\* Requests on a channel that closes are rejected.
Reject(kept) ==
  /\ requests' = <<>>
  /\ handler' = [h \in Handlers |-> IF handler[h].at \in {"read", "recover"} /\ h \in kept
                                    THEN handler[h] ELSE Idle]

\* (mutant) Keeps consumerTags.
MutScheduleReconnect ==
  /\ channel' = "none" /\ consumers' = {}
  /\ Reject(Handlers \ {Reconnector})
  /\ UNCHANGED <<webapi, messages, tag>>

ScheduleReconnect ==
  /\ channel' = "none" /\ consumers' = {} /\ tag' = NoTag
  /\ Reject(Handlers \ {Reconnector})
  /\ UNCHANGED <<webapi, messages>>

\* The channel or the connection closes.  reconnectRabbit, if it waits for an
\* answer, is rejected with the others and begins again.
Drop ==
  /\ channel # "none" /\ ~Reconciling /\ ~Recovering /\ Fault("drop")
  /\ ScheduleReconnect

\* The same while reconnectRabbit reads the database or recovers the serial
\* state: scheduleReconnect returns at once, the tags and the channel stay.
CloseUnheard ==
  /\ channel = "open" /\ (Reconciling \/ Recovering)
  /\ Fault(IF Recovering THEN "unheard" ELSE "drop")
  /\ channel' = "closed" /\ consumers' = {} /\ Reject(Handlers)
  /\ UNCHANGED <<webapi, messages, tag>>

\* setTimeout: reconnectRabbit connects and reconciles.
Reconnect ==
  /\ channel = "none" /\ channel' = "open"
  /\ Start(Reconnector) /\ Reconcile(Reconnector)
  /\ UNCHANGED <<webapi, messages, broker, requests>>

\* It finds the channel closed: always when it reconciles, and afterwards if
\* the channel of the retry queue closed too.  It begins again.
ReconnectFails ==
  /\ channel = "closed" /\ (Reconciling \/ Recovering)
  /\ ScheduleReconnect /\ UNCHANGED faults

\* recoverSerialState ends: reconnecting is reset, whatever happened since.
Recovered ==
  /\ Recovering /\ handler' = [handler EXCEPT ![Reconnector] = Idle]
  /\ UNCHANGED <<webapi, messages, broker, requests, channel, faults>>

-----------------------------------------------------------------------------
Serve(h) == Topology(h) \/ Consume(h) \/ Cancel(h)

Next ==
  \/ \E on \in BOOLEAN : Update(on, IF on THEN "on" ELSE "off") \/ Update(on, "all")
  \/ \E i \in DOMAIN unsent : Publish(i)
  \/ PublishFails \/ Poll
  \/ \E h \in Handlers : Receive(h) \/ Resume(h) \/ Serve(h)
  \/ Drop \/ CloseUnheard \/ Reconnect \/ ReconnectFails \/ Recovered

Spec == Init /\ [][Next]_vars

(* Calls of the webapi end, the broker answers, the timers fire.  A poll    *)
(* ends long before the next one, so that handlers find their turn.         *)
FairSpec ==
  /\ Spec
  /\ WF_vars(\E i \in DOMAIN unsent : Publish(i))
  /\ WF_vars(Poll)
  /\ SF_vars(\E h \in Handlers : Receive(h))
  /\ SF_vars(Reconnect) /\ WF_vars(ReconnectFails \/ Recovered)
  /\ \A h \in Handlers : WF_vars(Resume(h)) /\ WF_vars(Serve(h))

-----------------------------------------------------------------------------
\* The queue of the tenant has one consumer, as long as no handler of refreshes
\* and reconciliations runs beside another.
OneConsumer == Without({"overlap"}) => Cardinality(consumers) <= 1

\* A tenant that stays on is consumed in the end, whatever was lost, unless the
\* channel closed while reconnectRabbit recovered the serial state: nobody hears of
\* that close, the tag stays, and every later reconciliation fails on the channel.
OnIsConsumed == <>[]active => <>(~Without({"unheard"})) \/ <>[](consumers # {})

\* INSWorkerAtivo false: the worker does not consume the tenant's queue, unless
\* handlers overlapped and left a consumer that nobody knows.
OffIsNotConsumed == <>[]~active => <>(~Without({"overlap"})) \/ <>[](consumers = {})
=============================================================================
