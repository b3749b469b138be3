# OpenTurn in TLA+

OpenTurn (SchoolGuard) runs small JavaScript *routines* for schools: a routine is started by cron,
webhook or hand, travels through RabbitMQ, and is executed in a child process by one of several
worker processes, which also talk to turnstiles and to the school's ERP. This directory holds the
formal models of that system, the TLC configurations that check them and the proofs about them.
Paths below are relative to `src/`.

Modelled is the path of a job from its submission to its final status - publisher, tenant queues and
their consumers, parallel and serial executions with their locks, leases, retries and dead letters,
the child process, the manual engine of the webapi, cancellation -, the WebSocket relay to the
equipment, and how the passages a turnstile tells of get registered. Section 5 says what is left out and why.

## 1. The system

| component | state it keeps | operations | hard behaviour | module |
|---|---|---|---|---|
| Publisher, `webapi/src/rotina/queue/rotina-queue.service.ts` | batch buffer, cached connection and channel, rows, confirms, pending markers | submit, flush, confirm, return, reject | row, message and promise are three stores; a batch fails in part | `BatchPublisher` |
| Tenant consumers, `worker/src/rotina-consumer.ts`, `webapi/src/instituicao/` | consumer tag per tenant, broker consumers, `INSWorkerAtivo` | refresh message, poll, topology, consume, cancel, reconnection | handlers overlap at every `await`; pub/sub loses and reorders | `TenantConsumers` |
| Parallel path, `worker/src/rotina-consumer.ts` | main, retry and dead-letter queue, tenant slots (ZSET), running locks, `ROTExecucaoLog` | `onMessage`, `processJob`, hard timeout, retry consumer, returned publishes, reprocessing | redelivery, crash, two deliveries of one execution, runs nobody awaits | `RotinaParallel` |
| INTERNAL jobs, same file | the same slot and row, no running lock | `runInternalJob` | no heartbeat, booked once | `RotinaParallel` |
| Serial lock, `worker/src/serial-wait-lock.ts` | Redis: ZSET with one holder and its lease, lists `wait` and `processing`, counters `attempts` | five Lua scripts | three workers and the webapi on the same keys; leases that lapse; claims of dead workers | `SerialWaitLock` |
| Lease heartbeat, `worker/src/serial-lease-heartbeat.ts` | a timer per lease | renew if still a member | windows in which nobody renews | `RotinaSerial` |
| Serial path, `worker/src/rotina-consumer.ts` | running locks, claims, log | `onMessage`, drain loop, recovery every 30 s | lost answers, redelivery, crash | `RotinaSerial` |
| Serial watchdog, `webapi/src/rotina/serial-lock-watchdog.service.ts` | none | every 2 min: executions stuck in `AGUARDANDO_LOCK_SERIAL` are pushed back | three Redis commands, not one | `RotinaSerial` |
| Process manager and runner, `worker/src/engine/`, `webapi/src/rotina/engine/` | active children, listeners, timers | fork, report, exit, error, timeout, watchdog, kill | they race to settle a promise once | `ProcessManager` |
| Manual engine, `webapi/src/rotina/engine/execution.service.ts` | routine locks, active children | start, reprocess, run in background, cancel, delete | test, await, act; several rows of one routine | `ManualExecution` |
| Cancellation, `webapi/src/rotina/rotina-execution.service.ts`, `rotina.service.ts` | the row | single cancel, cancel of a selection, delete | races with the run | `RotinaSerial`, `RotinaParallel`, `ManualExecution` |
| Relay gateway and connector, `webapi/src/connector/`, `projects/addon/` | connections, `CONStatus`, pending requests, `requestOrigin` | authenticate, heartbeat, request, response in parts, close | sockets replaced while old ones are closing; unordered status writes | `WsRelay` |
| Relay client, `worker/src/hardware/relay/` | one socket, pending requests | connect, reconnect, request, time out | events of an old socket meet the new one | `WsRelayClient` |
| Scheduler and webhook, `webapi/src/rotina/` | cron jobs, Redis cron lock | fire, enqueue, wait for the result | several instances; a result before anybody listens | - |
| ControlID notifications, `webapi/src/hardware/brands/controlid/` | `CTLControlidCatraEvent`, `CTLControlidDao`, `REGRegistroPassagem` | `catra_event`, `dao`: store, look for the other notification, register, mark | each query is its own transaction; notifications repeated, reordered, concurrent | `ControlidPassagem` |
| Remote UI gateway, `projects/remote-ui-gateway/` | proxy sessions | proxy HTTP | - | - |
| Registro diario, console, monitoring, CRUD, auth, AI, web UI | database rows | queries and I/O | - | - |

How an execution flows. The publisher inserts its row (`EM_EXECUCAO`), publishes a message and waits
for the broker's confirm. The worker consumes the queue of each tenant that is switched on.
`onMessage` checks retry counter and status, takes a tenant slot and the *running lock* of the
execution, and runs it in a child process - at once for a parallel routine; for a serial one after
`tryAcquireOrEnqueueSerial`, which may put it in a Redis line instead (`AGUARDANDO_LOCK_SERIAL`, message
acked). Failures of a parallel routine go through a retry queue and end in a dead-letter queue; those of
a serial one go back to the head of the line. Whoever gives a serial slot back is answered the next
execution and starts a *drain* for it. A recovery pass per worker and the watchdog look for what was
left behind. Manual executions run inside the webapi with an in-memory lock per routine.

What makes it correct: an accepted job is decided once, in the end, with the outcome that happened;
limits and mutual exclusion hold; every lock and slot has somebody who will give it back; nothing
decided is reopened; row, message and promise agree. `PROJECT.json` lists, under `hazards`, the places
where each could break.

## 2. Modules

| module | what it is |
|---|---|
| `RedisList` | the list commands the scripts use (external: Redis) |
| `SerialWaitLock` | the lock: one action per Lua script, heartbeats, expiries; `LockSpec` (any caller) and `HolderSpec` (disciplined caller) |
| `SerialFifo` | the abstract promise: a line that is joined at the tail and left at the head |
| `RotinaSerial` | the workers and the watchdog around the lock, the broker and the log; extends `SerialWaitLock` |
| `RotinaParallel` | parallel routines and INTERNAL jobs: handlers, jobs, slots, locks, the three queues |
| `ProcessManager` | the calls of `executeInProcess`, their children, listeners and timers, in the variant of the worker (`Hardened`) and of the webapi |
| `BatchPublisher` | submissions, the flush, the channel, rows, messages, promises, markers |
| `ManualExecution` | requests, runs in the background, locks and rows of the manual engine |
| `WsRelay`, `WsRelayClient` | gateway and connector with a request on its way; the worker's client |
| `TenantConsumers` | administrator, refreshes, handlers of the worker, channel requests, consumers |
| `ControlidPassagem` | the calls of `catra_event` and `dao`, query by query, the two tables and the registrations |
| `MC...` | instances for TLC (symmetry sets, sets of records for constants) |
| `RotinaSerialProofs` (lists, scripts, the refinement of `SerialFifo`, the consumer), `RotinaParallelProofs`, `ProcessManagerProofs`, `BatchPublisherProofs`, `ManualExecutionProofs`, `TenantConsumersProofs`, `ControlidPassagemProofs`, `WsRelayProofs` (with the client) | theorems and proofs |

**Conventions.** A `pc`, step or progress variable names the next awaited operation of a handler, so
that any two handlers interleave at every `await`; what happens between two awaits is one action.
Faults are actions or disjuncts switched on by `FaultKinds` and bounded by `MaxFaults`; in the modules
of the second half `faults` also remembers which kinds have happened, and `Without(kinds)` says that
none of them did: a property of the form `Without(kinds) => P` holds under every other fault, and the kinds it
names are exactly those under which the code was seen to break it (section 3). Where the table of section 3
says one fault, such a property is checked against any single fault and against no combination. Time is left out: a
timer that is set may fire, a lease that nobody renews may lapse, a key with a TTL may expire. Names are
those of the source.

**Definitions named `Mut...`** are deliberate faults - a dropped guard, a swapped end of a list, a
missing write. No specification uses them; each is put in the place of the definition that follows
it to see that a property notices, as listed under `mutants` in `PROJECT.json`.

**Abstractions, per module.**

* `RotinaSerial`, `SerialWaitLock`: one pair (institution, routine); the score of the ZSET is "has it passed".
  `TIMEOUT` is treated by the code like `ERRO` and is left out. A copy of a message is at most once in `ready`;
  a worker has at most one delivery and one drain per execution. A restarted worker keeps its name (in the code
  `workerId` is new), which only lets it delete a lock of its former self. Status write and kill signal of a
  cancellation are one step. Backoff and waiting for capacity take no step of their own: what can happen
  meanwhile happens before the next step of the task, and `stall` is the lease they use up. The watchdog's query
  is a snapshot (`stuck`) that is worked through one by one, each execution with its two `LPOS` and its `RPUSH`,
  whatever has become of it since; there are fewer stuck executions than its `take` of 100. The age of a row is
  in its status: `RowAges` makes a waiting row stale (`AGUARDANDO_STALE`) and any write of it ends that. It
  fires only while no task of the execution is between two of its steps, a run excepted, because backoff and
  wait for capacity (60 s each) are shorter than the ten minutes; once old, a row stays old for a drain that
  claims the execution, through the backoff and the wait, until `TakeSlot` writes it. A run that the hard
  timeout gives up goes on in `left` and writes its outcome when it ends, over whatever the row says by then;
  one such run per task at a time is a bound. The child of a worker that dies goes on as well
  (`routine-runner.ts` listens for no `disconnect`), with nobody to report to; `left` remembers it as an orphan
  until it ends or its lease does.
* `RotinaParallel`: one tenant. A *copy* is a message in the broker or the handling of one; when a channel
  closes under a living handler, the broker has the message again as another copy, and a `processJob` that the
  hard timeout abandoned keeps its copy. The children of a dead worker are `orphans` until they end or the lock
  of their execution expires. `Settings` are the tenant's limit, `CAPACITY_DEFER_MS > 0` and `MAX_RETRIES`. A
  tenant that is switched off requeues just as an unreachable database does, and is merged with it. The branch
  of the retry consumer for a counter above the maximum cannot be reached by what this system publishes
  (`GiveUp` takes such a message first) and is left out. What the aggregation of an INTERNAL job writes is not
  modelled.
* `ProcessManager`: two calls may be for one execution (`overlap`). `reorder` is an `exit` event that is
  notified before a report already sent; `oom` a kill by the system; `stuck` a child that ignores
  `SIGKILL`. `Cadastro` are the values of `ROTTimeoutSeconds`.
* `BatchPublisher`: the worker is reduced to taking the marker, running and deciding.
  `publishJobWithConfirm`, which sends one message without `mandatory` for `requeue`, is left out.
* `ManualExecution`: the row a request creates has the name of the request. The child is reduced to how it
  ends; `silent` is an exit with code 0 and no report, for which the webapi's manager has no branch.
  `execute()` has no caller and is left out.
* `WsRelay`: one institution; a response is a head, a chunk and an end. `early`: a message before the gateway's
  listeners exist; `late`: an old socket authenticated after its successor. A status update that fails is an
  unhandled rejection and ends the webapi with its sockets and requests (`WriteFails`); that PM2 starts it again
  is the next `Connect`.
* `WsRelayClient`: the gateway behind it answers or not. `stop()`, called only at shutdown, is left out.
* `TenantConsumers`: one tenant; the caches of status and limit are not modelled. Channel requests are served in
  their order, as amqplib does. `overlap` lets two handlers run at the same time, `overtaken` lets the refreshes
  of two calls of the webapi be published in the other order. `channel` is `this.channel`: open, closed, or
  null. A close is heard (`Drop`) or, while `reconnectRabbit` is at work, not (`CloseUnheard`); when reconciling
  or starting the retry consumer then throws, it begins again (`ReconnectFails`).
* `ControlidPassagem`: one device whose notifications carry their times, one passer per passage, all enrolled.
  Persons are the rows of `PESPessoa`, of all institutions and the deleted ones; who is registered is any of
  those with the passer's `PESIdExterno` (`Bearers`). One change of the access log per `dao`. The arm turns in
  the second of the entry or in that of the `dao` (`StampsAssumption`), and its notification tells that somebody
  passed: `catra_event` ignores turns with any other code. A repeated notification repeats its content. What is
  not awaited (the webhook trigger) is left out.

## 3. What is checked

| run | instance | states | shows |
|---|---|---|---|
| `serial_line` | 3 executions, 2 workers, a deferral, a cancellation or an expired counter | 811,000 | `ImplementsFifo`: workers, drains, recovery and watchdog serve the executions as the abstract line; `SuccessIsFinal` |
| `serial_faults` | 2 executions, 2 workers, one of eight faults | 1,920,000 | `OneAtATime`: no crash, lost channel, lost call or answer, database error, hard timeout or cancellation makes two awaited runs overlap, or one run beside the child of a dead worker within its lease |
| `serial_stall` | the same with stall, hard timeout, capacity, cancel, counter expiry | 282,000 | `NeverForgotten`, `RunningLockHasTask`; `OneHolder` and `NoSilentLoss` of the lock itself; `OnlyWatchdogDoubles`: an execution gets a second place from nobody but the watchdog |
| `serial_liveness` | `FairSpec`, capacity or database fault | 197,000 | `EventuallyDecided` |
| `parallel` | a routine and an INTERNAL job, 2 workers, 3 copies, one fault of eleven kinds | 212,000 | limits and locks hold and leak nothing, no message is lost, no success is undone, both are decided, each but for the faults it names |
| `child_process` | 2 calls, 2 executions (one of each variant), 2 faults | 620,000 | a call settles once, with the outcome that happened |
| `publisher` | 3 submissions, batches of 2, 2 faults | 141,000 | rows, messages and promises stay in step, every caller gets an answer |
| `manual` | 3 requests, 2 routines, limit 1, one fault | 504,000 | lock, row and run of a routine stay together under starts, reprocessings, cancels, deletes |
| `relay` | 2 sockets, 1 request, one fault of seven kinds | 121,000 | the live socket keeps its place and the status follows; over a link that holds, answers are whole |
| `relay_client` | 4 sockets, 3 calls, 2 faults | 226,000 | the client has one socket, every call ends |
| `tenant_consumers` | poll, reconnector and 2 refresh handlers, 3 calls of the administrator, 3 faults | 471,000 | a consumer exactly when the tenant is on, but for overlapping handlers (off) and a close nobody hears (on) |
| `passages` | 2 passages, 5 calls, 2 at a time, 3 persons, one failing query or crash | 4,291,000 | a passage is registered, once and for a bearer of the right id, whatever the order of its notifications |

**Bounds.** Two executions are enough for every conflict over a slot or a lock, three for the order of two that
wait behind a holder; two workers are enough for every pair of concurrent tasks. Serial: two attempts give one
retry and one exhaustion (`serial_faults` takes one attempt, which keeps it within minutes; retries with faults
are in `serial_stall` and `serial_liveness`). Parallel: three copies are the two messages and a double of
either; one setting has one slot, deferral and one retry, the other two slots, requeueing and two retries, so
that both ways to wait and both ways to run out occur. Child process: two calls are every overlap; the values 30
and 2147483 of the timeout are one below and one at the cap. Publisher: batches of two and three submissions
give a full batch, a second one that waits for it and a batch by timer. Manual: three requests are two for one
routine and one that fills the limit. Relay: two sockets are a connection and its successor; client: four
sockets and two faults leave room to come back. Tenant: the poll, the reconnector and two other handlers, five
tags, three faults, so that a lost refresh, a drop and an unheard close meet. Passages: both notifications of
two passages and a repetition of one; two of the three persons share a `PESIdExterno`; the times cover an arm
that turns in the second of the entry or of the `dao`, and two passages that share a second.

Deadlock is checked for the serial modules and `TenantConsumers`, whose recovery and poll never stop.
The others come to the end of a finite number of messages, calls or sockets and say so in their cfg.

**Fairness.** Weak fairness of every step of a task (awaits return), of delivery, timers, expiry (a TTL), recovery
and restart (PM2), for the relay also of what the connector executes; of the watchdog's query and of its steps for every
execution, and of `RowAges`, since time passes. Strong fairness in one place: of `Receive` and
`Reconnect` in `TenantConsumers`, whose handlers find their turn because a poll ends long before the next. A child
owes nothing: it may run for ever, and the timer kills it. No fault, cancellation, request or update is owed.

### Where the properties have exceptions

A property is stated as strongly as the code allows. These are the behaviours that the exceptions
stand for; each was seen as a counterexample of the property without its exception.

* `RotinaParallel.TenantBound` - *lapse*: the comment at `rotina-consumer.ts:126-131` says jobs longer
  than the 120 s lease are covered by `LeaseHeartbeat`, but the heartbeats start at 975, after the branch of 952
  has gone to `runInternalJob`, which starts none. *channel*: a redelivered copy meets the running lock, counts
  as a duplicate (967), and its finally block removes the slot, whose member is the execution, from under
  the delivery that runs. *buffer*: the same with a message that was sent although `publish` answered false.
  *hardTimeout*: as next. The child of a dead worker does not count: its slot lapses under it.
* `RunsAlone` - *hardTimeout*: `acquireRunningLock` relies on "o job nunca roda por mais que isso" (1822);
  `withHardTimeout` only stops waiting (838: "ela continua rodando em segundo plano"), so that lock and slot are
  free while the child works and the retried message runs beside it. *redis*: a running lock that cannot be
  asked for counts as taken (fail-open). The child of a dead worker is kept alone only as long as the dead
  worker's lock lasts.
* `SuccessStands` - copies (*channel*, *hardTimeout*, *buffer*): the status is read at 913, before
  slot and lock, and not again, although the lock is documented as covering that window (1820). The
  counter is tested (904) before the guard of the final status (925): a spent copy writes `ERRO` over `SUCESSO`.
* `NothingLost`, `NothingLeaks` - *crash*: the running lock of a dead worker lives for some 26 minutes; the
  redelivered message is taken for a duplicate and acked (967-969), and the row stays `EM_EXECUCAO`. Two faults together
  lose a message as well: while a delivery holds the lock, a second one of its message (*channel*, *buffer*, or *redis*,
  when the lock could not be asked for) is acked as a duplicate, and then the first fails while nothing is left to
  bring it back (*database*, *hardTimeout*, *noRoutine*, *unroutable*). Hence the two sides of the property.
* `EventuallyDecided` - also *database* for an INTERNAL job, whose row is booked by one update (1145-1161):
  when it fails, the message is acked or retried all the same. A retried INTERNAL job that was booked
  `ERRO` is acked unprocessed by the guard.
* `ProcessManager.CancelledByUser` - *oom*: every `SIGKILL` that is not the timeout's is recorded as "cancelada
  pelo usuário" (`process-manager.ts:224-227`). `Tracked`, `ForcedOnlyWhenStuck`, `ReportIsKept` - *overlap*: map
  and cleanup are keyed by `exeId` (102, 257), and the end of one call takes the listeners of another.
  `hasty`: timeout at its cap plus grace passes 2^31-1 (140) and the watchdog is due at once, although the
  cap is a "Teto seguro para setTimeout" (`routine-timeout.util.ts:1`). `EverySettles` is for the worker's variant:
  the webapi's lacks the branch for exit 0 that the worker's comment (237-241) explains.
* `BatchPublisher.NoOrphanRow` - *crash* between insert and publish (`rotina-queue.service.ts:163-166`), although
  the doc of `enqueue` promises a message for every row (316); *lostInsert*; *database* while booking.
  *connect*: the promise of a refused first connect stays cached (921), so later batches are rejected although
  nothing hurts them; no property forbids that. `RejectedNeverRan` -
  *channel*: messages the broker accepted are not taken back when the batch fails (243).
  `EverySubmitSettles` - *buffer* with *channel*: the flush awaits `drain` of a channel that closed (188).
  `enqueue`'s numbered steps (313-316) put the row after the confirm; the code inserts it first.
  The marker of step 4 (350) may be set after the worker removed it, and then stays for a day.
* `ManualExecution.LockMeansRun` - *race*: the lock is tested at `execution.service.ts:172` and set at 194,
  after the insert. The limit of concurrent runs counts forked children only (174). `CancelStands`: the cancel
  of a selection writes the row and publishes a signal no webapi hears (`rotina-execution.service.ts:268`), so
  the run books over it; an error after the outcome was booked (297) writes `ERRO` over it. `OpenRowHasRun`: a
  reprocessing that is refused has already opened the row (158). With the row deleted, both updates of a run
  fail and the rejection ends the process (303), which `OpenRowHasRun` excepts as `Lost`. `EveryRunEnds` -
  *silent*, the missing branch above.
* `WsRelay.ResolvedIsComplete` - *drop*: the connector discards what it cannot send (`ws-client.ts:97`) and goes
  on with the rest on its next connection; the gateway checks neither index nor start and resolves with
  `statusCode ?? 200` (`ws-relay.gateway.ts:336`). *stall*, *early*, *database* (the end of the webapi): parts
  that nobody hears, likewise. Entries of `requestOrigin` are deleted by an end or an error only.
  `KeepsLiveConnector`, `StatusCatchesUp` - *late*: a socket whose lookup took longer replaces its successor
  (130-147).
* `WsRelayClient.OneSocket` - *goingAway*, *error*: any state but OPEN counts as no connection
  (`ws-relay-client.ts:93`), so a request during a closing handshake opens a second socket, and the close event of the
  first gives up the requests of the second (123-130). `EveryCallSettles` - *hang*: the timer starts only
  after `ensureConnected` (230-237), which has no handshake timeout.
* `TenantConsumers.OneConsumer`, `OffIsNotConsumed` - *overlap*: `ensureTenantConsumer` tests for a tag at 793 and sets
  it at 807, after the broker answered; two handlers both subscribe, one tag replaces the other, and `stopConsumer`
  cancels only that one.
* `TenantConsumers.OnIsConsumed` - *unheard*: `scheduleReconnect` returns at once while `reconnecting` is set
  (451), and that stays so until `recoverSerialState` has ended (466-489). A channel that closes while it runs
  stays in `this.channel` with its tags; the poll and every refresh fail on it and only log (693-697), and no
  tenant is consumed again before the worker is restarted. A close while `reconcileInstitutions` awaits the
  database is not heard either, but then the next request throws and `reconnectRabbit` begins again.
* `ControlidPassagem.RegisteredOnce` - `met`: whether the passage is registered is asked at
  `controlid-passagem.service.ts:195` and marked at 297, four awaits later and in no transaction, so that two
  concurrent calls of one passage both register it; a call that ends between 285 and 297 leaves the rows open
  for the next. `RightPerson`, `NothingMissed` - `Confused`: the `dao` is found by its second (126, the newest
  wins), and storing a notification deletes the rows of others of the same second
  (`controlid-monitor.service.ts:167-183`, 259-271). `RightPerson` promises an id and not a person: the person
  is the first row with that `PESIdExterno` (268-270), without institution, `deletedAt` or order, and the schema
  has no unique on it (`schema.prisma:134-162`), so that a namesake of another institution can be registered.
* `RotinaSerial` (the runs choose fault kinds instead of `Without`; each kind was tried alone):

  | property | broken by |
  |---|---|
  | `OneAtATime` | *stall*: mutual exclusion rests on the lease outliving its owner's pauses |
  | `NeverForgotten` | *crash*, *redis*, *reply*; *database* when it comes twice |
  | `RunningLockHasTask` | *crash*, *redis*, *reply* |
  | `SuccessIsFinal` | *crash*, *channel*, *database*, *redis*, *reply*, *stall*, *hardTimeout* |
  | `ImplementsFifo` | *crash*, *channel*, *redis*, *reply*, *stall*; *database* when it comes twice |
  | `QueuedOnce` | *crash*, *channel*, *database*, *redis*, *reply*, *stall*; hence `OnlyWatchdogDoubles` in the runs |

  *hardTimeout*: `withHardTimeout` (841-856, used at 1025 and 1782) only stops waiting. Running lock and slot
  are given back, the next execution, or the retry of the same, runs beside the abandoned `processJob`, and when
  that ends it writes `ERRO` over the `SUCESSO` of the retry or the other way round. `OneAtATime` is therefore
  about the runs that are awaited, and about the children of dead workers while their lease holds; a child that
  outlives the 120 s runs beside the next. *redis*: the enqueuing script throws and the message is acked on the
  ground that Redis has taken over (1094-1098). *reply*: ioredis sends a command again whose connection broke
  before the answer (`redis-connection.ts:44-53` leaves that on); a `SET NX` that was executed then finds its
  own key, so that the task goes away and the running lock stays for some 26 minutes. *stall*: the watchdog
  finds an execution neither in the line, since a drain has claimed it (its row is still old, 1929 comes after
  backoff and wait), nor among the claims, since the lease lapsed and the recovery put it back into the line in
  between, and pushes it a second time. Without any fault, a handler that only enqueues holds the running lock,
  and a drain that claims the execution meanwhile reads it as "já em execução em outra instância" (1912-1914)
  and drops it from the line; the watchdog brings it back after ten minutes, which is why `EventuallyDecided`
  still holds. A serial run cancelled by the user returns `success = false`, counts as a failed attempt (1065)
  and goes back to the line.

## 4. What is proved

TLAPS proves, for any set of executions and any limit of attempts:

* `LockInvariant` - the inductive invariant `LockInv` of `SerialWaitLock` under `LockSpec`: the type,
  `OneHolder`, and `Apart`, which says list by list what `QueuedOnce` says of their concatenation
  (`ApartIsQueuedOnce`). The type is needed because nothing is known of `LREM` or `RPUSH` on something
  that is no sequence of executions. The scripts share the tail `ClaimNext`, so one lemma (`ClaimKeeps`)
  proves that promoting a head keeps the invariant from whatever the script has prepared (`Ready`), and
  one lemma per script proves that it prepares that.
* `LockTypeCorrect`, `AtMostOneHolder`, `NobodyQueuedTwice` - its consequences, for any caller.
* `NobodySilentlyLost` - the action property: what leaves the lists does so by its own release or
  exhaustion.
* `ScriptsImplementFifo` - under `HolderSpec` the scripts implement `SerialFifo`, with the line of the abstract
  specification mapped to the holder followed by those that wait (`HolderInv`: the claims are those of the
  holder, if there is one).
* `TypeCorrect` - the types of `RotinaSerial`, under every fault.
* `SlotInvariant`, and from it `SlotsAreOwnedOnce` and `OneExecutionAtATime` - for any number of executions,
  workers and faults, **provided `"stall"` is not among the faults**: as long as no lease lapses under a living
  owner, runs that are awaited exclude each other, and the child of a dead worker until its lease ends. Two
  kinds of runs are not in the statement, because nothing keeps them apart from the next: those abandoned at the
  hard timeout and children that outlive their lease. `OrphanInv` says that the slot of an orphan is still in
  the ZSET and owned by no task. `EveryRunIsAwaited`: without crashes and hard timeouts there are no other runs.
  `OneAtATime` is not inductive, because a task that will run differs from one that merely waits only by what it
  holds in Redis. `SlotInv` says that a slot has one owner among the tasks (`SlotHasOneOwner`), that an owner's
  slot is alive in the ZSET - so the scripts, which promote only when nobody is alive, never make a second
  owner - and that the execution a failed attempt was answered is remembered only until the failure is recorded.
  The proof has a lemma per group of actions and a case per action; `StartKeeps` covers the three places that
  start a drain, and `GotoKeeps` every step that moves a task without the lock. `EnvironmentSlots` is the one
  place where the assumption is used.
* `RunningLocksHaveTasks` (`RunningLockHasTask`), **provided `"crash"`, `"redis"` and `"reply"` are not among
  the faults** - inductive with the types: whoever takes the lock goes on to the steps that give it back, and
  only an owner does.
* `NoExecutionForgotten` (`NeverForgotten`), **provided `"crash"`, `"redis"`, `"reply"` and `"database"` are not
  among the faults** - the property is not inductive, as the task it finds may be one that will drop the
  execution. `Remembered` says which will not: an execution whose row says `EM_EXECUCAO` runs or is about to be
  marked as waiting (`HasRunner`), or it is in the broker or with a handler that has not enqueued it yet
  (`InBroker`), and then neither the lists nor a drain nor the watchdog know of it (`Untouched`). Stalls, hard
  timeouts, closed channels, expired counters and cancellations are allowed in any number. How the excluded
  kinds break the property is in section 3.
* `ConsumerImplementsFifo` (`ImplementsFifo`), `SuccessesAreFinal` (`SuccessIsFinal`) and `NobodyWaitsTwice`
  (`QueuedOnce`, which no run checks), **provided only `"capacity"`, `"cancel"` and `"attemptsTtl"` are among
  the faults** (`Calm`), in any number. `ScriptsImplementFifo` leaves open whether the consumer keeps the
  discipline of `HolderSpec`; these say that it does, the watchdog with its push included. The inductive
  invariant `CalmInv` adds to the state of the lock (`HolderInv`) that nothing is abandoned (`left` is empty),
  that every holder has its owner (`OwnedInv`), that an execution whose row is old, or was when the watchdog
  asked, has no message any more and holds the slot only by a claim (`OldInv`, whence the two looks find it),
  that what the watchdog is at has left the line (`WatchInv`), and, of one execution (`ExeInv`), which of its
  tasks are alive together: one message, in the broker or with one handler; while nobody has entered it, no
  drain (`FreshInv`); while its handler has entered it and holds the running lock, no drain that gets past that
  lock (`EnteringInv`); beside the owner of the slot only handlers about to mark or to ack (`BesideOwner`);
  beside the last failure nobody (`GoneInv`); a failed attempt finds no success (`FailedInv`); and whoever may
  write the row does not find a success (`Undecided`). The proof first says of every step what it does to one
  execution (`Changes`, lemma `NextChanges`) and to the line (`LineKept`, lemma `NextLine`); each part of the
  invariant is then kept by `Changes` alone, without the actions.
* `ConsumerHasOneHolder` (`OneHolder`) and `ConsumerLosesNobody` (`NoSilentLoss`) - of the whole consumer, under
  **every** fault, also where the lists hold an execution twice: nothing but the scripts and the watchdog
  touches the lock (`NextUsesScripts`).
* `ScriptsDoubleNobody` (`OnlyWatchdogDoubles`) - under **every** fault as well: from lists in order every
  script leads to lists in order (`LockInvariant`), so that only the push of the watchdog can put an execution
  into them twice. What it does not say is that nobody is there twice: with a stall, a crash or a lost answer
  somebody may be (section 3).
* `CallsTypeCorrect` - the types of `ProcessManager`, for any number of calls and executions and every fault.
* `CallsInvariant`, and from it `CallsAreTracked` and `WatchdogIsLast` - the inductive invariant `AloneInv`: as long as no
  call began beside another of its execution, the map, the listeners and the pending calls are one set; a
  call that was forced is stuck or its watchdog overflowed; and, unless an exit was notified early, the report of a
  pending call is still on its way. `Tracked` alone says nothing of a child's report, and
  `ForcedOnlyWhenStuck` nothing of the timers that will lead there. `ReportsAreKept` is the action property
  that follows from it.
* `CancelHasAuthor` - from `AuthorInv`, which holds with overlapping calls as well: a killed child is
  one that timed out or that somebody asked to kill, as long as the system kills none.
* `ParallelTypeCorrect` - the types of `RotinaParallel` under every fault, from `TypeInv`, which adds what the steps rely
  on: where the message of a handler may be at each step and that its retries are not used up once it has passed
  the counter (`Fits`), and that a handler belongs to a worker (`Handled`).
* `RunningLockExcludes` (`RunsAlone`) - from `LockHeld`: the running lock of an execution names the worker of
  every copy that holds it, and one copy holds it. `JobAwaited` (a job has a handler that awaits it, until a
  hard timeout parts them) turns that into a statement about jobs, and `OrphansApart` (the lock of an orphan is
  taken, and by no living copy) one about the children of dead workers.
* `NoLeaks` (`NothingLeaks`) - inductive with `LockHeld` and `LocksForRoutines`, which says that only a routine ever comes
  to the step that takes a running lock.
* `TenantSlotsBound` (`TenantBound`) - `SlotsCounted` bounds the members of the ZSET, but two runs could share one member.
  `OneCopy` says that an execution has one copy in use as long as nothing doubled its message, `SlotsKept` that
  the slot of a run is still a member; so runs are at most as many as members. The proof needs
  `Copy` to be finite and every execution to start with a copy of its own (`CopyAssumption`, `ExeAssumption`):
  finitely many messages are in flight.
* `SuccessesStand` (`SuccessStands`) - from `WorkInv`: an execution that a handler will still write a result for
  (`Working`) is no success, as long as nothing makes two handlers of it meet (`Doubles`); only `Check` starts
  such work, on a row it has just read. What is left without copies that meet are redelivery after a crash,
  retries, reprocessing, and errors after the status was written; spent copies are excepted.
* `NothingIsLost` (`NothingLost`) - the two sides of the property have two reasons. `PresentInv`: with one
  handler per message, whoever is about to ack has seen the routine decided (`AcksDecided`). `ServedInv`: copies
  of one execution may meet and one of them be acked as a duplicate, but then the holder of the running lock
  runs it and, as no handling fails (`AllClean`), will decide it (`Served`).
* `ManualTypeCorrect` and `RoutineLockIsRun` (`LockMeansRun`) - `LocksHeld` says that the runs of a routine and its lock
  agree, and `StartsAlone` that a request between its test and its lock is alone with its routine, of which
  the property says nothing.
* `OpenRowsHaveRuns` (`OpenRowHasRun`) - with `RowsAreStarted` (a row belongs to a request that was started, and whatever
  runs has a row) and `OpenRowIsAnswered`, the property for runs that have not booked their outcome yet.
* `CancelsStand` (`CancelStands`) - with `KillIsBooked` (a run that was killed books `CANCELADO`) and `FailsAreDeleted`
  (without an error of the database only the run of a deleted row comes to the catch block).
* `TenantTypeCorrect`, `TenantHasOneConsumer` (`OneConsumer`) - a handler that waits for the broker has exactly
  one request in the queue (`Worker`), so a served request finds its handler where it was left; and, while
  handlers take turns, the broker's consumer is the one of the tag (`TagInv`).

* `PassageTypeCorrect`, `RightPersonRegistered` (`RightPerson`) and `MarkedIsRegistered`
  (`ProcessedIsRegistered`) - from `Knows`, what a call has found out by the query it awaits (the `catra_event`
  of a `dao` shares a second with it), and `Recorded`, which says the same of what was written and that a marked
  row has a registration at its second. What the second theorem gives is the id: the person is one that bears
  it.
* `NothingIsMissed` (`NothingMissed`) - the heart of the protocol: each handler stores before it looks.
  `StoredInv` says that a call past its insert has its row in the table and that nobody deletes it; a call is
  `Blind` when it has looked in vain at the second where the other notification would be, and `FoundInv` that,
  as long as the passage is not registered, not both handlers are. A call that ends without a registration is
  blind.
* `RegisteredOnlyOnce` (`RegisteredOnce`) - `KeptInv` (the rows of a `catra_event` stay), `FreshInv` (they are
  created once), `Alone` (one call of the passage at a time) and `OnceInv`: once a call has registered the
  passage and marked the rows (`Settled`), no call is `Heading` for a registration any more.

For the relay, with any number of sockets and requests on the way at a time:

* `RelayTypeCorrect` and `LiveConnectorKept` (`KeepsLiveConnector`) - the first with `Opened` (what is handled
  was opened); the second is a statement about single steps from there; the end of the webapi closes the socket
  with the entry.
* `ResolvedHasAllParts` (`ResolvedIsComplete`) - `OneLink` says that, while nothing is lost, one socket carries
  everything; (the premises exclude lost links and parts nobody heard: there the gateway does resolve what is
  left). `Collected` follows a request from there: what the connector has sent (`exec`) of the response is
  collected (`got`) or on the wire, and the head stands before the body, both before the end (`InOrder`).
  `TailKeepsOrder` and `AppendKeepsOrder` are the two ends of the wire.
* `ClientTypeCorrect`, `ClientHasOneSocket` (`OneSocket`) - of the specification `ClientSpec` of the worker's
  client. `Single` says that the socket that lives is the one of `this.ws`, and that `connectPromise` is set
  while it connects.

For the publisher, with any number of submissions, batches of any size and every fault: `PublisherInv` says what is
true of a submission from where it stands. It waits in the line (`Waits`), or is in the batch and not yet published
(`Unsent`), or is published (`Sent`), and never two of these: `Lined` is the injectivity of batch and buffer together, which
the two ends of the `splice` have to keep.

* `PublisherTypeCorrect` - from `Lined`; the other variables follow each action.
* `OnlyAcceptedResolves` (`ResolvedMeansAccepted`) - what is `Sent` on a live channel has a message or has come
  back, so that after the confirm it is accepted or among `returned`; an accepted message is not taken back.
* `RowsHaveMessages` (`NoOrphanRow`) - an open row is in the batch or has an accepted message; when the batch
  fails, its rows are booked if `dbInserted` says so, and otherwise there are none (hence the exception of the
  lost answer).
* `RejectedDidNotRun` (`RejectedNeverRan`) - as long as no channel closes, a flush fails before it has published anything
  (`FlushInv`), so that whoever is rejected has no message.

The first part of `RotinaSerialProofs` holds the lemmas on lists: `LREM` is defined by counting the positions it
keeps, and the lemmas show that it is a sequence of the other elements in their order, without any use of
recursion. The assumptions are those the modules name: `NoExe` is no execution, `MaxAttempts` is positive,
`NoWorker` is no worker, the poll is one of the handlers, bounds are natural numbers, the faults are among
`AllFaultKinds`. The types of `SerialWaitLock`, `RotinaSerial`, `RotinaParallel`, `ProcessManager`,
`BatchPublisher`, `ManualExecution`, `TenantConsumers`, `ControlidPassagem`, `WsRelay` and `WsRelayClient` are
proved and therefore in no run.

Every invariant and action property of the runs is a theorem, under the faults named there. Beyond the prover:
liveness under fairness (`EventuallyDecided`, `EverySettles`, `EverySubmitSettles`, `EveryRunEnds`,
`StatusCatchesUp`, `EveryCallSettles`, `OnIsConsumed`, `OffIsNotConsumed`), and `ENABLED`.

## 5. Not modelled

* **Scheduler and webhook.** A cron tick takes a Redis key for 120 s and enqueues; the webhook enqueues and waits for
  a publication. Both are callers of `BatchPublisher.Submit`; the lost publication is listed as a hazard.
* **ControlID command queue, online identification and the other notifications**: their endpoints (push, result,
  sync, new user identified, door, templates) are commented out in `controlid-monitor.controller.ts` (51-196),
  so that nothing reaches `getPendingCommand`, `processResult` or `validarAcessoOnline`.
* **Aggregation of passages** into windows (what an INTERNAL job writes): a computation over times of day,
  to be stated as pure operators.
* **Remote UI gateway**: an HTTP proxy over the relay. Its pending requests are not rejected when
  its relay connection closes and end by their timeout.
* **Hardware adapters, ERP sync, registro diario schedulers**: request and answer with third parties.
* **Console, monitoring, CRUD, authentication, AI, notifications, web UI**: by far the largest part of the
  repository; request and answer over the database, without an order of events that could go wrong.
* `publishJobWithConfirm`, `clearSerialInflightZset` (an operator's tool that empties the lock on purpose) and the
  HTTP retries inside the drain.
