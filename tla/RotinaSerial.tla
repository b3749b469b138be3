----------------------------- MODULE RotinaSerial -----------------------------
(***************************************************************************)
(* The life of the executions of one serial routine, from the tenant's     *)
(* main queue in RabbitMQ to a final status in ROTExecucaoLog: the worker  *)
(* processes of worker/src/rotina-consumer.ts around the lock of           *)
(* SerialWaitLock, and the watchdog of the webapi.                         *)
(*                                                                         *)
(* A task is one activity of one worker process about one execution: the   *)
(* handling of a delivery (onMessage) or a turn of a drain loop            *)
(* (drainSerialWaitLoop).  Node runs them concurrently, so a task can be   *)
(* preempted at every await: pc[t] names the next awaited operation.       *)
(*                                                                         *)
(* Faults are drawn from FaultKinds, at most MaxFaults of them.  "redis":  *)
(* a command fails without effect; "reply": it is executed and its answer  *)
(* is lost (commandTimeout, a connection that breaks).                     *)
(***************************************************************************)
EXTENDS SerialWaitLock

CONSTANTS
  Worker,      \* worker processes
  NoWorker,    \* the running lock is free
  FaultKinds,  \* which faults may happen
  MaxFaults    \* bound on how many

AllFaultKinds == {"crash", "channel", "capacity", "database", "redis", "reply",
                  "cancel", "stall", "attemptsTtl", "hardTimeout"}

ASSUME NoWorkerAssumption == NoWorker \notin Worker
ASSUME FaultsAssumption == FaultKinds \subseteq AllFaultKinds /\ MaxFaults \in Nat

VARIABLES
  log,         \* ROTExecucaoLog.EXEStatus of each execution
  ready,       \* messages waiting in the tenant's main queue
  unacked,     \* per worker, deliveries the broker waits an ack for
  running,     \* the Redis key redisRunningLockKey(exe): its value
  pc,          \* next operation of each task
  granted,     \* the execution a failed attempt was answered, not yet drained
  recovering,  \* per worker, recoverSerialState between its two scripts
  watchdog,    \* what handleCheck has still to look at, and how far it is
  killed,      \* tasks whose child process got the cancel signal
  left,        \* runs that nobody awaits any more, with how they came to be
  up,          \* worker processes that are alive
  faults       \* faults left

consumerVars == <<log, ready, unacked, running, pc, granted, recovering,
                  watchdog, killed, left, up, faults>>
vars == <<lockVars, consumerVars>>

-----------------------------------------------------------------------------
(* TIMEOUT is treated by the code exactly as ERRO and is left out.          *)
Final == {"SUCESSO", "ERRO", "CANCELADO"}

(* A row AGUARDANDO_LOCK_SERIAL that nobody wrote for STALE_MINUTES has a   *)
(* status of its own here: any write of the row ends it.                    *)
Waiting == {"AGUARDANDO_LOCK_SERIAL", "AGUARDANDO_STALE"}
Status == Final \cup {"EM_EXECUCAO"} \cup Waiting

Message(w, e) == <<"message", w, e>>
Drain(w, e)   == <<"drain", w, e>>
Task == {"message", "drain"} \X Worker \X Exe
KindOf(t)   == t[1]
WorkerOf(t) == t[2]
ExeOf(t)    == t[3]

\* What finally{} does after it gave the running lock back, by the outcome.
AfterUnlock == [succeeded |-> "release", failed |-> "fail", full |-> "requeue",
                enqueued |-> "ack", unmarked |-> "nack"]

PC == {"idle", "check", "lock", "enqueue", "mark", "slot", "run"}
        \cup DOMAIN AfterUnlock
        \cup {"release", "fail", "requeue", "remark", "finalize", "ack", "nack"}

WatchdogStep == {"idle", "notWaiting", "absent"}

(* A run whose task went on or is gone.  "abandoned": the hard timeout of   *)
(* its task ended the wait, not processJob; "orphan": the child process of  *)
(* a worker that died, until its lease runs out.                            *)
LeftKind == {"abandoned", "orphan"}

TypeOK ==
  /\ LockTypeOK
  /\ log \in [Exe -> Status]
  /\ ready \subseteq Exe
  /\ unacked \in [Worker -> SUBSET Exe]
  /\ running \in [Exe -> Worker \cup {NoWorker}]
  /\ pc \in [Task -> PC]
  /\ granted \in [Task -> ExeOrNone]
  /\ recovering \in [Worker -> BOOLEAN]
  /\ watchdog \in [step : WatchdogStep, exe : ExeOrNone, stuck : SUBSET Exe]
  /\ killed \subseteq Task
  /\ left \subseteq Task \X LeftKind
  /\ up \in [Worker -> BOOLEAN]
  /\ faults \in 0..MaxFaults

\* A burst of published jobs: row created EM_EXECUCAO, message confirmed.
Init ==
  /\ LockInit
  /\ log = [e \in Exe |-> "EM_EXECUCAO"]
  /\ ready = Exe
  /\ unacked = [w \in Worker |-> {}]
  /\ running = [e \in Exe |-> NoWorker]
  /\ pc = [t \in Task |-> "idle"]
  /\ granted = [t \in Task |-> NoExe]
  /\ recovering = [w \in Worker |-> FALSE]
  /\ watchdog = [step |-> "idle", exe |-> NoExe, stuck |-> {}]
  /\ killed = {}
  /\ left = {}
  /\ up = [w \in Worker |-> TRUE]
  /\ faults = MaxFaults

-----------------------------------------------------------------------------
Fault(kind) == kind \in FaultKinds /\ faults > 0 /\ faults' = faults - 1

Goto(t, label) == pc' = [pc EXCEPT ![t] = label]
SetLog(e, status) == log' = [log EXCEPT ![e] = status]

\* startDrainInBackground / the next turn of the loop: a drain task of w for
\* the promoted execution, if any, in the program counters p.  A worker is
\* modelled with at most one drain per execution.
StartDrain(p, w, next) ==
  IF next = NoExe THEN pc' = p
  ELSE p[Drain(w, next)] = "idle" /\ pc' = [p EXCEPT ![Drain(w, next)] = "check"]

\* Task t is through with the lock; a message is still to be acked.
Proceed(t, next) ==
  StartDrain([pc EXCEPT ![t] = IF KindOf(t) = "message" THEN "ack" ELSE "idle"],
             WorkerOf(t), next)

(* onMessage ---------------------------------------------------------------*)
\* channel.consume hands a message to a worker.
Deliver(w, e) ==
  /\ up[w] /\ e \in ready /\ pc[Message(w, e)] = "idle"
  /\ Goto(Message(w, e), "check")
  /\ ready' = ready \ {e}
  /\ unacked' = [unacked EXCEPT ![w] = @ \cup {e}]
  /\ UNCHANGED <<lockVars, log, running, granted, recovering, watchdog, killed,
                 left, up, faults>>

\* (mutant) Defers a message for lack of capacity without republishing it.
MutDeferWithoutRepublish(w, e) ==
  LET t == Message(w, e) IN
  /\ pc[t] = "check"
  /\ \/ Goto(t, IF log[e] \in Final THEN "ack" ELSE "lock") /\ UNCHANGED faults
     \/ log[e] \notin Final /\ Fault("capacity") /\ Goto(t, "ack")
  /\ UNCHANGED <<lockVars, log, ready, unacked, running, granted, recovering,
                 watchdog, killed, left, up>>

\* Read the status: a decided execution is acked unprocessed; otherwise take
\* a slot of the tenant, or put the message back behind the queue.  An
\* exception before that returns it to the broker.
CheckMessage(w, e) ==
  LET t == Message(w, e) IN
  /\ pc[t] = "check"
  /\ \/ /\ log[e] \in Final
        /\ Goto(t, "ack")
        /\ UNCHANGED <<ready, unacked, faults>>
     \/ /\ log[e] \notin Final
        /\ Goto(t, "lock")
        /\ UNCHANGED <<ready, unacked, faults>>
     \/ /\ log[e] \notin Final
        /\ Fault("capacity")
        /\ Goto(t, "idle")
        /\ ready' = ready \cup (unacked[w] \cap {e})
        /\ unacked' = [unacked EXCEPT ![w] = @ \ {e}]
     \/ /\ Fault("database")
        /\ Goto(t, "nack")
        /\ UNCHANGED <<ready, unacked>>
  /\ UNCHANGED <<lockVars, log, running, granted, recovering, watchdog, killed, left, up>>

\* tryAcquireOrEnqueueSerial, with the running lock of e held.  When the
\* script throws, the outcome is a failure without the slot: after the
\* running lock is given back there is nothing to do but ack.  ioredis sends a
\* command whose answer was lost again, and the copy finds e already there.
EnqueueSerial(w, e) ==
  LET t == Message(w, e) IN
  /\ pc[t] = "enqueue"
  /\ \/ /\ \E acquired \in BOOLEAN :
             /\ TryAcquireOrEnqueue(e, acquired)
             /\ Goto(t, IF acquired THEN "run" ELSE "mark")
        /\ UNCHANGED faults
     \/ /\ Fault("redis")
        /\ Goto(t, "enqueued")
        /\ UNCHANGED lockVars
     \/ /\ \E acquired \in BOOLEAN : TryAcquireOrEnqueue(e, acquired)
        /\ Fault("reply")
        /\ Goto(t, "enqueued") \/ Goto(t, "mark")
  /\ UNCHANGED <<log, ready, unacked, running, granted, recovering, watchdog,
                 killed, left, up>>

\* Not acquired: record it in the log; if that fails the message goes back.
MarkWaiting(w, e) ==
  LET t == Message(w, e) IN
  /\ pc[t] = "mark"
  /\ \/ /\ SetLog(e, "AGUARDANDO_LOCK_SERIAL")
        /\ Goto(t, "enqueued")
        /\ UNCHANGED faults
     \/ /\ Fault("database")
        /\ Goto(t, "unmarked")
        /\ UNCHANGED log
  /\ UNCHANGED <<lockVars, ready, unacked, running, granted, recovering,
                 watchdog, killed, left, up>>

\* settle(): on a delivery the broker took back it has no effect.
Settle(w, e) ==
  LET t == Message(w, e) IN
  /\ pc[t] \in {"ack", "nack"}
  /\ Goto(t, "idle")
  /\ unacked' = [unacked EXCEPT ![w] = @ \ {e}]
  /\ ready' = IF pc[t] = "nack" THEN ready \cup (unacked[w] \cap {e}) ELSE ready
  /\ UNCHANGED <<lockVars, log, running, granted, recovering, watchdog, killed,
                 left, up, faults>>

(* drainSerialWaitLoop -----------------------------------------------------*)
\* Rebuild the job from the log; a decided execution, or one whose log cannot
\* be read, is skipped.
CheckDrain(w, e) ==
  LET t == Drain(w, e) IN
  /\ pc[t] = "check"
  /\ \/ /\ Goto(t, IF log[e] \in Final THEN "release" ELSE "lock")
        /\ UNCHANGED faults
     \/ Fault("database") /\ Goto(t, "release")
  /\ UNCHANGED <<lockVars, log, ready, unacked, running, granted, recovering,
                 watchdog, killed, left, up>>

\* acquireTenantSlotBlocking, then log EM_EXECUCAO and run; without capacity
\* the execution is handed back, and an exception makes it skipped.
TakeSlot(w, e) ==
  LET t == Drain(w, e) IN
  /\ pc[t] = "slot"
  /\ \/ SetLog(e, "EM_EXECUCAO") /\ Goto(t, "run") /\ UNCHANGED faults
     \/ Fault("capacity") /\ Goto(t, "full") /\ UNCHANGED log
     \/ Fault("database") /\ Goto(t, "succeeded") /\ UNCHANGED log
  /\ UNCHANGED <<lockVars, ready, unacked, running, granted, recovering,
                 watchdog, killed, left, up>>

RequeueAtHead(w, e) ==
  LET t == Drain(w, e) IN
  /\ pc[t] = "requeue"
  /\ \E next \in ExeOrNone :
       RequeueAtHeadAndClaimNext(e, next) /\ Proceed(t, next)
  /\ UNCHANGED <<log, ready, unacked, running, granted, recovering, watchdog,
                 killed, left, up, faults>>

(* Both kinds of task ------------------------------------------------------*)
\* (mutant) SET without NX.
MutLockWithoutNX(t) ==
  /\ pc[t] = "lock"
  /\ running' = [running EXCEPT ![ExeOf(t)] = WorkerOf(t)]
  /\ Goto(t, IF KindOf(t) = "message" THEN "enqueue" ELSE "slot")
  /\ UNCHANGED <<lockVars, log, ready, unacked, granted, recovering, watchdog,
                 killed, left, up, faults>>

\* acquireRunningLock (SET NX): somebody else's lock makes a delivery a
\* duplicate to be acked, and a drained execution one to be skipped.  An
\* exception fails open; a SET that ioredis sends again after its answer was
\* lost finds its own key, and the lock it took is taken for somebody else's.
AcquireRunningLock(t) ==
  LET e == ExeOf(t)
      granting == IF KindOf(t) = "message" THEN "enqueue" ELSE "slot"
      refusing == IF KindOf(t) = "message" THEN "ack" ELSE "release"
  IN
  /\ pc[t] = "lock"
  /\ \/ /\ running[e] = NoWorker
        /\ running' = [running EXCEPT ![e] = WorkerOf(t)]
        /\ Goto(t, granting) /\ UNCHANGED faults
     \/ /\ running[e] # NoWorker
        /\ Goto(t, refusing) /\ UNCHANGED <<running, faults>>
     \/ Fault("redis") /\ Goto(t, granting) /\ UNCHANGED running
     \/ /\ Fault("reply") /\ (Goto(t, granting) \/ Goto(t, refusing))
        /\ running' = [running EXCEPT ![e] = IF @ = NoWorker THEN WorkerOf(t) ELSE @]
  /\ UNCHANGED <<lockVars, log, ready, unacked, granted, recovering, watchdog,
                 killed, left, up>>

\* The child process ends and processJob writes the final status; after the
\* cancel signal it may still have ended by itself.  A database error in that
\* write, or an error of the calls after it, is an exception, hence a failure.
FinishRun(t) ==
  LET e == ExeOf(t) IN
  /\ pc[t] = "run"
  /\ \/ \E result \in {"SUCESSO", "ERRO"}
                        \cup (IF t \in killed THEN {"CANCELADO"} ELSE {}) :
          /\ SetLog(e, result)
          /\ Goto(t, IF result = "SUCESSO" THEN "succeeded" ELSE "failed")
          /\ UNCHANGED faults
     \/ /\ \/ Fault("database") /\ UNCHANGED log
           \/ (Fault("database") \/ Fault("redis")) /\ SetLog(e, "SUCESSO")
        /\ Goto(t, "failed")
  /\ killed' = killed \ {t}
  /\ UNCHANGED <<lockVars, ready, unacked, running, granted, recovering,
                 watchdog, left, up>>

\* withHardTimeout stops waiting, an exception and hence a failure, while
\* processJob goes on.  One abandoned run per task at a time is a bound.
HardTimeout(t) ==
  /\ pc[t] = "run" /\ <<t, "abandoned">> \notin left
  /\ Fault("hardTimeout")
  /\ Goto(t, "failed")
  /\ left' = left \cup {<<t, "abandoned">>}
  /\ UNCHANGED <<lockVars, log, ready, unacked, running, granted, recovering,
                 watchdog, killed, up>>

\* A run that nobody awaits ends.  processJob of a living worker still writes
\* the final status, whatever the execution has become since; the child of a
\* dead worker has nobody left to report to.
LeftRunEnds(t, kind) ==
  LET e == ExeOf(t) IN
  /\ <<t, kind>> \in left
  /\ left' = left \ {<<t, kind>>}
  /\ killed' = IF pc[t] = "run" THEN killed ELSE killed \ {t}
  /\ \/ /\ kind = "abandoned"
        /\ \E result \in {"SUCESSO", "ERRO"}
                           \cup (IF t \in killed THEN {"CANCELADO"} ELSE {}) :
             SetLog(e, result)
        /\ UNCHANGED faults
     \/ kind = "abandoned" /\ Fault("database") /\ UNCHANGED log
     \/ kind # "abandoned" /\ UNCHANGED <<log, faults>>
  /\ UNCHANGED <<lockVars, ready, unacked, running, pc, granted, recovering,
                 watchdog, up>>

\* (mutant) Returns early, lock kept, when the tenant has no capacity.
MutKeepLockWhenFull(t) ==
  LET e == ExeOf(t) IN
  /\ pc[t] \in DOMAIN AfterUnlock
  /\ running' = [running EXCEPT ![e] =
                   IF @ = WorkerOf(t) /\ pc[t] # "full" THEN NoWorker ELSE @]
  /\ Goto(t, AfterUnlock[pc[t]])
  /\ UNCHANGED <<lockVars, log, ready, unacked, granted, recovering, watchdog,
                 killed, left, up, faults>>

\* releaseRunningLock: deletes the key only when it holds this worker; an
\* exception is logged.
ReleaseRunningLock(t) ==
  LET e == ExeOf(t) IN
  /\ pc[t] \in DOMAIN AfterUnlock
  /\ \/ /\ running' = [running EXCEPT ![e] = IF @ = WorkerOf(t) THEN NoWorker ELSE @]
        /\ UNCHANGED faults
     \/ Fault("redis") /\ UNCHANGED running
  /\ Goto(t, AfterUnlock[pc[t]])
  /\ UNCHANGED <<lockVars, log, ready, unacked, granted, recovering, watchdog,
                 killed, left, up>>

\* Success, or skipped by the drain: free the slot for the head of the line.
ReleaseSlot(t) ==
  /\ pc[t] = "release"
  /\ \E next \in ExeOrNone :
       ReleaseSlotAndPopNext(ExeOf(t), next) /\ Proceed(t, next)
  /\ UNCHANGED <<log, ready, unacked, running, granted, recovering, watchdog,
                 killed, left, up, faults>>

\* failSerialAttempt: the answer is drained only after the log is updated.
FailAttempt(t) ==
  /\ pc[t] = "fail"
  /\ \E exhausted \in BOOLEAN, next \in ExeOrNone :
       /\ FailAttemptAndClaimNext(ExeOf(t), exhausted, next)
       /\ Goto(t, IF exhausted THEN "finalize" ELSE "remark")
       /\ granted' = [granted EXCEPT ![t] = next]
  /\ UNCHANGED <<log, ready, unacked, running, recovering, watchdog, killed, left, up,
                 faults>>

\* After a failed attempt: AGUARDANDO_LOCK_SERIAL below the limit, ERRO (and
\* the dead-letter queue) at the limit; an update error is only logged.
RecordFailure(t) ==
  LET status == IF pc[t] = "remark" THEN "AGUARDANDO_LOCK_SERIAL" ELSE "ERRO" IN
  /\ pc[t] \in {"remark", "finalize"}
  /\ \/ SetLog(ExeOf(t), status) /\ UNCHANGED faults
     \/ Fault("database") /\ UNCHANGED log
  /\ Proceed(t, granted[t])
  /\ granted' = [granted EXCEPT ![t] = NoExe]
  /\ UNCHANGED <<lockVars, ready, unacked, running, recovering, watchdog,
                 killed, left, up>>

\* A script throws: logged, and whoever it promoted, if it was executed, is
\* drained by nobody.
ScriptFails(t) ==
  /\ \/ /\ pc[t] \in {"release", "fail", "requeue"}
        /\ Fault("redis")
        /\ UNCHANGED lockVars
     \/ /\ Fault("reply")
        /\ \E next \in ExeOrNone :
             \/ pc[t] = "release" /\ ReleaseSlotAndPopNext(ExeOf(t), next)
             \/ pc[t] = "requeue" /\ RequeueAtHeadAndClaimNext(ExeOf(t), next)
             \/ /\ pc[t] = "fail"
                /\ \E exhausted \in BOOLEAN :
                     FailAttemptAndClaimNext(ExeOf(t), exhausted, next)
  /\ Goto(t, IF KindOf(t) = "message" THEN "ack" ELSE "idle")
  /\ UNCHANGED <<log, ready, unacked, running, granted, recovering, watchdog,
                 killed, left, up>>

(* recoverSerialState ------------------------------------------------------*)
\* Every 30 s and at boot: reclaim the orphan claims of the pair ...
RecoverReclaim(w) ==
  /\ up[w] /\ ~recovering[w]
  /\ ReclaimOrphans
  /\ recovering' = [recovering EXCEPT ![w] = TRUE]
  /\ UNCHANGED <<log, ready, unacked, running, pc, granted, watchdog, killed,
                 left, up, faults>>

\* ... then promote the head if the slot is free, and drain it.
RecoverPromote(w) ==
  /\ recovering[w]
  /\ \E next \in ExeOrNone :
       ReleaseSlotAndPopNext(NoExe, next) /\ StartDrain(pc, w, next)
  /\ recovering' = [recovering EXCEPT ![w] = FALSE]
  /\ UNCHANGED <<log, ready, unacked, running, granted, watchdog, killed, left, up,
                 faults>>

(* The webapi --------------------------------------------------------------*)
\* Ten minutes pass for a row that nobody writes.  What a task does with e
\* between two writes, backoff and wait for capacity included, is shorter, but
\* for a run: the row grows old while e waits or is forgotten, or under a run.
\* Once old it is old for whoever claims e then, until TakeSlot writes it.
RowAges(e) ==
  /\ log[e] = "AGUARDANDO_LOCK_SERIAL"
  /\ \A t \in Task : ExeOf(t) = e => pc[t] \in {"idle", "run"}
  /\ \A t \in Task : granted[t] # e
  /\ SetLog(e, "AGUARDANDO_STALE")
  /\ UNCHANGED <<lockVars, ready, unacked, running, pc, granted, recovering,
                 watchdog, killed, left, up, faults>>

\* SerialLockWatchdogService: all that the query answers is looked at, one by
\* one, whatever has become of it meanwhile (fewer than 100, its `take').
Stale == {e \in Exe : log[e] = "AGUARDANDO_STALE"}

WatchdogQuery ==
  /\ watchdog.step = "idle" /\ watchdog.stuck = {} /\ Stale # {}
  /\ watchdog' = [watchdog EXCEPT !.stuck = Stale]
  /\ UNCHANGED <<lockVars, log, ready, unacked, running, pc, granted,
                 recovering, killed, left, up, faults>>

\* tryRecover: LPOS on the waiting line, LPOS on the claims, then RPUSH, with
\* anything in between.
WatchdogMoves(from, e, to) ==
  /\ watchdog.step = from
  /\ IF from = "idle" THEN e \in watchdog.stuck ELSE e = watchdog.exe
  /\ watchdog' = [step |-> to, exe |-> IF to = "idle" THEN NoExe ELSE e,
                  stuck |-> watchdog.stuck \ {e}]
  /\ UNCHANGED <<holders, lapsed, processing, attempts, log, ready, unacked,
                 running, pc, granted, recovering, killed, left, up, faults>>

WatchdogLooksInWait(e) ==
  /\ WatchdogMoves("idle", e, IF e \in Members(waitList) THEN "idle" ELSE "notWaiting")
  /\ UNCHANGED waitList

\* (mutant) Recovers only what is among the claims.
MutWatchdogInverted(e) ==
  /\ WatchdogMoves("notWaiting", e, IF e \in Members(processing) THEN "absent" ELSE "idle")
  /\ UNCHANGED waitList

WatchdogLooksInProcessing(e) ==
  /\ WatchdogMoves("notWaiting", e, IF e \in Members(processing) THEN "idle" ELSE "absent")
  /\ UNCHANGED waitList

WatchdogPushes(e) ==
  WatchdogMoves("absent", e, "idle") /\ waitList' = RPush(waitList, e)

\* cancelIndividual: only EM_EXECUCAO is cancelled; whoever runs it is
\* signalled and kills the child, awaited or abandoned.
Cancel(e) ==
  /\ log[e] = "EM_EXECUCAO"
  /\ Fault("cancel")
  /\ SetLog(e, "CANCELADO")
  /\ killed' = killed \cup {t \in Task : /\ ExeOf(t) = e
                                         /\ \/ pc[t] = "run"
                                            \/ <<t, "abandoned">> \in left}
  /\ UNCHANGED <<lockVars, ready, unacked, running, pc, granted, recovering,
                 watchdog, left, up>>

(* Faults and time ---------------------------------------------------------*)
\* A worker process dies: its tasks are gone, the broker takes the deliveries
\* back, and what it left in Redis stays until it expires.  A forked child
\* does not notice and goes on; with its parent nobody books what it does.
Crash(w) ==
  /\ up[w] /\ Fault("crash")
  /\ up' = [up EXCEPT ![w] = FALSE]
  /\ pc' = [t \in Task |-> IF WorkerOf(t) = w THEN "idle" ELSE pc[t]]
  /\ granted' = [t \in Task |-> IF WorkerOf(t) = w THEN NoExe ELSE granted[t]]
  /\ killed' = {t \in killed : WorkerOf(t) # w}
  /\ left' = {r \in left : WorkerOf(r[1]) # w \/ r[2] # "abandoned"}
               \cup {<<t, "orphan">> : t \in {u \in Task : WorkerOf(u) = w /\ pc[u] = "run"}}
  /\ recovering' = [recovering EXCEPT ![w] = FALSE]
  /\ ready' = ready \cup unacked[w]
  /\ unacked' = [unacked EXCEPT ![w] = {}]
  /\ UNCHANGED <<lockVars, log, running, watchdog>>

Restart(w) ==
  /\ ~up[w]
  /\ up' = [up EXCEPT ![w] = TRUE]
  /\ UNCHANGED <<lockVars, log, ready, unacked, running, pc, granted, recovering,
                 watchdog, killed, left, faults>>

\* The channel closes (a 406 of the broker, a reconnection): deliveries go
\* back to the queue while their handlers keep running.
ChannelLoss(w) ==
  /\ up[w] /\ unacked[w] # {} /\ Fault("channel")
  /\ ready' = ready \cup unacked[w]
  /\ unacked' = [unacked EXCEPT ![w] = {}]
  /\ UNCHANGED <<lockVars, log, running, pc, granted, recovering, watchdog,
                 killed, left, up>>

\* The tasks that own the slot of their execution, and those that hold the
\* running lock.  A drain owns its slot from the claim on; between a failed
\* attempt and its record it owns the slot of the one it was answered.
OwnsSlot(t, e) ==
  \/ /\ ExeOf(t) = e
     /\ \/ pc[t] \in {"run", "succeeded", "failed", "full", "release", "fail",
                      "requeue"}
        \/ KindOf(t) = "drain" /\ pc[t] \in {"check", "lock", "slot"}
  \/ granted[t] = e

HoldsRunningLock(t) ==
  pc[t] \in {"enqueue", "mark", "slot", "run"} \cup DOMAIN AfterUnlock

\* The lease of a slot nobody owns any more runs out.  A living owner keeps
\* it: heartbeats while it runs, and the lease is longer than a backoff plus
\* the wait for capacity.  A stall breaks exactly that assumption.  From here
\* on a child that is still at work runs without the lock.
LeaseRunsOut(e) ==
  /\ \A t \in Task : ~OwnsSlot(t, e)
  /\ LeaseLapses(e)
  /\ left' = left \ {<<t, "orphan">> : t \in {u \in Task : ExeOf(u) = e}}
  /\ UNCHANGED <<log, ready, unacked, running, pc, granted, recovering, watchdog,
                 killed, up, faults>>

Stall(e) ==
  /\ \E t \in Task : OwnsSlot(t, e)
  /\ Fault("stall")
  /\ LeaseLapses(e)
  /\ UNCHANGED <<log, ready, unacked, running, pc, granted, recovering, watchdog,
                 killed, left, up>>

Heartbeat(e) ==
  /\ e \in lapsed
  /\ \E t \in Task : OwnsSlot(t, e) /\ pc[t] = "run"
  /\ RenewLease(e)
  /\ UNCHANGED consumerVars

\* The running lock of a dead worker expires (RUNNING_LOCK_TTL_MS).
RunningLockExpires(e) ==
  /\ running[e] # NoWorker
  /\ \A t \in Task : ExeOf(t) = e /\ WorkerOf(t) = running[e] => ~HoldsRunningLock(t)
  /\ running' = [running EXCEPT ![e] = NoWorker]
  /\ UNCHANGED <<lockVars, log, ready, unacked, pc, granted, recovering, watchdog,
                 killed, left, up, faults>>

AttemptsTtlEnds(e) ==
  /\ Fault("attemptsTtl")
  /\ AttemptsExpire(e)
  /\ UNCHANGED <<log, ready, unacked, running, pc, granted, recovering, watchdog,
                 killed, left, up>>

-----------------------------------------------------------------------------
MessageStep(w, e) == CheckMessage(w, e) \/ EnqueueSerial(w, e)
                       \/ MarkWaiting(w, e) \/ Settle(w, e)
DrainStep(w, e) == CheckDrain(w, e) \/ TakeSlot(w, e) \/ RequeueAtHead(w, e)
CommonStep(t) == AcquireRunningLock(t) \/ FinishRun(t) \/ ReleaseRunningLock(t)
                   \/ ReleaseSlot(t) \/ FailAttempt(t) \/ RecordFailure(t)
                   \/ ScriptFails(t)
Unawaited(t) == HardTimeout(t) \/ \E kind \in LeftKind : LeftRunEnds(t, kind)
Recover(w) == RecoverReclaim(w) \/ RecoverPromote(w)
Watchdog(e) == WatchdogLooksInWait(e) \/ WatchdogLooksInProcessing(e)
                 \/ WatchdogPushes(e)
Expiry(e) == LeaseRunsOut(e) \/ RunningLockExpires(e) \/ RowAges(e)
Environment(e) == Cancel(e) \/ Stall(e) \/ Heartbeat(e) \/ AttemptsTtlEnds(e)

Next ==
  \/ \E w \in Worker, e \in Exe : Deliver(w, e) \/ MessageStep(w, e) \/ DrainStep(w, e)
  \/ \E t \in Task : CommonStep(t) \/ Unawaited(t)
  \/ \E w \in Worker : Recover(w) \/ Crash(w) \/ Restart(w) \/ ChannelLoss(w)
  \/ \E e \in Exe : Watchdog(e) \/ Expiry(e) \/ Environment(e)
  \/ WatchdogQuery

Spec == Init /\ [][Next]_vars

(* Every await returns, the broker keeps delivering, the timers of the      *)
(* worker and of the watchdog fire, dead workers are restarted (PM2) and    *)
(* what nobody renews expires.  Cancellations and faults are never owed.    *)
FairSpec ==
  /\ Spec
  /\ \A w \in Worker, e \in Exe :
       /\ WF_vars(Deliver(w, e)) /\ WF_vars(MessageStep(w, e))
       /\ WF_vars(DrainStep(w, e))
  /\ \A t \in Task : WF_vars(CommonStep(t))
  /\ \A w \in Worker : WF_vars(Recover(w)) /\ WF_vars(Restart(w))
  /\ \A e \in Exe : WF_vars(Watchdog(e)) /\ WF_vars(Expiry(e)) /\ WF_vars(Heartbeat(e))
  /\ WF_vars(WatchdogQuery)

-----------------------------------------------------------------------------
(* "A garantia de um por vez das rotinas serial" (serial-lease-heartbeat):  *)
(* two executions of the routine, or two copies of one, never run at the    *)
(* same time - whichever worker, delivery or drain started them, and also   *)
(* beside the child that a dead worker left behind, as long as its lease    *)
(* holds.  Excepted are what the hard timeout abandoned and a child that    *)
(* outlived its lease: they do run beside the next.                         *)
Runs == {<<t, "awaited">> : t \in {u \in Task : pc[u] = "run"}}
          \cup {r \in left : r[2] = "orphan"}
OneAtATime == \A r1, r2 \in Runs : r1 = r2

\* The slot has one owner, and while it is owned it is in the ZSET: nobody
\* goes on believing it owns a slot that was given to another.
SlotHasOneOwner ==
  \A e1, e2 \in Exe : \A t1, t2 \in Task :
    OwnsSlot(t1, e1) /\ OwnsSlot(t2, e2) => t1 = t2 /\ e1 = e2 /\ e1 \in holders

\* An accepted execution is never forgotten: until it is decided it is in the
\* broker, in the lists, in the hands of a living task, or marked
\* AGUARDANDO_LOCK_SERIAL where the watchdog looks for it.
NeverForgotten ==
  \A e \in Exe :
    \/ log[e] \in Final \cup Waiting
    \/ e \in ready \cup Members(waitList) \cup Members(processing)
    \/ \E t \in Task : (ExeOf(t) = e /\ pc[t] # "idle") \/ granted[t] = e

\* A running lock in Redis means what onMessage and the drain read into it:
\* "ja em execucao em outra instancia".  A lock that outlives the task that
\* took it would make them drop the execution.
RunningLockHasTask ==
  \A e \in Exe : running[e] # NoWorker =>
    \E t \in Task : WorkerOf(t) = running[e] /\ ExeOf(t) = e /\ HoldsRunningLock(t)

\* "Idempotente ... nao duplica nada": whatever the scripts are called for -
\* redeliveries, lapsed leases, recovery - none of them gives an execution a
\* second place.  Only the watchdog does, whose RPUSH comes after two looks
\* between which the execution may have gone from the claims to the line.
OnlyWatchdogDoubles ==
  [][QueuedOnce => QueuedOnce' \/ \E e \in Exe : WatchdogPushes(e)]_vars

\* A success is final: no redelivery, drain or watchdog reopens it, while no run is
\* given up at the hard timeout, no call fails and no worker dies.
SuccessIsFinal == [][\A e \in Exe : log[e] = "SUCESSO" => log'[e] = "SUCESSO"]_vars

\* Every accepted execution is decided for good in the end.
EventuallyDecided == \A e \in Exe : <>[](log[e] \in Final)
=============================================================================
