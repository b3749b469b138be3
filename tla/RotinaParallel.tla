---------------------------- MODULE RotinaParallel ----------------------------
(***************************************************************************)
(* The parallel routines and the INTERNAL jobs of one tenant, from the     *)
(* main queue to a final status: onMessage, runInternalJob and processJob  *)
(* of worker/src/rotina-consumer.ts with the tenant's slots (a ZSET of     *)
(* leases), the running lock, the retry queue, the final dead-letter queue *)
(* and its reprocessing by the webapi.                                     *)
(*                                                                         *)
(* A copy is one message in the broker, or the handling of one that the    *)
(* broker no longer waits for: when a channel closes under a living        *)
(* handler the message is delivered again, as another copy.  pc[c] is the  *)
(* next awaited operation of the handler of c and job[c] that of its       *)
(* processJob, which the hard timeout leaves running.                      *)
(***************************************************************************)
EXTENDS Naturals, FiniteSets, Functions

CONSTANTS
  Exe,           \* executions (exeId) of one tenant
  Internal,      \* those whose trigger is INTERNAL
  Worker,        \* worker processes
  NoWorker,      \* nobody: a free running lock, a copy nobody handles
  Copy,          \* identities for messages and handlings
  Settings,      \* slots: INSMaxExecucoesSimultaneas; defer: CAPACITY_DEFER_MS > 0;
                 \* retries: MAX_RETRIES
  FaultKinds,    \* which faults may happen
  MaxFaults      \* bound on how many

AllFaultKinds == {"crash", "channel", "database", "redis", "hardTimeout", "buffer",
                  "unroutable", "cancel", "delete", "noRoutine", "lapse"}

ASSUME CopyAssumption == IsFiniteSet(Copy)
ASSUME ExeAssumption == Exe # {} /\ \E f \in [Exe -> Copy] : IsInjective(f)
ASSUME InternalAssumption == Internal \subseteq Exe
ASSUME NoWorkerAssumption == NoWorker \notin Worker
ASSUME SettingsAssumption == 
  Settings \subseteq [slots : Nat \ {0}, defer : BOOLEAN, retries : Nat \ {0}]
ASSUME FaultsAssumption == FaultKinds \subseteq AllFaultKinds /\ MaxFaults \in Nat

VARIABLES
  settings,  \* of the tenant and the deployment: they do not change
  log,       \* EXEStatus of each execution, "none" when the row is gone
  msg,       \* per copy: its queue, execution, x-rotina-retry-count, defer marker
  pc,        \* next operation of the handler of a copy
  by,        \* the worker of that handler
  outcome,   \* how that handler will settle
  job,       \* progress of the processJob of a copy
  result,    \* what its child process answered
  inflight,  \* members of the tenant's ZSET redisInflightZkey
  running,   \* the keys redisRunningLockKey(exe): who holds them
  orphans,   \* executions whose child outlived its worker, until their lock expires
  faults     \* how many may still happen, which kinds did

vars == <<settings, log, msg, pc, by, outcome, job, result, inflight, running, orphans, faults>>

Final == {"SUCESSO", "ERRO", "CANCELADO"}
Status == Final \cup {"EM_EXECUCAO", "none"}

(* "returned": unroutable, on its way back to the worker that published it. *)
Place == {"nowhere", "main", "retry", "dlq", "returned"}
PC == {"idle", "check", "slot", "lock", "await", "book", "unlock", "release",
       "settle", "exhaust", "republish"}
Outcome == {"ack", "discard"}
Job == {"none", "find", "exec", "write", "touch", "returned", "threw"}

TypeOK ==
  /\ settings \in Settings
  /\ log \in [Exe -> Status]
  /\ msg \in [Copy -> [at : Place, exe : Exe, retry : 0..settings.retries, deferred : BOOLEAN]]
  /\ pc \in [Copy -> PC]
  /\ by \in [Copy -> Worker \cup {NoWorker}]
  /\ outcome \in [Copy -> Outcome]
  /\ job \in [Copy -> Job]
  /\ result \in [Copy -> Final]
  /\ inflight \subseteq Exe
  /\ running \in [Exe -> Worker \cup {NoWorker}]
  /\ orphans \subseteq Exe \ Internal
  /\ faults \in [left : 0..MaxFaults, seen : SUBSET FaultKinds]

\* An identity that is not in use.
Blank == [at |-> "nowhere", exe |-> CHOOSE e \in Exe : TRUE, retry |-> 0, deferred |-> FALSE]
Free(c) == msg[c] = Blank /\ pc[c] = "idle" /\ job[c] = "none"
Spare(c) == Free(c) /\ c = CHOOSE d \in Copy : Free(d)

\* A burst: rows inserted EM_EXECUCAO, one message each, confirmed by the broker.
Init ==
  /\ settings \in Settings
  /\ log = [e \in Exe |-> "EM_EXECUCAO"]
  /\ LET first == CHOOSE f \in [Exe -> Copy] : IsInjective(f) IN
       msg = [c \in Copy |-> IF \E e \in Exe : first[e] = c
                             THEN [Blank EXCEPT !.at = "main", !.exe = CHOOSE e \in Exe : first[e] = c]
                             ELSE Blank]
  /\ pc = [c \in Copy |-> "idle"]
  /\ by = [c \in Copy |-> NoWorker]
  /\ outcome = [c \in Copy |-> "ack"]
  /\ job = [c \in Copy |-> "none"]
  /\ result = [c \in Copy |-> "ERRO"]
  /\ inflight = {}
  /\ running = [e \in Exe |-> NoWorker]
  /\ orphans = {}
  /\ faults = [left |-> MaxFaults, seen |-> {}]

-----------------------------------------------------------------------------
Fault(kind) ==
  /\ kind \in FaultKinds /\ faults.left > 0
  /\ faults' = [left |-> faults.left - 1, seen |-> faults.seen \cup {kind}]

\* None of these faults has happened.
Without(kinds) == faults.seen \cap kinds = {}

ExeOf(c) == msg[c].exe
Goto(c, label) == pc' = [pc EXCEPT ![c] = label]

\* updateMany by EXEIdExterno: nothing happens when the row is gone.
SetLog(e, status) == log' = [log EXCEPT ![e] = IF @ = "none" THEN @ ELSE status]

\* The broker waits for an answer on c; otherwise settling has no effect.
Held(c) == pc[c] # "idle" /\ msg[c].at = "main"

\* The handler of c returns, having left m in the broker (Blank: nothing).  A
\* processJob still running keeps c, and the message goes on as another copy.
Leave(c, m) ==
  /\ Goto(c, "idle")
  /\ outcome' = [outcome EXCEPT ![c] = "ack"]
  /\ IF job[c] = "none"
     THEN /\ msg' = [msg EXCEPT ![c] = m]
          /\ by' = [by EXCEPT ![c] = NoWorker]
     ELSE /\ UNCHANGED by
          /\ \/ m = Blank /\ msg' = [msg EXCEPT ![c].at = "nowhere"]
             \/ /\ m # Blank
                /\ \E d \in Copy : Spare(d) /\ msg' = [msg EXCEPT ![d] = m, ![c].at = "nowhere"]

\* What the message of c becomes: published again, requeued, dead-lettered.
InQueue(c, place) == IF Held(c) THEN [msg[c] EXCEPT !.at = place] ELSE Blank

\* publish() answers false when its buffer is full, having sent the message
\* all the same; c then goes back where it was.
PublishedTwice(c, m) == \E d \in Copy : Spare(d) /\ msg' = [msg EXCEPT ![d] = m]

(* onMessage ---------------------------------------------------------------*)
Deliver(c, w) ==
  /\ msg[c].at = "main" /\ pc[c] = "idle"
  /\ Goto(c, "check")
  /\ by' = [by EXCEPT ![c] = w]
  /\ UNCHANGED <<settings, orphans, log, msg, outcome, job, result, inflight, running, faults>>

\* sendToFinalDlq goes out on the current channel, even for a lost delivery.
GiveUp(c) ==
  /\ pc[c] = "check" /\ msg[c].retry >= settings.retries
  /\ \E d \in Copy :
       /\ Spare(d)
       /\ msg' = [msg EXCEPT ![d] = [msg[c] EXCEPT !.at = "dlq"], ![c].at = "nowhere"]
  /\ Goto(c, "exhaust")
  /\ UNCHANGED <<settings, orphans, log, by, outcome, job, result, inflight, running, faults>>

\* After the ack: updateExecLog, not for INTERNAL.
Exhaust(c) ==
  /\ pc[c] = "exhaust"
  /\ \/ ExeOf(c) \notin Internal /\ SetLog(ExeOf(c), "ERRO") /\ UNCHANGED faults
     \/ ExeOf(c) \notin Internal /\ Fault("database") /\ UNCHANGED log
     \/ ExeOf(c) \in Internal /\ UNCHANGED <<log, faults>>
  /\ Leave(c, Blank)
  /\ UNCHANGED <<settings, orphans, job, result, inflight, running>>

\* (mutant) The guard on the final status is missing.
MutCheckUnguarded(c) ==
  LET status == log[ExeOf(c)] IN
  /\ pc[c] = "check" /\ msg[c].retry < settings.retries
  /\ \/ status = "none" /\ Leave(c, InQueue(c, "retry")) /\ UNCHANGED faults
     \/ status # "none" /\ Goto(c, "slot") /\ UNCHANGED <<msg, by, outcome, faults>>
     \/ Fault("database") /\ Leave(c, InQueue(c, "main"))
  /\ UNCHANGED <<settings, orphans, log, job, result, inflight, running>>

\* The row: absent, it is nacked to the retry queue; decided, it is acked; no
\* answer, or a tenant whose worker is switched off, puts it back.
Check(c) ==
  LET status == log[ExeOf(c)] IN
  /\ pc[c] = "check" /\ msg[c].retry < settings.retries
  /\ \/ status = "none" /\ Leave(c, InQueue(c, "retry")) /\ UNCHANGED faults
     \/ status \in Final /\ Leave(c, Blank) /\ UNCHANGED faults
     \/ status = "EM_EXECUCAO" /\ Goto(c, "slot") /\ UNCHANGED <<msg, by, outcome, faults>>
     \/ Fault("database") /\ Leave(c, InQueue(c, "main"))
  /\ UNCHANGED <<settings, orphans, log, job, result, inflight, running>>

\* (mutant) Counts one slot too many.
MutTakeSlotOver(c) ==
  /\ pc[c] = "slot" /\ Cardinality(inflight) <= settings.slots
  /\ inflight' = inflight \cup {ExeOf(c)}
  /\ IF ExeOf(c) \in Internal
     THEN Goto(c, "await") /\ job' = [job EXCEPT ![c] = "exec"]
     ELSE Goto(c, "lock") /\ UNCHANGED job
  /\ UNCHANGED <<settings, orphans, log, msg, by, outcome, result, running, faults>>

\* tryAcquireTenantSlot found room.
TakeSlot(c) ==
  /\ pc[c] = "slot" /\ Cardinality(inflight) < settings.slots
  /\ inflight' = inflight \cup {ExeOf(c)}
  /\ IF ExeOf(c) \in Internal
     THEN Goto(c, "await") /\ job' = [job EXCEPT ![c] = "exec"]
     ELSE Goto(c, "lock") /\ UNCHANGED job
  /\ UNCHANGED <<settings, orphans, log, msg, by, outcome, result, running, faults>>

\* (mutant) Acks a delivery without room and publishes nothing.
MutDeferDrops(c) ==
  /\ pc[c] = "slot" /\ Cardinality(inflight) >= settings.slots
  /\ Leave(c, Blank)
  /\ UNCHANGED <<settings, orphans, log, job, result, inflight, running, faults>>

\* It did not: to the end of the main queue, or to the retry queue, marked.
Defer(c) ==
  LET again == IF settings.defer THEN [InQueue(c, "retry") EXCEPT !.deferred = Held(c)]
                                ELSE InQueue(c, "main")
  IN /\ pc[c] = "slot" /\ Cardinality(inflight) >= settings.slots
     /\ \/ Leave(c, again) /\ UNCHANGED faults
        \/ /\ Held(c) /\ Fault("buffer")
           /\ PublishedTwice(c, again)
           /\ Goto(c, "idle")
           /\ by' = [by EXCEPT ![c] = NoWorker]
           /\ UNCHANGED outcome
     /\ UNCHANGED <<settings, orphans, log, job, result, inflight, running>>

\* (mutant) SET without NX.
MutTakeLockAnyway(c) ==
  /\ pc[c] = "lock"
  /\ running' = [running EXCEPT ![ExeOf(c)] = by[c]]
  /\ Goto(c, "await")
  /\ job' = [job EXCEPT ![c] = "find"]
  /\ UNCHANGED <<settings, orphans, log, msg, by, outcome, result, inflight, faults>>

\* SET NX on the running lock; taken, this delivery counts as a duplicate; no
\* answer counts as taken by us (fail-open).
TakeRunningLock(c) ==
  LET e == ExeOf(c) IN
  /\ pc[c] = "lock"
  /\ \/ /\ running[e] = NoWorker
        /\ running' = [running EXCEPT ![e] = by[c]]
        /\ Goto(c, "await")
        /\ job' = [job EXCEPT ![c] = "find"]
        /\ UNCHANGED faults
     \/ /\ running[e] # NoWorker
        /\ Goto(c, "release")
        /\ UNCHANGED <<running, job, faults>>
     \/ /\ Fault("redis")
        /\ Goto(c, "await")
        /\ job' = [job EXCEPT ![c] = "find"]
        /\ UNCHANGED running
  /\ UNCHANGED <<settings, orphans, log, msg, by, outcome, result, inflight>>

(* processJob --------------------------------------------------------------*)
JobAt(c, label) == job' = [job EXCEPT ![c] = label]

FindRoutine(c) ==
  /\ job[c] = "find"
  /\ \/ JobAt(c, "exec") /\ UNCHANGED <<log, faults>>
     \/ Fault("noRoutine") /\ SetLog(ExeOf(c), "ERRO") /\ JobAt(c, "threw")
     \/ Fault("database") /\ JobAt(c, "threw") /\ UNCHANGED log
  /\ UNCHANGED <<settings, orphans, msg, pc, by, outcome, result, inflight, running>>

\* executeInProcess settles; an INTERNAL job has no child and no result.
FinishChild(c) ==
  /\ job[c] = "exec"
  /\ \/ /\ ExeOf(c) \notin Internal
        /\ \E status \in {"SUCESSO", "ERRO"} : result' = [result EXCEPT ![c] = status]
        /\ JobAt(c, "write")
     \/ /\ ExeOf(c) \in Internal
        /\ JobAt(c, "returned") \/ JobAt(c, "threw")
        /\ UNCHANGED result
  /\ UNCHANGED <<settings, orphans, log, msg, pc, by, outcome, inflight, running, faults>>

\* The status is written whatever it was before.
WriteResult(c) ==
  /\ job[c] = "write"
  /\ \/ SetLog(ExeOf(c), result[c]) /\ JobAt(c, "touch") /\ UNCHANGED faults
     \/ Fault("database") /\ JobAt(c, "threw") /\ UNCHANGED log
  /\ result' = [result EXCEPT ![c] = "ERRO"]
  /\ UNCHANGED <<settings, orphans, msg, pc, by, outcome, inflight, running>>

\* ROTUltimaExecucao and the publication of the result.
TouchRoutine(c) ==
  /\ job[c] = "touch"
  /\ \/ JobAt(c, "returned") /\ UNCHANGED faults
     \/ Fault("database") /\ JobAt(c, "threw")
  /\ UNCHANGED <<settings, orphans, log, msg, pc, by, outcome, result, inflight, running>>

\* A processJob that nobody awaits any more ends.
JobEndsAlone(c) ==
  /\ job[c] \in {"returned", "threw"} /\ pc[c] # "await"
  /\ JobAt(c, "none")
  /\ IF pc[c] = "idle"
     THEN msg' = [msg EXCEPT ![c] = Blank] /\ by' = [by EXCEPT ![c] = NoWorker]
     ELSE UNCHANGED <<msg, by>>
  /\ UNCHANGED <<settings, orphans, log, pc, outcome, result, inflight, running, faults>>

(* The end of onMessage and of runInternalJob ------------------------------*)
AfterJob(c) == IF ExeOf(c) \in Internal THEN "book" ELSE "unlock"

\* (mutant) An exception skips the finally block.
MutJobDoneNoFinally(c) ==
  /\ pc[c] = "await" /\ job[c] \in {"returned", "threw"}
  /\ outcome' = [outcome EXCEPT ![c] = IF job[c] = "returned" THEN "ack" ELSE "discard"]
  /\ Goto(c, IF job[c] = "returned" THEN AfterJob(c) ELSE "settle")
  /\ JobAt(c, "none")
  /\ UNCHANGED <<settings, orphans, log, msg, by, result, inflight, running, faults>>

JobDone(c) ==
  /\ pc[c] = "await" /\ job[c] \in {"returned", "threw"}
  /\ outcome' = [outcome EXCEPT ![c] = IF job[c] = "returned" THEN "ack" ELSE "discard"]
  /\ Goto(c, AfterJob(c))
  /\ JobAt(c, "none")
  /\ UNCHANGED <<settings, orphans, log, msg, by, result, inflight, running, faults>>

\* withHardTimeout stops waiting, not the job.
HardTimeout(c) ==
  /\ pc[c] = "await" /\ job[c] \notin {"returned", "threw"}
  /\ Fault("hardTimeout")
  /\ outcome' = [outcome EXCEPT ![c] = "discard"]
  /\ Goto(c, AfterJob(c))
  /\ UNCHANGED <<settings, orphans, log, msg, by, job, result, inflight, running>>

\* runInternalJob books the result itself.
BookInternal(c) ==
  /\ pc[c] = "book"
  /\ \/ SetLog(ExeOf(c), IF outcome[c] = "ack" THEN "SUCESSO" ELSE "ERRO") /\ UNCHANGED faults
     \/ Fault("database") /\ UNCHANGED log
  /\ Goto(c, "release")
  /\ UNCHANGED <<settings, orphans, msg, by, outcome, job, result, inflight, running>>

ReleaseRunningLock(c) ==
  LET e == ExeOf(c) IN
  /\ pc[c] = "unlock"
  /\ \/ running' = [running EXCEPT ![e] = IF @ = by[c] THEN NoWorker ELSE @] /\ UNCHANGED faults
     \/ Fault("redis") /\ UNCHANGED running
  /\ Goto(c, "release")
  /\ UNCHANGED <<settings, orphans, log, msg, by, outcome, job, result, inflight>>

ReleaseSlot(c) ==
  /\ pc[c] = "release"
  /\ \/ inflight' = inflight \ {ExeOf(c)} /\ UNCHANGED faults
     \/ Fault("redis") /\ UNCHANGED inflight
  /\ Goto(c, "settle")
  /\ UNCHANGED <<settings, orphans, log, msg, by, outcome, job, result, running>>

Settle(c) ==
  /\ pc[c] = "settle"
  /\ Leave(c, CASE outcome[c] = "ack" -> Blank
                [] outcome[c] = "discard" -> InQueue(c, "retry"))
  /\ UNCHANGED <<settings, orphans, log, job, result, inflight, running, faults>>

\* Back to the main queue; only what was not deferred counts as a retry.  No
\* message of this module is here with its last retry: GiveUp took it before.
RetryBack(c) ==
  LET m == [at |-> "main", exe |-> ExeOf(c), deferred |-> FALSE,
             retry |-> IF msg[c].deferred THEN msg[c].retry ELSE msg[c].retry + 1]
  IN /\ msg[c].at = "retry"
     /\ \/ msg' = [msg EXCEPT ![c] = m] /\ UNCHANGED <<by, faults>>
        \/ Fault("buffer") /\ PublishedTwice(c, m) /\ UNCHANGED by
        \/ /\ Fault("unroutable")
           /\ msg' = [msg EXCEPT ![c] = [m EXCEPT !.at = "returned"]]
           /\ \E w \in Worker : by' = [by EXCEPT ![c] = w]
     /\ UNCHANGED <<settings, orphans, log, pc, outcome, job, result, inflight, running>>

\* handleReturnedRetryPublish: posted to the retry queue again, marked.
TakeReturned(c) ==
  /\ msg[c].at = "returned"
  /\ msg' = [msg EXCEPT ![c].at = "retry", ![c].deferred = TRUE]
  /\ by' = [by EXCEPT ![c] = NoWorker]
  /\ UNCHANGED <<settings, orphans, log, pc, outcome, job, result, inflight, running, faults>>

(* reprocessDeadLetterQueue, in the webapi ---------------------------------*)
\* INTERNAL payloads are invalid to it: acked and dropped.
ReopenDead(c) ==
  /\ msg[c].at = "dlq" /\ pc[c] = "idle"
  /\ IF ExeOf(c) \in Internal
     THEN msg' = [msg EXCEPT ![c] = Blank] /\ UNCHANGED <<log, pc>>
     ELSE SetLog(ExeOf(c), "EM_EXECUCAO") /\ Goto(c, "republish") /\ UNCHANGED msg
  /\ UNCHANGED <<settings, orphans, by, outcome, job, result, inflight, running, faults>>

RepublishDead(c) ==
  LET m == [at |-> "main", exe |-> ExeOf(c), deferred |-> msg[c].deferred, retry |-> 0] IN
  /\ pc[c] = "republish"
  /\ Goto(c, "idle")
  /\ \/ msg' = [msg EXCEPT ![c] = m] /\ UNCHANGED faults
     \/ Fault("buffer") /\ PublishedTwice(c, m)
  /\ UNCHANGED <<settings, orphans, log, by, outcome, job, result, inflight, running>>

(* Environment -------------------------------------------------------------*)
\* The cancel signal kills the child of e, if there is one.
KillChild(e) ==
  LET hit == {c \in Copy : job[c] = "exec" /\ ExeOf(c) = e /\ e \notin Internal} IN
  /\ job' = [c \in Copy |-> IF c \in hit THEN "write" ELSE job[c]]
  /\ result' = [c \in Copy |-> IF c \in hit THEN "CANCELADO" ELSE result[c]]

\* cancelIndividual and deleteExecutions of the webapi.
Cancel(e) ==
  /\ log[e] = "EM_EXECUCAO" /\ Fault("cancel")
  /\ SetLog(e, "CANCELADO")
  /\ KillChild(e)
  /\ UNCHANGED <<settings, orphans, msg, pc, by, outcome, inflight, running>>

Delete(e) ==
  /\ log[e] # "none" /\ Fault("delete")
  /\ log' = [log EXCEPT ![e] = "none"]
  /\ IF log[e] = "EM_EXECUCAO" THEN KillChild(e) ELSE UNCHANGED <<job, result>>
  /\ UNCHANGED <<settings, orphans, msg, pc, by, outcome, inflight, running>>

\* A worker dies: what it held is delivered again.  A forked child does not
\* notice and goes on; what it answers nobody hears, nor does a cancel reach it.
Crash(w) ==
  LET mine == {c \in Copy : by[c] = w} IN
  /\ Fault("crash")
  /\ msg' = [c \in Copy |-> IF c \in mine /\ ~Held(c) THEN Blank ELSE msg[c]]
  /\ pc' = [c \in Copy |-> IF c \in mine THEN "idle" ELSE pc[c]]
  /\ by' = [c \in Copy |-> IF c \in mine THEN NoWorker ELSE by[c]]
  /\ outcome' = [c \in Copy |-> IF c \in mine THEN "ack" ELSE outcome[c]]
  /\ job' = [c \in Copy |-> IF c \in mine THEN "none" ELSE job[c]]
  /\ result' = [c \in Copy |-> IF c \in mine THEN "ERRO" ELSE result[c]]
  /\ orphans' = orphans \cup {ExeOf(c) : c \in {d \in mine : job[d] = "exec" /\ ExeOf(d) \notin Internal}}
  /\ UNCHANGED <<settings, log, inflight, running>>

OrphanEnds(e) ==
  /\ e \in orphans /\ orphans' = orphans \ {e}
  /\ UNCHANGED <<settings, log, msg, pc, by, outcome, job, result, inflight, running, faults>>

\* Its channels close (406, connection lost): the broker delivers what it held
\* again and drops what it was returning; the handlers go on.
LoseChannel(w) ==
  LET mine == {c \in Copy : by[c] = w /\ Held(c)} IN
  /\ Fault("channel") /\ mine # {}
  /\ Cardinality(mine) <= Cardinality({c \in Copy : Free(c)})
  /\ LET twin == CHOOSE f \in [mine -> {c \in Copy : Free(c)}] : IsInjective(f) IN
       msg' = [c \in Copy |->
                 CASE c \in mine -> [msg[c] EXCEPT !.at = "nowhere"]
                   [] \E d \in mine : twin[d] = c -> msg[CHOOSE d \in mine : twin[d] = c]
                   [] by[c] = w /\ msg[c].at = "returned" -> Blank
                   [] OTHER -> msg[c]]
  /\ by' = [c \in Copy |-> IF msg[c].at = "returned" /\ by[c] = w THEN NoWorker ELSE by[c]]
  /\ UNCHANGED <<settings, orphans, log, pc, outcome, job, result, inflight, running>>

\* Handlers between taking a slot and giving it back, the lock likewise.
HoldsSlot(c) == pc[c] \in {"lock", "await", "book", "unlock", "release"}
HoldsLock(c) == pc[c] \in {"await", "unlock"} /\ ExeOf(c) \notin Internal

\* Leases whose handler is gone lapse; no heartbeat renews that of an INTERNAL job.
LeaseLapses(e) ==
  /\ e \in inflight
  /\ inflight' = inflight \ {e}
  /\ \/ /\ \A c \in Copy : ExeOf(c) = e => ~HoldsSlot(c)
        /\ UNCHANGED faults
     \/ /\ e \in Internal
        /\ \E c \in Copy : pc[c] = "await" /\ ExeOf(c) = e
        /\ Fault("lapse")
  /\ UNCHANGED <<settings, orphans, log, msg, pc, by, outcome, job, result, running>>

\* A child that outlives the lock of its dead worker runs without one from here on.
LockExpires(e) ==
  /\ running[e] # NoWorker
  /\ ~\E c \in Copy : HoldsLock(c) /\ ExeOf(c) = e
  /\ running' = [running EXCEPT ![e] = NoWorker]
  /\ orphans' = orphans \ {e}
  /\ UNCHANGED <<settings, log, msg, pc, by, outcome, job, result, inflight, faults>>

-----------------------------------------------------------------------------
JobStep(c) == FindRoutine(c) \/ FinishChild(c) \/ WriteResult(c) \/ TouchRoutine(c)
                \/ JobEndsAlone(c)
HandlerStep(c) == GiveUp(c) \/ Exhaust(c) \/ Check(c) \/ TakeSlot(c) \/ Defer(c)
                    \/ TakeRunningLock(c) \/ JobDone(c) \/ BookInternal(c)
                    \/ ReleaseRunningLock(c) \/ ReleaseSlot(c) \/ Settle(c)
BrokerStep(c) == (\E w \in Worker : Deliver(c, w)) \/ RetryBack(c) \/ TakeReturned(c)

Next ==
  \/ \E c \in Copy : JobStep(c) \/ HandlerStep(c) \/ BrokerStep(c) \/ HardTimeout(c)
                       \/ ReopenDead(c) \/ RepublishDead(c)
  \/ \E w \in Worker : Crash(w) \/ LoseChannel(w)
  \/ \E e \in Exe : Cancel(e) \/ Delete(e) \/ LeaseLapses(e) \/ LockExpires(e) \/ OrphanEnds(e)

Spec == Init /\ [][Next]_vars

(* Awaits return, the broker delivers, keys with a TTL expire.              *)
FairSpec ==
  /\ Spec
  /\ \A c \in Copy : WF_vars(JobStep(c)) /\ WF_vars(HandlerStep(c)) /\ WF_vars(BrokerStep(c))
                       /\ WF_vars(RepublishDead(c))
  /\ \A e \in Exe : WF_vars(LeaseLapses(e)) /\ WF_vars(LockExpires(e))

-----------------------------------------------------------------------------
Executing(c) == job[c] = "exec"

\* The workers never have more executions of a tenant at work than
\* INSMaxExecucoesSimultaneas (loadTenantLimit, tryAcquireTenantSlot), but for the runs
\* that nobody awaits after a hard timeout, those of a message that came twice, which
\* share a slot, and the INTERNAL jobs that outlive their lease.  Orphans do not count:
\* their lease lapses under them.
TenantBound ==
  Without({"channel", "buffer", "hardTimeout", "lapse"}) =>
    Cardinality({c \in Copy : Executing(c)}) <= settings.slots

\* The running lock lets no routine run twice at a time (acquireRunningLock), nor
\* beside the child that a dead worker left behind, until its lock expires; as long as
\* no hard timeout gives the lock back under its run and Redis answers: without an
\* answer a delivery runs all the same.
RunsAlone ==
  Without({"hardTimeout", "redis"}) =>
    \A c, d \in Copy :
      Executing(c) /\ Executing(d) /\ ExeOf(c) = ExeOf(d) /\ ExeOf(c) \notin Internal =>
        c = d /\ ExeOf(c) \notin orphans

\* A routine that is not decided has a message, or a handler at work that will
\* decide it or give its message back.  The lock of a dead worker breaks this; so does
\* a handling that fails after a second one of its message was acked as a duplicate,
\* hence the two sides: no second handling, or none that fails.
NothingLost ==
  /\ Without({"crash"})
  /\ \/ Without({"channel", "redis", "buffer"})
     \/ Without({"database", "hardTimeout", "noRoutine", "unroutable"})
  => \A e \in Exe \ Internal : log[e] = "EM_EXECUCAO" =>
       \E c \in Copy : ExeOf(c) = e /\ (msg[c].at # "nowhere" \/ pc[c] # "idle")

\* What makes two handlers of one execution meet.
Doubles == {"channel", "hardTimeout", "buffer"}

\* A success stays a success: what is delivered again after a crash, a retry, a
\* reprocessing or an error after the status was written does not undo it.  Excepted
\* are copies of its message that meet (Doubles), since the row is not read again
\* under the lock, and a message that has used up its retries, which onMessage counts
\* before it reads the row.
SuccessStands ==
  [][Without(Doubles)' => \A e \in Exe : log[e] = "SUCESSO" =>
       \/ log'[e] \in {"SUCESSO", "none"}
       \/ \E c \in Copy : ExeOf(c) = e /\ (pc[c] = "exhaust" \/ msg[c].at = "dlq")]_vars

\* Slots and locks do not leak: each has a handler that gives it back.
NothingLeaks ==
  Without({"crash", "redis"}) =>
    \A e \in Exe :
      /\ e \in inflight => \E c \in Copy : HoldsSlot(c) /\ ExeOf(c) = e
      /\ running[e] # NoWorker => \E c \in Copy : HoldsLock(c) /\ ExeOf(c) = e

\* Every execution gets its final status for good, or its row is gone; unless a
\* worker died with its lock, or an INTERNAL job could not be booked.
EventuallyDecided ==
  \A e \in Exe : <>[](\/ log[e] \in Final \cup {"none"}
                      \/ ~Without({"crash"})
                      \/ e \in Internal /\ ~Without({"database"}))
=============================================================================
