--------------------------- MODULE SerialWaitLock ---------------------------
(***************************************************************************)
(* The lock of one serial routine (one pair institution/routine whose      *)
(* ROTPermiteParalelismo is false) and its durable waiting line, as the    *)
(* five Lua scripts of worker/src/serial-wait-lock.ts keep them in Redis.  *)
(* A script is atomic in Redis, so each script is one action; its          *)
(* parameters are the script's argument and what it answers.               *)
(*                                                                         *)
(* Time is abstracted: `lapsed' are the members of the ZSET whose score    *)
(* (lease deadline) is in the past.  Every script purges them first or     *)
(* before it counts (ZREMRANGEBYSCORE -inf now); the heartbeat can still   *)
(* save a lapsed member that no script has purged yet.                     *)
(*                                                                         *)
(* LockSpec lets any caller run any script with any argument at any time:  *)
(* what holds here does not depend on the consumer's discipline.           *)
(* HolderSpec keeps to the discipline of a consumer that neither crashes   *)
(* nor loses its lease: only the holder gives the slot back.               *)
(***************************************************************************)
EXTENDS RedisList

CONSTANTS
  Exe,         \* executions of the routine (exeId)
  NoExe,       \* "no execution": a script's false/null, the no-op argument
  MaxAttempts  \* SERIAL_MAX_ATTEMPTS

ASSUME NoExeAssumption == NoExe \notin Exe
ASSUME MaxAttemptsAssumption == MaxAttempts \in Nat \ {0}

VARIABLES
  holders,     \* members of the ZSET zkey (limit 1)
  lapsed,      \* those whose lease deadline has passed
  waitList,    \* the list waitkey
  processing,  \* the list processingkey (claims taken out of waitkey)
  attempts     \* the counters attemptskey, 0 when the key does not exist

lockVars == <<holders, lapsed, waitList, processing, attempts>>

ExeOrNone == Exe \cup {NoExe}

LockTypeOK ==
  /\ holders \subseteq Exe
  /\ lapsed \subseteq holders
  /\ waitList \in Seq(Exe)
  /\ processing \in Seq(Exe)
  /\ attempts \in [Exe -> 0..(MaxAttempts - 1)]

LockInit ==
  /\ holders = {}
  /\ lapsed = {}
  /\ waitList = <<>>
  /\ processing = <<>>
  /\ attempts = [e \in Exe |-> 0]

-----------------------------------------------------------------------------
(* Definitions named Mut... are faults planted to see that the properties   *)
(* notice them; no specification uses them.                                 *)

\* Promotes without ZCARD: the slot may be taken.
MutClaimUncounted(live, waiting, claimed, next) ==
  /\ lapsed' = {}
  /\ \/ /\ waiting # <<>>
        /\ next = Head(waiting)
        /\ holders' = live \cup {next}
        /\ waitList' = Tail(waiting)
        /\ processing' = RPush(claimed, next)
     \/ /\ waiting = <<>>
        /\ next = NoExe
        /\ holders' = live
        /\ waitList' = waiting
        /\ processing' = claimed

\* LPOP instead of LMOVE: the claim is recorded nowhere.
MutClaimUnrecorded(live, waiting, claimed, next) ==
  /\ lapsed' = {}
  /\ processing' = claimed
  /\ IF live = {} /\ waiting # <<>>
     THEN next = Head(waiting) /\ holders' = {next} /\ waitList' = Tail(waiting)
     ELSE next = NoExe /\ holders' = live /\ waitList' = waiting

(* The common tail of three scripts: with `live' the members left in the    *)
(* ZSET and the lists as the script has them so far, promote the head of    *)
(* the waiting line when the slot is free (ZCARD, LMOVE, ZADD).             *)
ClaimNext(live, waiting, claimed, next) ==
  /\ lapsed' = {}
  /\ \/ /\ live = {} /\ waiting # <<>>
        /\ next = Head(waiting)
        /\ holders' = {next}
        /\ waitList' = Tail(waiting)
        /\ processing' = RPush(claimed, next)
     \/ /\ live # {} \/ waiting = <<>>
        /\ next = NoExe
        /\ holders' = live
        /\ waitList' = waiting
        /\ processing' = claimed

\* The members a script finds after its purge.
Live == holders \ lapsed

\* Takes the slot when nobody waits, without ZCARD.
MutTryUncounted(e, acquired) ==
  LET known == e \in Live \cup Members(waitList) \cup Members(processing)
      free  == waitList = <<>>
  IN /\ acquired = (~known /\ free)
     /\ holders' = IF acquired THEN Live \cup {e} ELSE Live
     /\ waitList' = IF known \/ free THEN waitList ELSE RPush(waitList, e)
     /\ lapsed' = {}
     /\ UNCHANGED <<processing, attempts>>

\* tryAcquireOrEnqueueSerial: e is already known, takes the free slot, or
\* joins the tail of the line.
TryAcquireOrEnqueue(e, acquired) ==
  LET known == e \in Live \cup Members(waitList) \cup Members(processing)
      free  == Live = {} /\ waitList = <<>>
  IN /\ acquired = (~known /\ free)
     /\ holders' = IF acquired THEN {e} ELSE Live
     /\ waitList' = IF known \/ free THEN waitList ELSE RPush(waitList, e)
     /\ lapsed' = {}
     /\ UNCHANGED <<processing, attempts>>

\* releaseSerialSlotAndPopNext: e gives the slot back, the head of the line
\* gets it.  recoverSerialState calls it with a no-op argument.
ReleaseSlotAndPopNext(e, next) ==
  /\ ClaimNext(Live \ {e}, waitList, LRem(processing, e), next)
  /\ UNCHANGED attempts

\* requeueAtHeadAndClaimNext: e goes back to the head without an attempt.
RequeueAtHeadAndClaimNext(e, next) ==
  /\ ClaimNext(Live \ {e}, LPushIfAbsent(waitList, e), LRem(processing, e), next)
  /\ UNCHANGED attempts

\* A failed execution goes back to the tail.
MutFailToTail(e, exhausted, next) ==
  /\ exhausted = (attempts[e] + 1 >= MaxAttempts)
  /\ attempts' = [attempts EXCEPT ![e] = IF exhausted THEN 0 ELSE @ + 1]
  /\ ClaimNext(Live \ {e},
               IF exhausted THEN waitList ELSE RPush(LRem(waitList, e), e),
               LRem(processing, e), next)

\* failSerialAttemptAndClaimNext: one more attempt of e; below the limit e
\* goes back to the head, at the limit it leaves the line for good.
FailAttemptAndClaimNext(e, exhausted, next) ==
  /\ exhausted = (attempts[e] + 1 >= MaxAttempts)
  /\ attempts' = [attempts EXCEPT ![e] = IF exhausted THEN 0 ELSE @ + 1]
  /\ ClaimNext(Live \ {e},
               IF exhausted THEN waitList ELSE LPushIfAbsent(waitList, e),
               LRem(processing, e), next)

\* reclaimOrphanSerialClaims: with the slot free, every claim goes back to
\* the head of the line (RPOP processing, LPUSH wait: order preserved).
ReclaimOrphans ==
  /\ holders' = Live
  /\ lapsed' = {}
  /\ IF Live = {}
     THEN waitList' = processing \o waitList /\ processing' = <<>>
     ELSE UNCHANGED <<waitList, processing>>
  /\ UNCHANGED attempts

\* LeaseHeartbeat.renew: only a member that is still there is renewed.
RenewLease(e) ==
  /\ e \in holders
  /\ lapsed' = lapsed \ {e}
  /\ UNCHANGED <<holders, waitList, processing, attempts>>

\* The deadline of a member passes.
LeaseLapses(e) ==
  /\ e \in holders \ lapsed
  /\ lapsed' = lapsed \cup {e}
  /\ UNCHANGED <<holders, waitList, processing, attempts>>

\* The TTL of an attempts counter ends (SERIAL_ATTEMPTS_TTL_SEC).
AttemptsExpire(e) ==
  /\ attempts[e] > 0
  /\ attempts' = [attempts EXCEPT ![e] = 0]
  /\ UNCHANGED <<holders, lapsed, waitList, processing>>

-----------------------------------------------------------------------------
(* Any caller.                                                              *)
Releases(e)  == \E next \in ExeOrNone : ReleaseSlotAndPopNext(e, next)
Exhausts(e)  == \E next \in ExeOrNone : FailAttemptAndClaimNext(e, TRUE, next)

Tries(e) == \E acquired \in BOOLEAN : TryAcquireOrEnqueue(e, acquired)
Requeues(e) == \E next \in ExeOrNone : RequeueAtHeadAndClaimNext(e, next)
Retries(e) == \E next \in ExeOrNone : FailAttemptAndClaimNext(e, FALSE, next)

LockNext ==
  \/ \E e \in Exe : \/ Tries(e)    \/ Requeues(e)
                    \/ Retries(e)  \/ Exhausts(e)
                    \/ RenewLease(e) \/ LeaseLapses(e) \/ AttemptsExpire(e)
  \/ \E e \in ExeOrNone : Releases(e)
  \/ ReclaimOrphans

LockSpec == LockInit /\ [][LockNext]_lockVars

(* The discipline without faults: only the holder gives the slot back, and  *)
(* heartbeats keep its lease.                                               *)
HolderNext ==
  \/ \E e \in Exe : Tries(e) \/ RenewLease(e) \/ AttemptsExpire(e)
  \/ \E e \in holders : Releases(e) \/ Requeues(e) \/ Retries(e) \/ Exhausts(e)
  \/ ReclaimOrphans
  \/ Releases(NoExe)

HolderSpec == LockInit /\ [][HolderNext]_lockVars

-----------------------------------------------------------------------------
(* Properties of the scripts, whoever calls them (LockSpec).                *)

\* "Limit 1": at most one execution is in the ZSET, lapsed or not, whatever
\* mixture of releases, failures, requeues and recoveries is called.
OneHolder == \A a, b \in holders : a = b

\* "Idempotente ... nao duplica nada" (tryAcquireOrEnqueueSerial): an
\* execution is at one place only - once in the line or in the claims, and
\* not waiting while it holds the slot - so that no redelivered message and
\* no stale caller makes it run twice.
QueuedOnce ==
  /\ Distinct(processing \o waitList)
  /\ holders \cap Members(waitList) = {}

\* "O item nao desaparece": an execution that waits or is claimed leaves the
\* two lists only by its own release or by exhausting its attempts, never as
\* a side effect of what is called for another execution.
NoSilentLoss ==
  [][\A e \in Members(waitList) \cup Members(processing) :
       e \notin Members(waitList') \cup Members(processing')
         => Releases(e) \/ Exhausts(e)]_lockVars

(* The line that a client of the lock sees: the holder, then the waiters.   *)
Line ==
  IF \E e \in holders : e \notin Members(waitList)
  THEN <<CHOOSE e \in holders : TRUE>> \o waitList
  ELSE waitList

Fifo == INSTANCE SerialFifo WITH line <- Line

\* Under HolderSpec the scripts implement the abstract line: newcomers never
\* overtake, and a failed or deferred head keeps its place.
ImplementsFifo == Fifo!FifoSpec
=============================================================================
