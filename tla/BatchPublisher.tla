---------------------------- MODULE BatchPublisher ----------------------------
(***************************************************************************)
(* The publisher of jobs of the webapi (BatchConfirmPublisher and enqueue  *)
(* of webapi/src/rotina/queue/rotina-queue.service.ts): callers submit,    *)
(* a flush takes a batch, inserts its rows, publishes its messages, waits  *)
(* for the confirms and settles the callers.  The worker is reduced to     *)
(* what it does to row, message and marker of one execution.               *)
(***************************************************************************)
EXTENDS Naturals, Sequences, SequencesExt

CONSTANTS
  Item,       \* submissions (exeId)
  BatchSize,  \* ROTINA_BATCH_SIZE
  FaultKinds, \* which faults may happen
  MaxFaults   \* bound on how many

AllFaultKinds == {"connect", "channel", "database", "lostInsert", "buffer", "unroutable", "crash"}

ASSUME BatchSizeAssumption == BatchSize \in Nat \ {0}
ASSUME FaultsAssumption == FaultKinds \subseteq AllFaultKinds /\ MaxFaults \in Nat

VARIABLES
  buffer,     \* submissions not yet in a batch
  flushTimer, \* the timer is set
  flush,      \* step of the flush under way, "idle" when flushing is false
  batch,      \* its items
  sent,       \* publishedCount
  dbInserted,
  connection, \* connectionPromise: none, resolved, or rejected
  channelUp,  \* the confirm channel of the flush is alive
  returned,   \* returnedExeIds
  row,        \* EXEStatus, or "none"
  message,    \* the message of an item, from the socket to the worker
  promise,    \* what the caller of submit got
  marker,     \* redisPendingKey of an item exists
  marking,    \* callers about to set it
  faults      \* how many may still happen, which kinds did

vars == <<buffer, flushTimer, flush, batch, sent, dbInserted, connection, channelUp,
          returned, row, message, promise, marker, marking, faults>>
brokerVars == <<row, message, marker>>
callerVars == <<promise, marking>>

Step == {"idle", "channel", "insert", "publish", "drain", "confirm", "settle", "failed"}
Message == {"none", "wire", "returned", "queued", "running", "done"}

TypeOK ==
  /\ buffer \in Seq(Item) /\ IsInjective(batch \o buffer)
  /\ flushTimer \in BOOLEAN
  /\ flush \in Step
  /\ batch \in Seq(Item) /\ Len(batch) <= BatchSize
  /\ sent \in 0..Len(batch)
  /\ dbInserted \in BOOLEAN
  /\ connection \in {"none", "open", "rejected"}
  /\ channelUp \in BOOLEAN
  /\ returned \subseteq Item
  /\ row \in [Item -> {"none", "EM_EXECUCAO", "SUCESSO", "ERRO"}]
  /\ message \in [Item -> Message]
  /\ promise \in [Item -> {"none", "pending", "resolved", "rejected"}]
  /\ marker \subseteq Item
  /\ marking \subseteq Item
  /\ faults \in [left : 0..MaxFaults, seen : SUBSET FaultKinds]

Init ==
  /\ buffer = <<>> /\ flushTimer = FALSE
  /\ flush = "idle" /\ batch = <<>> /\ sent = 0 /\ dbInserted = FALSE
  /\ connection = "none" /\ channelUp = FALSE
  /\ returned = {}
  /\ row = [i \in Item |-> "none"]
  /\ message = [i \in Item |-> "none"]
  /\ promise = [i \in Item |-> "none"]
  /\ marker = {} /\ marking = {}
  /\ faults = [left |-> MaxFaults, seen |-> {}]

-----------------------------------------------------------------------------
Fault(kind) ==
  /\ kind \in FaultKinds /\ faults.left > 0
  /\ faults' = [left |-> faults.left - 1, seen |-> faults.seen \cup {kind}]

\* None of these faults has happened.
Without(kinds) == faults.seen \cap kinds = {}

InBatch(i) == i \in ToSet(batch)

\* flush() up to its first await: nothing to do, or one already under way.
StartFlush(waiting) ==
  /\ flushTimer' = FALSE
  /\ IF waiting = <<>> \/ flush # "idle"
     THEN buffer' = waiting /\ UNCHANGED <<flush, batch, sent, dbInserted>>
     ELSE LET n == IF Len(waiting) < BatchSize THEN Len(waiting) ELSE BatchSize IN
          /\ batch' = SubSeq(waiting, 1, n)
          /\ buffer' = SubSeq(waiting, n + 1, Len(waiting))
          /\ flush' = "channel" /\ sent' = 0 /\ dbInserted' = FALSE

\* enqueue; the caller is the next one.
Submit(i) ==
  /\ promise[i] = "none" /\ i = CHOOSE j \in Item : promise[j] = "none"
  /\ promise' = [promise EXCEPT ![i] = "pending"]
  /\ IF Len(buffer) + 1 >= BatchSize
     THEN StartFlush(Append(buffer, i))
     ELSE /\ buffer' = Append(buffer, i)
          /\ flushTimer' = TRUE
          /\ UNCHANGED <<flush, batch, sent, dbInserted>>
  /\ UNCHANGED <<connection, channelUp, returned, brokerVars, marking, faults>>

TimerFires ==
  /\ flushTimer
  /\ StartFlush(buffer)
  /\ UNCHANGED <<connection, channelUp, returned, brokerVars, callerVars, faults>>

Goto(step) == flush' = step /\ UNCHANGED <<buffer, flushTimer, batch, sent, dbInserted>>
Fails(kind) == Fault(kind) /\ Goto("failed")

\* getConnection, getConfirmChannel, attachChannelHandlers and ensureTopology.  A
\* connectionPromise that was rejected is kept and awaited again.
GetChannel ==
  /\ flush = "channel"
  /\ \/ connection # "rejected" /\ connection' = "open" /\ channelUp' = TRUE
        /\ Goto("insert") /\ UNCHANGED faults
     \/ connection = "none" /\ Fails("connect") /\ connection' = "rejected" /\ UNCHANGED channelUp
     \/ connection = "open" /\ Fails("channel") /\ UNCHANGED <<connection, channelUp>>
     \/ connection = "rejected" /\ Goto("failed") /\ UNCHANGED <<connection, channelUp, faults>>
  /\ UNCHANGED <<returned, brokerVars, callerVars>>

Inserted == row' = [i \in Item |-> IF InBatch(i) THEN "EM_EXECUCAO" ELSE row[i]]

\* createMany: all the rows or none; its answer may be lost.
InsertRows ==
  /\ flush = "insert"
  /\ \/ Inserted /\ flush' = "publish" /\ dbInserted' = TRUE
        /\ UNCHANGED <<buffer, flushTimer, batch, sent, faults>>
     \/ Fails("database") /\ UNCHANGED row
     \/ Fails("lostInsert") /\ Inserted
  /\ UNCHANGED <<connection, channelUp, returned, message, marker, callerVars>>

\* publish() of the rest of the batch, or of a part and wait for 'drain'; it
\* throws when the channel is closed.
Publish ==
  /\ flush = "publish"
  /\ UNCHANGED <<connection, channelUp, returned, row, marker, callerVars,
                 buffer, flushTimer, batch, dbInserted>>
  /\ IF ~channelUp
     THEN flush' = "failed" /\ UNCHANGED <<sent, message, faults>>
     ELSE \E n \in sent..Len(batch) :
            /\ \/ n = Len(batch) /\ flush' = "confirm" /\ UNCHANGED faults
               \/ n > sent /\ flush' = "drain" /\ Fault("buffer")
            /\ sent' = n
            /\ message' = [i \in Item |-> IF \E k \in (sent + 1)..n : batch[k] = i
                                          THEN "wire" ELSE message[i]]

\* A closed channel never drains.
Drain ==
  /\ flush = "drain" /\ channelUp
  /\ Goto("publish")
  /\ UNCHANGED <<connection, channelUp, returned, brokerVars, callerVars, faults>>

(* (mutant) One message that came back is an error of the whole batch.      *)
MutConfirm ==
  /\ flush = "confirm"
  /\ IF channelUp
     THEN /\ \A i \in ToSet(batch) : message[i] \notin {"wire", "returned"}
          /\ Goto(IF ToSet(batch) \cap returned = {} THEN "settle" ELSE "failed")
     ELSE Goto("failed")
  /\ UNCHANGED <<connection, channelUp, returned, brokerVars, callerVars, faults>>

\* waitForConfirms; a return comes before the confirm of its message.
Confirm ==
  /\ flush = "confirm"
  /\ IF channelUp
     THEN (\A i \in ToSet(batch) : message[i] \notin {"wire", "returned"}) /\ Goto("settle")
     ELSE Goto("failed")
  /\ UNCHANGED <<connection, channelUp, returned, brokerVars, callerVars, faults>>

(* (mutant) Does not look for another batch.                                *)
MutEndFlush ==
  /\ flush' = "idle" /\ batch' = <<>> /\ sent' = 0 /\ dbInserted' = FALSE
  /\ UNCHANGED <<buffer, flushTimer>>

\* The finally block: not flushing any more, and on to the next batch.
EndFlush ==
  LET n == IF Len(buffer) < BatchSize THEN Len(buffer) ELSE BatchSize IN
  /\ batch' = SubSeq(buffer, 1, n)
  /\ buffer' = SubSeq(buffer, n + 1, Len(buffer))
  /\ flush' = IF buffer = <<>> THEN "idle" ELSE "channel"
  /\ flushTimer' = IF buffer = <<>> THEN flushTimer ELSE FALSE
  /\ sent' = 0 /\ dbInserted' = FALSE

BookError(items) ==
  \/ row' = [i \in Item |-> IF i \in items THEN "ERRO" ELSE row[i]] /\ UNCHANGED faults
  \/ items # {} /\ Fault("database") /\ UNCHANGED row

\* (mutant) Forgets what came back.
MutSettle ==
  /\ flush = "settle"
  /\ promise' = [i \in Item |-> IF InBatch(i) THEN "resolved" ELSE promise[i]]
  /\ marking' = marking \cup ToSet(batch)
  /\ EndFlush
  /\ UNCHANGED <<connection, channelUp, brokerVars, returned, faults>>

\* What came back is booked and rejected, the rest resolves.
Settle ==
  LET back == ToSet(batch) \cap returned IN
  /\ flush = "settle"
  /\ returned' = returned \ back
  /\ BookError(back)
  /\ promise' = [i \in Item |-> CASE i \in back -> "rejected"
                                  [] InBatch(i) /\ i \notin back -> "resolved"
                                  [] OTHER -> promise[i]]
  /\ marking' = marking \cup (ToSet(batch) \ back)
  /\ EndFlush
  /\ UNCHANGED <<connection, channelUp, message, marker>>

\* (mutant) Leaves the rows of a failed batch as they are.
MutFail ==
  /\ flush = "failed"
  /\ channelUp' = FALSE
  /\ promise' = [i \in Item |-> IF InBatch(i) THEN "rejected" ELSE promise[i]]
  /\ EndFlush
  /\ UNCHANGED <<connection, returned, row, message, marker, marking, faults>>

\* The catch block: resetConfirmChannel, the rows to ERRO, everybody rejected.
Fail ==
  /\ flush = "failed"
  /\ channelUp' = FALSE
  /\ BookError(IF dbInserted THEN ToSet(batch) ELSE {})
  /\ promise' = [i \in Item |-> IF InBatch(i) THEN "rejected" ELSE promise[i]]
  /\ EndFlush
  /\ UNCHANGED <<connection, returned, message, marker, marking>>

\* setPendingMarker, not awaited, once enqueue goes on.
SetMarker(i) ==
  /\ i \in marking
  /\ marking' = marking \ {i}
  /\ marker' = marker \cup {i}
  /\ UNCHANGED <<buffer, flushTimer, flush, batch, sent, dbInserted, connection, channelUp,
                 returned, row, message, promise, faults>>

(* The broker and the worker -----------------------------------------------*)
publisherVars == <<buffer, flushTimer, flush, batch, sent, dbInserted, connection, channelUp,
                   callerVars>>
MessageAt(i, place) == message' = [message EXCEPT ![i] = place]

Route(i) ==
  /\ message[i] = "wire"
  /\ \/ MessageAt(i, "queued") /\ UNCHANGED faults
     \/ MessageAt(i, "returned") /\ Fault("unroutable")
  /\ UNCHANGED <<publisherVars, returned, row, marker>>

OnReturn(i) ==
  /\ message[i] = "returned"
  /\ MessageAt(i, "none")
  /\ returned' = returned \cup {i}
  /\ UNCHANGED <<publisherVars, row, marker, faults>>

\* What was on its way over a channel that closed may not arrive.
Vanish(i) ==
  /\ message[i] \in {"wire", "returned"} /\ ~channelUp
  /\ MessageAt(i, "none")
  /\ UNCHANGED <<publisherVars, returned, row, marker, faults>>

\* The row decides; the marker goes when the job starts.
Consume(i) ==
  /\ message[i] = "queued" /\ row[i] # "none"
  /\ IF row[i] = "EM_EXECUCAO" THEN MessageAt(i, "running") /\ marker' = marker \ {i}
                               ELSE MessageAt(i, "done") /\ UNCHANGED marker
  /\ UNCHANGED <<publisherVars, returned, row, faults>>

FinishJob(i) ==
  /\ message[i] = "running"
  /\ MessageAt(i, "done")
  /\ row' = [row EXCEPT ![i] = "SUCESSO"]
  /\ UNCHANGED <<publisherVars, returned, marker, faults>>

\* The channel closes, alone or with its connection; both promises are dropped.
ChannelCloses ==
  /\ channelUp /\ Fault("channel")
  /\ channelUp' = FALSE
  /\ connection' \in {"open", "none"}
  /\ UNCHANGED <<buffer, flushTimer, flush, batch, sent, dbInserted, returned, brokerVars, callerVars>>

\* The webapi restarts: its callers are gone with it.
Crash ==
  /\ Fault("crash")
  /\ buffer' = <<>> /\ flushTimer' = FALSE
  /\ flush' = "idle" /\ batch' = <<>> /\ sent' = 0 /\ dbInserted' = FALSE
  /\ connection' = "none" /\ channelUp' = FALSE /\ returned' = {} /\ marking' = {}
  /\ promise' = [i \in Item |-> IF promise[i] = "pending" THEN "rejected" ELSE promise[i]]
  /\ UNCHANGED brokerVars

-----------------------------------------------------------------------------
FlushStep == GetChannel \/ InsertRows \/ Publish \/ Drain \/ Confirm \/ Settle \/ Fail
BrokerStep(i) == Route(i) \/ OnReturn(i) \/ Vanish(i) \/ Consume(i) \/ FinishJob(i)

Next ==
  \/ TimerFires \/ FlushStep \/ ChannelCloses \/ Crash
  \/ \E i \in Item : Submit(i) \/ SetMarker(i) \/ BrokerStep(i)

Spec == Init /\ [][Next]_vars

(* Timers fire, awaits return, the broker routes, the worker works.         *)
FairSpec ==
  /\ Spec
  /\ WF_vars(TimerFires) /\ WF_vars(FlushStep)
  /\ \A i \in Item : WF_vars(SetMarker(i)) /\ WF_vars(BrokerStep(i))

-----------------------------------------------------------------------------
\* A caller is told an exeId only when the broker has accepted its message.
ResolvedMeansAccepted ==
  \A i \in Item : promise[i] = "resolved" => message[i] \in {"queued", "running", "done"}

\* Outside a flush, a row that is open has a message that will close it; a crash,
\* an insert that counts as failed and a database that is gone when the error is
\* booked leave rows that nobody will ever work on.
NoOrphanRow ==
  Without({"crash", "lostInsert", "database"}) =>
    \A i \in Item : row[i] = "EM_EXECUCAO" /\ ~InBatch(i) =>
      message[i] \in {"wire", "queued", "running"}

\* Who is told that his job failed can trust that it did not run, unless the
\* channel or the process ended between the message and its confirm.
RejectedNeverRan ==
  Without({"channel", "crash"}) =>
    \A i \in Item : promise[i] = "rejected" => message[i] # "running" /\ row[i] # "SUCESSO"

\* Every submission is settled, but for a flush that waits for the drain of a
\* channel that has closed.
EverySubmitSettles ==
  \A i \in Item : promise[i] = "pending" ~>
    promise[i] # "pending" \/ ~(Without({"buffer"}) \/ Without({"channel"}))
=============================================================================
