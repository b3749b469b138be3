------------------------- MODULE RotinaParallelProofs -------------------------
(***************************************************************************)
(* Theorems about the parallel path, for any number of executions, workers, *)
(* messages and faults: its types, the bound on the tenant's slots and on   *)
(* its runs, the mutual exclusion of the running lock, that nothing leaks,  *)
(* that a success stands, and that nothing is lost.  The last has two       *)
(* sides: no message is handled twice (PresentInv), or no handling fails    *)
(* and a duplicate leaves the execution to the holder of its lock           *)
(* (ServedInv).                                                             *)
(***************************************************************************)
EXTENDS RotinaParallel, FiniteSetTheorems, TLAPS

Messages == [at : Place, exe : Exe, retry : 0..settings.retries, deferred : BOOLEAN]

\* A handler that has passed Check.
Past == {"slot", "lock", "await", "book", "unlock", "release", "settle"}

\* Where a message may be while its handler is at label, and how often it was retried.
Fits(m, label) ==
  /\ label \notin {"idle", "republish"} => m.at \in {"main", "nowhere"}
  /\ label = "republish" => m.at = "dlq"
  /\ m.at = "retry" /\ ~m.deferred => m.retry < settings.retries
  /\ label \in Past => m.retry < settings.retries

Shape == \A c \in Copy : Fits(msg[c], pc[c])
Handled == \A c \in Copy : pc[c] \notin {"idle", "republish"} => by[c] \in Worker

TypeInv == TypeOK /\ Shape /\ Handled

-----------------------------------------------------------------------------
LEMMA FaultTypes ==
  ASSUME faults \in [left : 0..MaxFaults, seen : SUBSET FaultKinds], NEW kind, Fault(kind)
  PROVE  /\ faults' \in [left : 0..MaxFaults, seen : SUBSET FaultKinds]
         /\ faults'.seen = faults.seen \cup {kind}
<1>1. /\ faults.left \in 0..MaxFaults /\ faults.seen \subseteq FaultKinds
      /\ faults.left > 0 /\ kind \in FaultKinds
      /\ faults' = [left |-> faults.left - 1, seen |-> faults.seen \cup {kind}]
  BY DEF Fault
<1>2. faults.left - 1 \in 0..MaxFaults
  BY <1>1, FaultsAssumption
<1> QED
  BY <1>1, <1>2

LEMMA SettingsTypes ==
  ASSUME TypeOK PROVE settings.retries \in Nat \ {0} /\ settings.slots \in Nat \ {0}
BY SettingsAssumption DEF TypeOK

LEMMA BlankIsMessage ==
  ASSUME TypeOK PROVE Blank \in Messages /\ \A label : label \in {"idle"} => Fits(Blank, label)
BY SettingsTypes, ExeAssumption DEF Blank, Messages, Place, Fits, Past

LEMMA MessageTypes ==
  ASSUME TypeOK, NEW c \in Copy
  PROVE  /\ msg \in [Copy -> Messages] /\ msg[c] \in Messages
         /\ msg[c].at \in Place /\ msg[c].exe \in Exe /\ msg[c].retry \in 0..settings.retries
         /\ msg[c].deferred \in BOOLEAN
BY DEF TypeOK, Messages

\* What a handler leaves behind.
LEMMA LeaveKeepsTypes ==
  ASSUME TypeInv, NEW c \in Copy, pc[c] \notin {"idle", "republish"},
         NEW m \in Messages, Fits(m, "idle"), Leave(c, m), UNCHANGED <<settings, job>>
  PROVE  /\ msg' \in [Copy -> Messages] /\ pc' \in [Copy -> PC]
         /\ by' \in [Copy -> Worker \cup {NoWorker}] /\ outcome' \in [Copy -> Outcome]
         /\ Shape' /\ Handled'
<1> USE DEF TypeInv
<1>1. pc' = [pc EXCEPT ![c] = "idle"] /\ outcome' = [outcome EXCEPT ![c] = "ack"]
  BY DEF Leave, Goto
<1>2. pc' \in [Copy -> PC] /\ outcome' \in [Copy -> Outcome]
  BY <1>1 DEF TypeOK, PC, Outcome
<1>3. msg' \in [Copy -> Messages] /\ \A d \in Copy : Fits(msg'[d], pc'[d])
  <2>1. msg \in [Copy -> Messages] /\ "nowhere" \in Place /\ settings' = settings
    BY MessageTypes DEF Place
  <2>2. \A n \in Messages : Fits([n EXCEPT !.at = "nowhere"], "idle") /\ [n EXCEPT !.at = "nowhere"] \in Messages
    BY DEF Fits, Past, Messages, Place
  <2>3. CASE msg' = [msg EXCEPT ![c] = m]
    BY <1>1, <2>1, <2>3 DEF Shape, TypeOK
  <2>4. CASE msg' = [msg EXCEPT ![c].at = "nowhere"]
    BY <1>1, <2>1, <2>2, <2>4 DEF Shape, TypeOK
  <2>5. ASSUME NEW d \in Copy, Spare(d), msg' = [msg EXCEPT ![d] = m, ![c].at = "nowhere"]
        PROVE  msg' \in [Copy -> Messages] /\ \A b \in Copy : Fits(msg'[b], pc'[b])
    <3>1. d # c /\ pc[d] = "idle"
      BY <2>5 DEF Spare, Free
    <3>2. msg' = [msg EXCEPT ![d] = m, ![c] = [msg[c] EXCEPT !.at = "nowhere"]]
      BY <2>1, <2>5, <3>1
    <3> QED
      BY <1>1, <2>1, <2>2, <3>1, <3>2 DEF Shape, TypeOK
  <2> QED
    BY <2>3, <2>4, <2>5 DEF Leave
<1>4. by' \in [Copy -> Worker \cup {NoWorker}] /\ \A d \in Copy : d # c => by'[d] = by[d]
  BY DEF Leave, TypeOK
<1>5. Shape'
  BY <1>3 DEF Shape, Fits
<1>6. Handled'
  BY <1>1, <1>4 DEF Handled, TypeOK
<1> QED
  BY <1>2, <1>3, <1>4, <1>5, <1>6

\* The handler of c goes on, and its message stays where it is.
LEMMA MoveKeepsTypes ==
  ASSUME TypeInv, NEW c \in Copy, NEW label \in PC, NEW w \in Worker \cup {NoWorker},
         pc' = [pc EXCEPT ![c] = label], by' = [by EXCEPT ![c] = w], UNCHANGED <<msg, settings>>,
         Fits(msg[c], label), label \notin {"idle", "republish"} => w \in Worker
  PROVE  /\ msg' \in [Copy -> Messages] /\ pc' \in [Copy -> PC]
         /\ by' \in [Copy -> Worker \cup {NoWorker}] /\ Shape' /\ Handled'
<1>1. \A d \in Copy : Fits(msg'[d], pc'[d])
  BY DEF TypeInv, TypeOK, Shape
<1> QED
  BY <1>1, MessageTypes DEF TypeInv, TypeOK, Shape, Handled, Fits

\* The handler of c goes on in the same process.
LEMMA GotoKeepsTypes ==
  ASSUME TypeInv, NEW c \in Copy, NEW label \in PC \ {"idle"}, pc[c] \notin {"idle", "republish"},
         Goto(c, label), UNCHANGED <<msg, by, settings>>, Fits(msg[c], label)
  PROVE  /\ msg' \in [Copy -> Messages] /\ pc' \in [Copy -> PC]
         /\ by' \in [Copy -> Worker \cup {NoWorker}] /\ Shape' /\ Handled'
<1>1. by[c] \in Worker /\ by' = [by EXCEPT ![c] = by[c]]
  BY DEF TypeInv, TypeOK, Handled
<1> QED
  BY <1>1, MoveKeepsTypes DEF Goto

\* A message goes to a copy that nobody handles, and at most c stops being handled.
LEMMA PostKeepsTypes ==
  ASSUME TypeInv, NEW c \in Copy, NEW d \in Copy, NEW m \in Messages, Fits(m, "idle"),
         pc[d] = "idle" \/ d = c, msg' = [msg EXCEPT ![d] = m],
         pc' = [pc EXCEPT ![c] = "idle"], Fits(msg'[c], "idle"), UNCHANGED settings
  PROVE  msg' \in [Copy -> Messages] /\ pc' \in [Copy -> PC] /\ Shape'
<1>1. msg' \in [Copy -> Messages] /\ pc' \in [Copy -> PC]
  BY MessageTypes DEF TypeInv, TypeOK, PC
<1>2. \A b \in Copy : Fits(msg'[b], pc'[b])
  BY MessageTypes DEF TypeInv, TypeOK, Shape
<1> QED
  BY <1>1, <1>2 DEF Shape, Fits

\* What InQueue puts back into the broker.
LEMMA InQueueTypes ==
  ASSUME TypeInv, NEW c \in Copy, msg[c].retry < settings.retries, NEW place \in {"main", "retry"}
  PROVE  /\ InQueue(c, place) \in Messages /\ Fits(InQueue(c, place), "idle")
         /\ [InQueue(c, "retry") EXCEPT !.deferred = Held(c)] \in Messages
         /\ Fits([InQueue(c, "retry") EXCEPT !.deferred = Held(c)], "idle")
<1>1. msg[c] \in Messages /\ Held(c) \in BOOLEAN
  BY MessageTypes DEF TypeInv, Held
<1>2. Blank \in Messages /\ Fits(Blank, "idle") /\ Blank.deferred = FALSE /\ Blank.at = "nowhere"
  BY BlankIsMessage DEF TypeInv, Blank
<1>3. CASE Held(c)
  BY <1>1, <1>3 DEF InQueue, Messages, Place, Fits, Past
<1>4. CASE ~Held(c)
  <2>0. Held(c) = FALSE
    BY <1>1, <1>4
  <2>1. [Blank EXCEPT !.deferred = Held(c)] = Blank
    BY <1>2, <2>0 DEF Messages
  <2> QED
    BY <1>2, <1>4, <2>1 DEF InQueue
<1> QED
  BY <1>3, <1>4

-----------------------------------------------------------------------------
(* The types other than those of the handlings.                             *)
RestOK ==
  /\ settings \in Settings /\ log \in [Exe -> Status]
  /\ job \in [Copy -> Job] /\ result \in [Copy -> Final]
  /\ inflight \subseteq Exe /\ running \in [Exe -> Worker \cup {NoWorker}]
  /\ orphans \subseteq Exe \ Internal
  /\ faults \in [left : 0..MaxFaults, seen : SUBSET FaultKinds]

LEMMA KillTypes ==
  ASSUME RestOK, NEW e, KillChild(e) PROVE job' \in [Copy -> Job] /\ result' \in [Copy -> Final]
BY DEF RestOK, KillChild, Job, Final

LEMMA StepKeepsRest ==
  ASSUME TypeInv, Next PROVE RestOK'
<1>0. RestOK /\ \A c \in Copy : ExeOf(c) \in Exe /\ by[c] \in Worker \cup {NoWorker}
  BY MessageTypes DEF TypeInv, TypeOK, RestOK, ExeOf
<1>1. ASSUME NEW kind, Fault(kind) PROVE faults' \in [left : 0..MaxFaults, seen : SUBSET FaultKinds]
  BY <1>0, <1>1, FaultTypes DEF RestOK
<1>2. ASSUME NEW e, NEW status \in Status, SetLog(e, status) PROVE log' \in [Exe -> Status]
  BY <1>0, <1>2 DEF RestOK, SetLog, Status
<1>3. ASSUME NEW c \in Copy, JobStep(c) PROVE RestOK'
  <2>1. CASE FindRoutine(c)
    BY <1>0, <1>1, <1>2, <2>1 DEF FindRoutine, RestOK, JobAt, Job, Status, Final
  <2>2. CASE FinishChild(c)
    BY <1>0, <2>2 DEF FinishChild, RestOK, JobAt, Job, Final
  <2>3. CASE WriteResult(c)
    BY <1>0, <1>1, <1>2, <2>3 DEF WriteResult, RestOK, JobAt, Job, Status, Final
  <2>4. CASE TouchRoutine(c)
    BY <1>0, <1>1, <2>4 DEF TouchRoutine, RestOK, JobAt, Job
  <2>5. CASE JobEndsAlone(c)
    BY <1>0, <2>5 DEF JobEndsAlone, RestOK, JobAt, Job
  <2> QED
    BY <1>3, <2>1, <2>2, <2>3, <2>4, <2>5 DEF JobStep
<1>4. ASSUME NEW c \in Copy, HandlerStep(c) PROVE RestOK'
  <2>1. CASE GiveUp(c) \/ Settle(c)
    BY <1>0, <2>1 DEF GiveUp, Settle, RestOK
  <2>2. CASE Exhaust(c) \/ BookInternal(c)
    BY <1>0, <1>1, <1>2, <2>2 DEF Exhaust, BookInternal, RestOK, Status, Final
  <2>3. CASE Check(c) \/ Defer(c)
    BY <1>0, <1>1, <2>3 DEF Check, Defer, RestOK
  <2>4. CASE TakeSlot(c) \/ TakeRunningLock(c) \/ JobDone(c)
    BY <1>0, <1>1, <2>4 DEF TakeSlot, TakeRunningLock, JobDone, JobAt, RestOK, Job
  <2>5. CASE ReleaseRunningLock(c) \/ ReleaseSlot(c)
    BY <1>0, <1>1, <2>5 DEF ReleaseRunningLock, ReleaseSlot, RestOK
  <2> QED
    BY <1>4, <2>1, <2>2, <2>3, <2>4, <2>5 DEF HandlerStep
<1>5. ASSUME NEW c \in Copy, BrokerStep(c) \/ HardTimeout(c) \/ ReopenDead(c) \/ RepublishDead(c)
      PROVE  RestOK'
  BY <1>0, <1>1, <1>2, <1>5
  DEF BrokerStep, Deliver, RetryBack, TakeReturned, HardTimeout, ReopenDead, RepublishDead,
      RestOK, Status
<1>6. ASSUME NEW w \in Worker, Crash(w) \/ LoseChannel(w) PROVE RestOK'
  BY <1>0, <1>1, <1>6 DEF Crash, LoseChannel, RestOK, Job, Final
<1>7. ASSUME NEW e \in Exe, Cancel(e) \/ Delete(e) PROVE RestOK'
  BY <1>0, <1>1, <1>2, <1>7, KillTypes DEF Cancel, Delete, RestOK, Status, Final
<1>8. ASSUME NEW e \in Exe, LeaseLapses(e) \/ LockExpires(e) \/ OrphanEnds(e) PROVE RestOK'
  BY <1>0, <1>1, <1>8 DEF LeaseLapses, LockExpires, OrphanEnds, RestOK
<1> QED
  BY <1>3, <1>4, <1>5, <1>6, <1>7, <1>8 DEF Next

-----------------------------------------------------------------------------
\* What a message gives way to when channels close: as many identities, each once.
LEMMA TwinExists ==
  ASSUME NEW S, NEW T, IsFiniteSet(S), IsFiniteSet(T), Cardinality(S) <= Cardinality(T)
  PROVE  \E h \in [S -> T] : IsInjective(h)
<1>1. PICK f : f \in Bijection(1..Cardinality(S), S)
  BY FS_CardinalityType DEF ExistsBijection
<1>2. PICK g : g \in Bijection(1..Cardinality(T), T)
  BY FS_CardinalityType DEF ExistsBijection
<1>3. Cardinality(S) \in Nat /\ Cardinality(T) \in Nat
  BY FS_CardinalityType
<1> DEFINE place(x) == CHOOSE i \in 1..Cardinality(S) : f[i] = x
           h == [x \in S |-> g[place(x)]]
<1>4. \A x \in S : place(x) \in 1..Cardinality(S) /\ f[place(x)] = x
  BY <1>1 DEF Bijection, Surjection
<1>5. \A x \in S : place(x) \in 1..Cardinality(T)
  BY <1>3, <1>4
<1> HIDE DEF place
<1>6. h \in [S -> T]
  BY <1>2, <1>5 DEF Bijection, Injection
<1>7. \A x, y \in S : h[x] = h[y] => x = y
  BY <1>2, <1>4, <1>5 DEF Bijection, Injection, IsInjective
<1>8. IsInjective(h)
  BY <1>6, <1>7 DEF IsInjective
<1> QED
  BY <1>6, <1>8

(* The messages and their handlings.                                        *)
Handlings ==
  /\ msg \in [Copy -> Messages] /\ pc \in [Copy -> PC]
  /\ by \in [Copy -> Worker \cup {NoWorker}] /\ outcome \in [Copy -> Outcome]
  /\ Shape /\ Handled

LEMMA LeaveKeepsHandlings ==
  ASSUME TypeInv, NEW c \in Copy, pc[c] \notin {"idle", "republish"},
         NEW m \in Messages, Fits(m, "idle"), Leave(c, m), UNCHANGED <<settings, job>>
  PROVE  Handlings'
BY LeaveKeepsTypes DEF Handlings, Messages

LEMMA JobKeepsHandlings ==
  ASSUME TypeInv, NEW c \in Copy, JobStep(c) PROVE Handlings'
<1>1. CASE JobEndsAlone(c)
  <2>1. CASE pc[c] = "idle"
    <3>1. /\ msg' = [msg EXCEPT ![c] = Blank] /\ by' = [by EXCEPT ![c] = NoWorker]
          /\ UNCHANGED <<pc, outcome, settings>>
      BY <1>1, <2>1 DEF JobEndsAlone
    <3>2. msg' \in [Copy -> Messages] /\ Blank \in Messages /\ Fits(Blank, "idle")
      BY <3>1, MessageTypes, BlankIsMessage DEF TypeInv
    <3>3. Handled' /\ \A b \in Copy : Fits(msg'[b], pc'[b])
      BY <2>1, <3>1, <3>2 DEF TypeInv, TypeOK, Shape, Handled
    <3> QED
      BY <3>1, <3>2, <3>3 DEF Handlings, Messages, Shape, Fits, TypeInv, TypeOK
  <2>2. CASE pc[c] # "idle"
    BY <1>1, <2>2 DEF JobEndsAlone, TypeInv, TypeOK, Handlings, Shape, Handled, Fits, Messages
  <2> QED
    BY <2>1, <2>2
<1>2. CASE FindRoutine(c) \/ FinishChild(c) \/ WriteResult(c) \/ TouchRoutine(c)
  BY <1>2 DEF FindRoutine, FinishChild, WriteResult, TouchRoutine, TypeInv, TypeOK, Handlings, Shape,
              Handled, Fits, Messages
<1> QED
  BY <1>1, <1>2 DEF JobStep

LEMMA HandlerKeepsHandlings ==
  ASSUME TypeInv, NEW c \in Copy, HandlerStep(c) PROVE Handlings'
<1>0. /\ msg[c] \in Messages /\ Blank \in Messages /\ Fits(Blank, "idle") /\ Fits(msg[c], pc[c])
      /\ pc[c] \notin {"idle", "republish"} => by[c] \in Worker
  BY MessageTypes, BlankIsMessage DEF TypeInv, Shape, Handled
<1>1. CASE GiveUp(c)
  <2>1. PICK d \in Copy : /\ Spare(d)
                          /\ msg' = [msg EXCEPT ![d] = [msg[c] EXCEPT !.at = "dlq"], ![c].at = "nowhere"]
    BY <1>1 DEF GiveUp
  <2>2. pc[d] = "idle" /\ d # c /\ pc' = [pc EXCEPT ![c] = "exhaust"] /\ UNCHANGED <<by, outcome, settings>>
    BY <1>1, <2>1 DEF GiveUp, Spare, Free, Goto
  <2>3. /\ [msg[c] EXCEPT !.at = "dlq"] \in Messages /\ [msg[c] EXCEPT !.at = "nowhere"] \in Messages
        /\ Fits([msg[c] EXCEPT !.at = "dlq"], "idle") /\ Fits([msg[c] EXCEPT !.at = "nowhere"], "exhaust")
    BY <1>0 DEF Messages, Place, Fits, Past
  <2>4. msg' = [msg EXCEPT ![d] = [msg[c] EXCEPT !.at = "dlq"], ![c] = [msg[c] EXCEPT !.at = "nowhere"]]
    BY <2>1, <2>2, MessageTypes DEF TypeInv
  <2>5. \A b \in Copy : Fits(msg'[b], pc'[b])
    BY <2>2, <2>3, <2>4, MessageTypes DEF TypeInv, TypeOK, Shape
  <2>6. msg' \in [Copy -> Messages] /\ pc' \in [Copy -> PC]
    BY <2>2, <2>3, <2>4, MessageTypes DEF TypeInv, TypeOK, PC
  <2>7. Handled'
    BY <1>0, <1>1, <2>2 DEF TypeInv, TypeOK, Handled, GiveUp
  <2> QED
    BY <2>2, <2>5, <2>6, <2>7 DEF Handlings, Messages, Shape, Fits, TypeInv, TypeOK
<1>2. CASE Exhaust(c)
  BY <1>0, <1>2, LeaveKeepsHandlings DEF Exhaust
<1>3. CASE Check(c)
  <2>1. CASE Leave(c, InQueue(c, "retry")) \/ Leave(c, InQueue(c, "main")) \/ Leave(c, Blank)
    BY <1>0, <1>3, <2>1, LeaveKeepsHandlings, InQueueTypes DEF Check
  <2>2. CASE Goto(c, "slot") /\ UNCHANGED <<msg, by, outcome>>
    <3>1. Fits(msg[c], "slot") /\ "slot" \in PC \ {"idle"}
      BY <1>0, <1>3 DEF Check, Fits, PC
    <3> QED
      BY <1>3, <2>2, <3>1, GotoKeepsTypes DEF Check, Handlings, TypeInv, TypeOK, Messages
  <2> QED
    BY <1>3, <2>1, <2>2 DEF Check
<1>4. CASE TakeSlot(c)
  <2>1. PICK label \in {"await", "lock"} : Goto(c, label)
    BY <1>4 DEF TakeSlot
  <2>2. Fits(msg[c], label) /\ label \in PC \ {"idle"}
    BY <1>0, <1>4, <2>1 DEF TakeSlot, Fits, PC, Past
  <2> QED
    BY <1>4, <2>1, <2>2, GotoKeepsTypes DEF TakeSlot, Handlings, TypeInv, TypeOK, Messages
<1>5. CASE Defer(c)
  <2>0. pc[c] = "slot" /\ msg[c].retry < settings.retries /\ UNCHANGED <<settings, job>>
    BY <1>0, <1>5 DEF Defer, Fits, Past
  <2>1. PICK m \in Messages : /\ Fits(m, "idle")
                              /\ \/ Leave(c, m)
                                 \/ /\ PublishedTwice(c, m) /\ Held(c)
                                    /\ Goto(c, "idle") /\ by' = [by EXCEPT ![c] = NoWorker]
                                    /\ UNCHANGED outcome
    BY <1>5, <2>0, InQueueTypes DEF Defer
  <2>2. CASE Leave(c, m)
    BY <2>0, <2>1, <2>2, LeaveKeepsHandlings
  <2>3. CASE /\ PublishedTwice(c, m) /\ Held(c)
             /\ Goto(c, "idle") /\ by' = [by EXCEPT ![c] = NoWorker] /\ UNCHANGED outcome
    <3>1. PICK d \in Copy : pc[d] = "idle" /\ msg' = [msg EXCEPT ![d] = m]
      BY <2>3 DEF PublishedTwice, Spare, Free
    <3>2. Fits(msg'[c], "idle")
      BY <1>0, <2>0, <2>3, <3>1, MessageTypes DEF TypeInv, Fits, Past, Held
    <3>3. msg' \in [Copy -> Messages] /\ pc' \in [Copy -> PC] /\ Shape'
      BY <2>0, <2>1, <2>3, <3>1, <3>2, PostKeepsTypes DEF Goto
    <3> QED
      BY <2>0, <2>3, <3>3 DEF Handlings, TypeInv, TypeOK, Messages, Handled, Goto
  <2> QED
    BY <2>1, <2>2, <2>3
<1>6. CASE TakeRunningLock(c)
  <2>1. PICK label \in {"await", "release"} : Goto(c, label)
    BY <1>6 DEF TakeRunningLock
  <2>2. Fits(msg[c], label) /\ label \in PC \ {"idle"}
    BY <1>0, <1>6, <2>1 DEF TakeRunningLock, Fits, PC, Past
  <2> QED
    BY <1>6, <2>1, <2>2, GotoKeepsTypes DEF TakeRunningLock, Handlings, TypeInv, TypeOK, Messages
<1>7. CASE JobDone(c) \/ BookInternal(c) \/ ReleaseRunningLock(c) \/ ReleaseSlot(c)
  <2>1. PICK label \in {"book", "unlock", "release", "settle"} : Goto(c, label)
    BY <1>7 DEF JobDone, AfterJob, BookInternal, ReleaseRunningLock, ReleaseSlot
  <2>2. pc[c] \in Past /\ outcome' \in [Copy -> Outcome] /\ UNCHANGED <<msg, by, settings>>
    BY <1>7 DEF JobDone, BookInternal, ReleaseRunningLock, ReleaseSlot, Past, TypeInv, TypeOK, Outcome
  <2>3. Fits(msg[c], label) /\ label \in PC \ {"idle"} /\ pc[c] \notin {"idle", "republish"}
    BY <1>0, <2>1, <2>2 DEF Fits, PC, Past
  <2> QED
    BY <2>1, <2>2, <2>3, GotoKeepsTypes DEF Handlings, TypeInv, TypeOK, Messages
<1>8. CASE Settle(c)
  <2>1. outcome[c] \in {"ack", "discard"} /\ msg[c].retry < settings.retries
    BY <1>0, <1>8 DEF TypeInv, TypeOK, Outcome, Settle, Fits, Past
  <2>2. PICK m \in {Blank, InQueue(c, "retry")} : Leave(c, m)
    BY <1>8, <2>1 DEF Settle
  <2>3. m \in Messages /\ Fits(m, "idle")
    BY <1>0, <2>1, InQueueTypes
  <2> QED
    BY <1>8, <2>2, <2>3, LeaveKeepsHandlings DEF Settle
<1> QED
  BY <1>1, <1>2, <1>3, <1>4, <1>5, <1>6, <1>7, <1>8 DEF HandlerStep

LEMMA BrokerKeepsHandlings ==
  ASSUME TypeInv, NEW c \in Copy,
         BrokerStep(c) \/ HardTimeout(c) \/ ReopenDead(c) \/ RepublishDead(c)
  PROVE  Handlings'
<1>0. /\ msg \in [Copy -> Messages] /\ msg[c] \in Messages
      /\ Fits(msg[c], pc[c]) /\ pc[c] \in PC /\ pc \in [Copy -> PC]
  BY MessageTypes DEF TypeInv, TypeOK, Shape
<1>1. ASSUME NEW w \in Worker, Deliver(c, w) PROVE Handlings'
  <2>1. Fits(msg[c], "check") /\ "check" \in PC
    BY <1>0, <1>1 DEF Deliver, Fits, PC, Past
  <2> QED
    BY <1>1, <2>1, MoveKeepsTypes DEF Deliver, Goto, Handlings, TypeInv, TypeOK, Messages
<1>2. CASE RetryBack(c)
  <2> DEFINE m == [at |-> "main", exe |-> ExeOf(c), deferred |-> FALSE,
                   retry |-> IF msg[c].deferred THEN msg[c].retry ELSE msg[c].retry + 1]
             back == [m EXCEPT !.at = "returned"]
  <2>1. pc[c] = "idle" /\ UNCHANGED <<settings, pc, outcome>>
    BY <1>0, <1>2 DEF RetryBack, Fits, Past, PC
  <2>2. m \in Messages /\ back \in Messages /\ Fits(m, "idle") /\ Fits(back, "idle")
    <3>1. msg[c].retry \in 0..settings.retries /\ settings.retries \in Nat
      BY SettingsTypes, MessageTypes DEF TypeInv
    <3>2. ~msg[c].deferred => msg[c].retry + 1 \in 0..settings.retries
      BY <1>0, <1>2, <3>1 DEF RetryBack, Fits
    <3> QED
      BY <1>0, <3>1, <3>2 DEF Messages, Place, Fits, Past, ExeOf
  <2>3. PICK d \in Copy, n \in Messages : pc[d] = "idle" /\ Fits(n, "idle") /\ msg' = [msg EXCEPT ![d] = n]
    <3>1. CASE msg' = [msg EXCEPT ![c] = m] \/ msg' = [msg EXCEPT ![c] = back]
      BY <2>1, <2>2, <3>1
    <3>2. CASE PublishedTwice(c, m)
      BY <2>2, <3>2 DEF PublishedTwice, Spare, Free
    <3> QED
      BY <1>2, <3>1, <3>2 DEF RetryBack
  <2>4. /\ by' \in [Copy -> Worker \cup {NoWorker}]
        /\ \A b \in Copy : by'[b] = by[b] \/ b = c
    <3>1. by' = by \/ \E w \in Worker : by' = [by EXCEPT ![c] = w]
      BY <1>2 DEF RetryBack
    <3> QED
      BY <3>1 DEF TypeInv, TypeOK
  <2>5. \A b \in Copy : Fits(msg'[b], pc'[b])
    BY <1>0, <2>1, <2>3 DEF TypeInv, Shape
  <2> QED
    BY <1>0, <2>1, <2>3, <2>4, <2>5 DEF Handlings, Messages, TypeInv, TypeOK, Shape, Handled, Fits
<1>3. CASE TakeReturned(c)
  <2>1. pc[c] = "idle" /\ UNCHANGED <<settings, pc, outcome>> /\ by' = [by EXCEPT ![c] = NoWorker]
    BY <1>0, <1>3 DEF TakeReturned, Fits, Past, PC
  <2>2. [msg[c] EXCEPT !.at = "retry", !.deferred = TRUE] \in Messages
        /\ Fits([msg[c] EXCEPT !.at = "retry", !.deferred = TRUE], "idle")
    BY <1>0 DEF Messages, Place, Fits, Past
  <2>3. msg' = [msg EXCEPT ![c] = [msg[c] EXCEPT !.at = "retry", !.deferred = TRUE]]
    BY <1>0, <1>3 DEF TakeReturned
  <2>4. \A b \in Copy : Fits(msg'[b], pc'[b])
    BY <1>0, <2>1, <2>2, <2>3 DEF TypeInv, Shape
  <2> QED
    BY <1>0, <2>1, <2>2, <2>3, <2>4 DEF Handlings, Messages, TypeInv, TypeOK, Shape, Handled, Fits
<1>4. CASE HardTimeout(c)
  <2>1. PICK label \in {"book", "unlock"} : Goto(c, label)
    BY <1>4 DEF HardTimeout, AfterJob
  <2>2. /\ Fits(msg[c], label) /\ label \in PC \ {"idle"} /\ pc[c] \notin {"idle", "republish"}
        /\ outcome' \in [Copy -> Outcome]
    BY <1>0, <1>4, <2>1 DEF HardTimeout, Fits, PC, Past, Outcome, TypeInv, TypeOK
  <2> QED
    BY <1>4, <2>1, <2>2, GotoKeepsTypes DEF HardTimeout, Handlings, TypeInv, TypeOK, Messages
<1>5. CASE ReopenDead(c)
  <2>1. CASE ExeOf(c) \in Internal
    <3>1. Blank \in Messages /\ Fits(Blank, "idle")
      BY BlankIsMessage DEF TypeInv
    <3>2. \A b \in Copy : Fits(msg'[b], pc'[b])
      BY <1>0, <1>5, <2>1, <3>1 DEF ReopenDead, TypeInv, Shape
    <3> QED
      BY <1>0, <1>5, <2>1, <3>1, <3>2
      DEF ReopenDead, Handlings, Messages, TypeInv, TypeOK, Shape, Handled, Fits
  <2>2. CASE ExeOf(c) \notin Internal
    <3>1. Fits(msg[c], "republish") /\ "republish" \in PC
      BY <1>5, <1>0 DEF ReopenDead, Fits, PC, Past
    <3>2. by' = [by EXCEPT ![c] = by[c]] /\ by[c] \in Worker \cup {NoWorker}
      BY <1>5 DEF ReopenDead, TypeInv, TypeOK
    <3> QED
      BY <1>5, <2>2, <3>1, <3>2, MoveKeepsTypes
      DEF ReopenDead, Goto, Handlings, TypeInv, TypeOK, Messages
  <2> QED
    BY <2>1, <2>2
<1>6. CASE RepublishDead(c)
  <2> DEFINE m == [at |-> "main", exe |-> ExeOf(c), deferred |-> msg[c].deferred, retry |-> 0]
  <2>1. m \in Messages /\ Fits(m, "idle")
    <3>1. settings.retries \in Nat \ {0}
      BY SettingsTypes DEF TypeInv
    <3> QED
      BY <1>0, <3>1 DEF Messages, Place, Fits, Past, ExeOf
  <2>2. PICK d \in Copy : (pc[d] = "idle" \/ d = c) /\ msg' = [msg EXCEPT ![d] = m]
    BY <1>6 DEF RepublishDead, PublishedTwice, Spare, Free
  <2>3. pc[c] = "republish" /\ pc' = [pc EXCEPT ![c] = "idle"] /\ UNCHANGED <<settings, by, outcome>>
    BY <1>6 DEF RepublishDead, Goto
  <2>4. Fits(msg'[c], "idle")
    BY <1>0, <2>1, <2>2, <2>3 DEF Fits, Past
  <2>5. msg' \in [Copy -> Messages] /\ pc' \in [Copy -> PC] /\ Shape'
    BY <2>1, <2>2, <2>3, <2>4, PostKeepsTypes
  <2> QED
    BY <2>3, <2>5 DEF Handlings, TypeInv, TypeOK, Messages, Handled
<1> QED
  BY <1>1, <1>2, <1>3, <1>4, <1>5, <1>6 DEF BrokerStep

LEMMA CrashKeepsHandlings ==
  ASSUME TypeInv, NEW w \in Worker, Crash(w) PROVE Handlings'
<1>1. /\ msg \in [Copy -> Messages] /\ Blank \in Messages /\ Fits(Blank, "idle")
      /\ \A c \in Copy : Fits(msg[c], pc[c]) /\ (Held(c) => Fits(msg[c], "idle"))
  <2>1. msg \in [Copy -> Messages] /\ \A c \in Copy : Fits(msg[c], pc[c])
    BY DEF TypeInv, TypeOK, Messages, Shape
  <2>2. \A c \in Copy : Held(c) => Fits(msg[c], "idle")
    BY DEF Held, Fits, Past
  <2> QED
    BY <2>1, <2>2, BlankIsMessage DEF TypeInv
<1>2. \A c \in Copy : Fits(msg'[c], pc'[c]) /\ msg'[c] \in Messages
  BY <1>1 DEF Crash
<1>3. msg' \in [Copy -> Messages]
  BY <1>2 DEF Crash
<1>4. pc' \in [Copy -> PC] /\ by' \in [Copy -> Worker \cup {NoWorker}] /\ outcome' \in [Copy -> Outcome]
  BY DEF Crash, TypeInv, TypeOK, PC, Outcome
<1>5. Handled'
  BY DEF Crash, Handled, TypeInv
<1> QED
  BY <1>2, <1>3, <1>4, <1>5 DEF Crash, Handlings, Shape, Fits, Messages

\* When the channels of w close: what it held is delivered again, as the copies of twin.
LostInto(w, mine, twin) ==
  /\ mine = {c \in Copy : by[c] = w /\ Held(c)} /\ IsInjective(twin)
  /\ DOMAIN msg' = Copy
  /\ \A c \in mine : msg'[c] = [msg[c] EXCEPT !.at = "nowhere"] /\ msg'[twin[c]] = msg[c]
  /\ \A c \in Copy : c \notin mine /\ (\A d \in mine : twin[d] # c) =>
       msg'[c] = IF by[c] = w /\ msg[c].at = "returned" THEN Blank ELSE msg[c]

LEMMA LostChannel ==
  ASSUME TypeInv, NEW w \in Worker, LoseChannel(w)
  PROVE  \E mine \in SUBSET Copy : \E twin \in [mine -> {c \in Copy : Free(c)}] :
           LostInto(w, mine, twin)
<1> DEFINE mine == {c \in Copy : by[c] = w /\ Held(c)}
           free == {c \in Copy : Free(c)}
           twin == CHOOSE f \in [mine -> free] : IsInjective(f)
           next(c) == CASE c \in mine -> [msg[c] EXCEPT !.at = "nowhere"]
                        [] \E d \in mine : twin[d] = c -> msg[CHOOSE d \in mine : twin[d] = c]
                        [] by[c] = w /\ msg[c].at = "returned" -> Blank
                        [] OTHER -> msg[c]
<1>1. IsFiniteSet(mine) /\ IsFiniteSet(free)
  BY CopyAssumption, FS_Subset
<1>2. Cardinality(mine) <= Cardinality(free)
  BY DEF LoseChannel
<1>3. \E f \in [mine -> free] : IsInjective(f)
  BY <1>1, <1>2, TwinExists
<1>4. twin \in [mine -> free] /\ IsInjective(twin)
  BY <1>3
<1>5. msg' = [c \in Copy |-> next(c)]
  BY DEF LoseChannel
<1> HIDE DEF twin
<1>6. \A c \in mine : twin[c] \in Copy /\ twin[c] \notin mine /\ msg[twin[c]].at = "nowhere"
  <2>1. \A c \in mine : twin[c] \in Copy /\ Free(twin[c])
    BY <1>4
  <2>2. \A c \in Copy : Free(c) => ~Held(c) /\ msg[c].at = "nowhere"
    BY DEF Free, Held, Blank
  <2> QED
    BY <2>1, <2>2
<1>7. \A c \in mine : (CHOOSE d \in mine : twin[d] = twin[c]) = c
  BY <1>4 DEF IsInjective
<1>8. ASSUME NEW c \in mine
      PROVE  next(c) = [msg[c] EXCEPT !.at = "nowhere"] /\ next(twin[c]) = msg[c]
  <2>1. msg[c].at = "main" /\ ~\E d \in mine : twin[d] = c
    BY <1>6, <1>8 DEF Held
  <2>2. next(c) = [msg[c] EXCEPT !.at = "nowhere"]
    BY <1>8, <2>1
  <2>3. next(twin[c]) = msg[CHOOSE d \in mine : twin[d] = twin[c]]
    BY <1>6, <1>8
  <2> QED
    BY <1>7, <2>2, <2>3
<1>9. ASSUME NEW c \in Copy, c \notin mine, \A d \in mine : twin[d] # c
      PROVE  next(c) = IF by[c] = w /\ msg[c].at = "returned" THEN Blank ELSE msg[c]
  BY <1>9
<1> HIDE DEF next
<1>10. DOMAIN msg' = Copy /\ \A c \in Copy : msg'[c] = next(c)
  BY <1>5
<1>11. mine \in SUBSET Copy
  OBVIOUS
<1> HIDE DEF mine
<1>12. mine = {c \in Copy : by[c] = w /\ Held(c)}
  BY DEF mine
<1>13. /\ \A c \in mine : /\ msg'[c] = [msg[c] EXCEPT !.at = "nowhere"]
                           /\ msg'[twin[c]] = msg[c]
       /\ \A c \in Copy : c \notin mine /\ (\A d \in mine : twin[d] # c) =>
            msg'[c] = IF by[c] = w /\ msg[c].at = "returned" THEN Blank ELSE msg[c]
  BY <1>6, <1>8, <1>9, <1>10, <1>11
<1>14. twin \in [mine -> {c \in Copy : Free(c)}]
  BY <1>4
<1> HIDE DEF free
<1>15. LostInto(w, mine, twin)
  BY <1>4, <1>10, <1>12, <1>13 DEF LostInto
<1> QED
  BY <1>11, <1>14, <1>15, Zenon

LEMMA ChannelKeepsHandlings ==
  ASSUME TypeInv, NEW w \in Worker, LoseChannel(w) PROVE Handlings'
<1>0. PICK mine \in SUBSET Copy : \E twin \in [mine -> {c \in Copy : Free(c)}] : LostInto(w, mine, twin)
  BY LostChannel
<1>1. PICK twin \in [mine -> {c \in Copy : Free(c)}] :
           /\ mine = {c \in Copy : by[c] = w /\ Held(c)}
           /\ \A c \in mine : msg'[c] = [msg[c] EXCEPT !.at = "nowhere"] /\ msg'[twin[c]] = msg[c]
           /\ \A c \in Copy : c \notin mine /\ (\A d \in mine : twin[d] # c) =>
                msg'[c] = IF by[c] = w /\ msg[c].at = "returned" THEN Blank ELSE msg[c]
  BY <1>0, Zenon DEF LostInto
<1>2. /\ msg \in [Copy -> Messages] /\ Blank \in Messages /\ Fits(Blank, "idle")
      /\ \A c \in Copy : msg[c] \in Messages /\ Fits(msg[c], pc[c])
  <2>1. msg \in [Copy -> Messages] /\ \A c \in Copy : Fits(msg[c], pc[c])
    BY DEF TypeInv, TypeOK, Messages, Shape
  <2> QED
    BY <2>1, BlankIsMessage DEF TypeInv
<1>3. \A c \in mine : /\ [msg[c] EXCEPT !.at = "nowhere"] \in Messages
                      /\ Fits([msg[c] EXCEPT !.at = "nowhere"], pc[c])
  BY <1>1, <1>2 DEF Messages, Place, Fits, Held, Past
<1>4. \A c \in mine : pc[twin[c]] = "idle" /\ msg[c].at = "main"
  BY <1>1 DEF Free, Held
<1>5. ASSUME NEW c \in Copy PROVE Fits(msg'[c], pc[c]) /\ msg'[c] \in Messages
  <2>1. CASE c \in mine
    BY <1>1, <1>3, <2>1
  <2>2. CASE c \notin mine /\ \E d \in mine : twin[d] = c
    <3>1. PICK d \in mine : twin[d] = c /\ msg'[c] = msg[d]
      BY <1>1, <2>2
    <3> QED
      BY <1>2, <1>4, <3>1 DEF Fits, Past
  <2>3. CASE c \notin mine /\ ~\E d \in mine : twin[d] = c
    <3>1. msg'[c] = IF by[c] = w /\ msg[c].at = "returned" THEN Blank ELSE msg[c]
      BY <1>1, <2>3
    <3>2. msg[c].at = "returned" => pc[c] = "idle"
      BY <1>2 DEF Fits, Past
    <3> QED
      BY <1>2, <3>1, <3>2
  <2> QED
    BY <2>1, <2>2, <2>3
<1>6. msg' \in [Copy -> Messages]
  <2>1. msg' = [c \in Copy |-> msg'[c]]
    BY DEF LoseChannel
  <2> QED
    BY <1>5, <2>1
<1>7. by' \in [Copy -> Worker \cup {NoWorker}]
  BY DEF LoseChannel, TypeInv, TypeOK
<1>8. Handled'
  <2>1. \A c \in Copy : msg[c].at = "returned" => pc[c] \in {"idle", "republish"}
    BY <1>2 DEF Fits
  <2> QED
    BY <2>1 DEF LoseChannel, Handled, TypeInv, TypeOK
<1> QED
  BY <1>5, <1>6, <1>7, <1>8 DEF LoseChannel, Handlings, Shape, Fits, Messages, TypeInv, TypeOK

LEMMA StepKeepsTypes == TypeInv /\ [Next]_vars => TypeInv'
<1> SUFFICES ASSUME TypeInv, [Next]_vars PROVE TypeInv'
  OBVIOUS
<1>1. CASE UNCHANGED vars
  BY <1>1 DEF vars, TypeInv, TypeOK, Shape, Handled, Fits
<1>2. CASE Next
  <2>1. RestOK'
    BY <1>2, StepKeepsRest
  <2>2. ASSUME NEW e \in Exe, Cancel(e) \/ Delete(e) \/ LeaseLapses(e) \/ LockExpires(e) \/ OrphanEnds(e)
        PROVE  Handlings'
    BY <2>2 DEF Cancel, Delete, LeaseLapses, LockExpires, OrphanEnds, Handlings, Messages, Shape, Handled, Fits,
                TypeInv, TypeOK
  <2>3. Handlings'
    BY <1>2, <2>2, JobKeepsHandlings, HandlerKeepsHandlings, BrokerKeepsHandlings,
       CrashKeepsHandlings, ChannelKeepsHandlings DEF Next
  <2> QED
    BY <2>1, <2>3 DEF RestOK, Handlings, TypeInv, TypeOK, Messages
<1> QED
  BY <1>1, <1>2

LEMMA InitTypes == Init => TypeInv
<1> SUFFICES ASSUME Init PROVE TypeInv
  OBVIOUS
<1> DEFINE first == CHOOSE f \in [Exe -> Copy] : IsInjective(f)
           started(c) == [Blank EXCEPT !.at = "main", !.exe = CHOOSE e \in Exe : first[e] = c]
<1>1. settings \in Settings /\ settings.retries \in Nat \ {0}
  BY SettingsAssumption DEF Init
<1>2. Blank \in Messages /\ Blank.at = "nowhere"
  BY <1>1, ExeAssumption DEF Blank, Messages, Place
<1>3. \A c \in Copy : (\E e \in Exe : first[e] = c) => started(c) \in Messages /\ started(c).at = "main"
  BY <1>2 DEF Messages, Place
<1>4. msg = [c \in Copy |-> IF \E e \in Exe : first[e] = c THEN started(c) ELSE Blank]
  BY DEF Init
<1>5. msg \in [Copy -> Messages] /\ \A c \in Copy : msg[c].at \in {"main", "nowhere"}
  BY <1>2, <1>3, <1>4
<1>6. Shape /\ Handled
  BY <1>5 DEF Init, Shape, Handled, Fits, Past
<1>7. log \in [Exe -> Status] /\ pc \in [Copy -> PC] /\ outcome \in [Copy -> Outcome]
      /\ job \in [Copy -> Job] /\ result \in [Copy -> Final]
  BY DEF Init, Status, PC, Outcome, Job, Final
<1>8. by \in [Copy -> Worker \cup {NoWorker}] /\ inflight \subseteq Exe
      /\ running \in [Exe -> Worker \cup {NoWorker}] /\ orphans \subseteq Exe \ Internal
  BY DEF Init
<1>9. faults \in [left : 0..MaxFaults, seen : SUBSET FaultKinds]
  <2>1. faults = [left |-> MaxFaults, seen |-> {}]
    BY DEF Init
  <2> QED
    BY <2>1, FaultsAssumption
<1> QED
  BY <1>1, <1>5, <1>6, <1>7, <1>8, <1>9 DEF TypeInv, TypeOK, Messages

\* The types of the parallel path hold under every fault; a delivery at work has its
\* message in the main queue or nowhere, and never its last retry.
THEOREM ParallelTypeCorrect == Spec => []TypeOK
<1>1. Spec => []TypeInv
  BY InitTypes, StepKeepsTypes, PTL DEF Spec
<1> QED
  BY <1>1, PTL DEF TypeInv

-----------------------------------------------------------------------------
(* What a step leaves as it was.                                            *)

\* A handler that returns touches its copy, and one that was not in use.
LEMMA LeaveTouches ==
  ASSUME TypeInv, NEW c \in Copy, pc[c] # "idle", NEW m, Leave(c, m)
  PROVE  /\ pc' = [pc EXCEPT ![c] = "idle"]
         /\ \A d \in Copy : d # c => by'[d] = by[d] /\ (pc[d] = "idle" \/ msg'[d] = msg[d])
<1>1. /\ \A d \in Copy : d # c => by'[d] = by[d]
      /\ pc' = [pc EXCEPT ![c] = "idle"]
  BY DEF Leave, Goto, TypeInv, TypeOK
<1>2. \A d \in Copy : d # c => pc[d] = "idle" \/ msg'[d] = msg[d]
  <2>1. CASE msg' = [msg EXCEPT ![c] = m]
    BY <2>1 DEF TypeInv, TypeOK
  <2>2. CASE msg' = [msg EXCEPT ![c].at = "nowhere"]
    BY <2>2 DEF TypeInv, TypeOK
  <2>3. ASSUME NEW d \in Copy, Spare(d), msg' = [msg EXCEPT ![d] = m, ![c].at = "nowhere"]
        PROVE  \A b \in Copy : b # c => pc[b] = "idle" \/ msg'[b] = msg[b]
    BY <2>3 DEF TypeInv, TypeOK, Spare, Free
  <2> QED
    BY <2>1, <2>2, <2>3 DEF Leave
<1> QED
  BY <1>1, <1>2

\* Who is at work keeps its execution and its worker.
Stays == \A d \in Copy : pc[d] # "idle" /\ pc'[d] # "idle" => ExeOf(d)' = ExeOf(d) /\ by'[d] = by[d]

LEMMA HandlerStays ==
  ASSUME TypeInv, NEW c \in Copy, HandlerStep(c) PROVE Stays
<1>1. ASSUME NEW m, Leave(c, m), pc[c] # "idle" PROVE Stays
  BY <1>1, LeaveTouches DEF Stays, ExeOf, TypeInv, TypeOK
<1>2. CASE Exhaust(c) \/ Settle(c)
  BY <1>1, <1>2 DEF Exhaust, Settle
<1>3. CASE GiveUp(c)
  <2>1. PICK d \in Copy : /\ Spare(d)
                          /\ msg' = [msg EXCEPT ![d] = [msg[c] EXCEPT !.at = "dlq"], ![c].at = "nowhere"]
    BY <1>3 DEF GiveUp
  <2>2. d # c /\ pc[d] = "idle" /\ pc' = [pc EXCEPT ![c] = "exhaust"] /\ by' = by
    BY <1>3, <2>1 DEF GiveUp, Spare, Free, Goto
  <2>3. \A b \in Copy : b # d => msg'[b].exe = msg[b].exe
    BY <2>1, <2>2 DEF TypeInv, TypeOK
  <2> QED
    BY <2>2, <2>3 DEF Stays, ExeOf, TypeInv, TypeOK
<1>4. CASE Check(c)
  <2>1. \/ \E m : Leave(c, m)
        \/ UNCHANGED <<msg, by>>
    BY <1>4 DEF Check
  <2> QED
    BY <1>1, <1>4, <2>1 DEF Check, Stays, ExeOf
<1>5. CASE Defer(c)
  <2>1. \/ \E m : Leave(c, m)
        \/ \E m : PublishedTwice(c, m) /\ by' = [by EXCEPT ![c] = NoWorker] /\ pc' = [pc EXCEPT ![c] = "idle"]
    BY <1>5 DEF Defer, Goto
  <2>2. ASSUME NEW m, PublishedTwice(c, m), by' = [by EXCEPT ![c] = NoWorker],
               pc' = [pc EXCEPT ![c] = "idle"]
        PROVE  Stays
    BY <2>2 DEF PublishedTwice, Spare, Free, Stays, ExeOf, TypeInv, TypeOK
  <2> QED
    BY <1>1, <1>5, <2>1, <2>2 DEF Defer
<1>6. CASE TakeSlot(c) \/ TakeRunningLock(c) \/ JobDone(c) \/ BookInternal(c) \/ ReleaseRunningLock(c)
             \/ ReleaseSlot(c)
  BY <1>6 DEF TakeSlot, TakeRunningLock, JobDone, BookInternal, ReleaseRunningLock, ReleaseSlot, Stays, ExeOf
<1> QED
  BY <1>2, <1>3, <1>4, <1>5, <1>6 DEF HandlerStep

LEMMA StepStays == TypeInv /\ Next => Stays
<1> SUFFICES ASSUME TypeInv, Next PROVE Stays
  OBVIOUS
<1>1. ASSUME NEW c \in Copy, JobStep(c) PROVE Stays
  <2>1. CASE JobEndsAlone(c)
    BY <2>1 DEF JobEndsAlone, Stays, ExeOf, TypeInv, TypeOK
  <2> QED
    BY <1>1, <2>1 DEF JobStep, FindRoutine, FinishChild, WriteResult, TouchRoutine, Stays, ExeOf
<1>2. ASSUME NEW c \in Copy, BrokerStep(c) PROVE Stays
  <2>1. ASSUME NEW w \in Worker, Deliver(c, w) PROVE Stays
    BY <2>1 DEF Deliver, Stays, ExeOf, TypeInv, TypeOK
  <2>2. CASE RetryBack(c)
    <3>1. pc[c] \notin {"republish"} /\ pc' = pc /\ msg[c].at = "retry"
      BY <2>2 DEF RetryBack, TypeInv, Shape, Fits
    <3>2. pc[c] = "idle"
      BY <3>1 DEF TypeInv, Shape, Fits
    <3>3. \/ \E m : msg' = [msg EXCEPT ![c] = m]
          \/ \E m : PublishedTwice(c, m)
      BY <2>2 DEF RetryBack
    <3>4. \A d \in Copy : msg'[d] = msg[d] \/ pc[d] = "idle"
      BY <3>2, <3>3 DEF PublishedTwice, Spare, Free, TypeInv, TypeOK
    <3>5. by' = by \/ \E w \in Worker : by' = [by EXCEPT ![c] = w]
      BY <2>2 DEF RetryBack
    <3> QED
      BY <3>1, <3>2, <3>4, <3>5 DEF Stays, ExeOf, TypeInv, TypeOK
  <2>3. CASE TakeReturned(c)
    BY <2>3 DEF TakeReturned, Stays, ExeOf, TypeInv, TypeOK, Shape, Fits
  <2> QED
    BY <1>2, <2>1, <2>2, <2>3 DEF BrokerStep
<1>3. ASSUME NEW c \in Copy, HardTimeout(c) \/ ReopenDead(c) PROVE Stays
  BY <1>3 DEF HardTimeout, ReopenDead, Stays, ExeOf, TypeInv, TypeOK
<1>4. ASSUME NEW c \in Copy, RepublishDead(c) PROVE Stays
  BY <1>4 DEF RepublishDead, Goto, PublishedTwice, Spare, Free, Stays, ExeOf, TypeInv, TypeOK
<1>5. ASSUME NEW w \in Worker, Crash(w) PROVE Stays
  BY <1>5 DEF Crash, Stays, ExeOf
<1>6. ASSUME NEW w \in Worker, LoseChannel(w) PROVE Stays
  <2>0. PICK mine \in SUBSET Copy : \E twin \in [mine -> {c \in Copy : Free(c)}] : LostInto(w, mine, twin)
    BY <1>6, LostChannel
  <2>1. PICK twin \in [mine -> {c \in Copy : Free(c)}] :
           /\ mine = {c \in Copy : by[c] = w /\ Held(c)}
           /\ \A c \in mine : msg'[c] = [msg[c] EXCEPT !.at = "nowhere"]
           /\ \A c \in Copy : c \notin mine /\ (\A d \in mine : twin[d] # c) =>
                msg'[c] = IF by[c] = w /\ msg[c].at = "returned" THEN Blank ELSE msg[c]
    BY <2>0, Zenon DEF LostInto
  <2>2. \A d \in mine : pc[twin[d]] = "idle"
    BY <2>1 DEF Free
  <2>3. \A c \in Copy : msg[c].at = "returned" => pc[c] \in {"idle", "republish"}
    BY DEF TypeInv, Shape, Fits
  <2>4. \A c \in Copy : msg[c].at = "returned" => pc[c] = "idle"
    BY <2>3 DEF TypeInv, Shape, Fits
  <2>5. ASSUME NEW c \in Copy, pc[c] # "idle" PROVE ExeOf(c)' = ExeOf(c) /\ by'[c] = by[c]
    <3>1. msg[c] \in Messages /\ msg[c].at # "returned"
      BY <2>4, <2>5, MessageTypes DEF TypeInv
    <3>2. ExeOf(c)' = ExeOf(c)
      <4>1. CASE c \in mine
        BY <2>1, <3>1, <4>1 DEF ExeOf, Messages
      <4>2. CASE c \notin mine
        BY <2>1, <2>2, <2>5, <3>1, <4>2 DEF ExeOf
      <4> QED
        BY <4>1, <4>2
    <3>3. by'[c] = by[c]
      BY <1>6, <3>1 DEF LoseChannel
    <3> QED
      BY <3>2, <3>3
  <2> QED
    BY <2>5 DEF Stays
<1>7. ASSUME NEW e \in Exe, Cancel(e) \/ Delete(e) \/ LeaseLapses(e) \/ LockExpires(e) \/ OrphanEnds(e)
      PROVE  Stays
  BY <1>7 DEF Cancel, Delete, LeaseLapses, LockExpires, OrphanEnds, Stays, ExeOf
<1> QED
  BY <1>1, <1>2, <1>3, <1>4, <1>5, <1>6, <1>7, HandlerStays DEF Next

\* No step but these four gives a slot or a lock, takes one, or ends its holder; nor
\* does any forget a fault.
Quiet ==
  /\ UNCHANGED <<inflight, running, orphans, settings>>
  /\ \A d \in Copy : (HoldsLock(d)' <=> HoldsLock(d)) /\ (HoldsSlot(d)' <=> HoldsSlot(d))

SlotLabels == {"lock", "await", "book", "unlock", "release"}

LEMMA QuietMove ==
  ASSUME TypeInv, Stays, UNCHANGED <<inflight, running, orphans, settings>>,
         \A d \in Copy : pc'[d] = pc[d] \/ (pc[d] \notin SlotLabels /\ pc'[d] \notin SlotLabels)
  PROVE  Quiet
BY DEF Quiet, HoldsLock, HoldsSlot, Stays, SlotLabels

LEMMA StepIsQuiet ==
  ASSUME TypeInv, Next
  PROVE  \/ \E c \in Copy : TakeSlot(c) \/ TakeRunningLock(c) \/ ReleaseRunningLock(c) \/ ReleaseSlot(c)
         \/ \E w \in Worker : Crash(w)
         \/ \E e \in Exe : LeaseLapses(e) \/ LockExpires(e) \/ OrphanEnds(e)
         \/ Quiet
<1>0. Stays
  BY StepStays
<1>1. ASSUME NEW c \in Copy, JobStep(c) \/ RetryBack(c) \/ TakeReturned(c) PROVE Quiet
  <2>1. UNCHANGED <<inflight, running, orphans, settings, pc>>
    BY <1>1 DEF JobStep, FindRoutine, FinishChild, WriteResult, TouchRoutine, JobEndsAlone, RetryBack,
                TakeReturned
  <2> QED
    BY <1>0, <2>1, QuietMove
<1>2. ASSUME NEW c \in Copy, GiveUp(c) \/ Exhaust(c) \/ Check(c) \/ Defer(c) \/ Settle(c) PROVE Quiet
  <2>1. /\ UNCHANGED <<inflight, running, orphans, settings>> /\ pc[c] \in {"check", "exhaust", "slot", "settle"}
        /\ \E label \in {"exhaust", "idle", "slot"} : pc' = [pc EXCEPT ![c] = label]
    BY <1>2 DEF GiveUp, Exhaust, Check, Defer, Settle, Leave, Goto
  <2> QED
    BY <1>0, <2>1, QuietMove DEF SlotLabels, TypeInv, TypeOK
<1>3. ASSUME NEW c \in Copy, (\E w \in Worker : Deliver(c, w)) \/ ReopenDead(c) \/ RepublishDead(c)
      PROVE  Quiet
  <2>1. /\ UNCHANGED <<inflight, running, orphans, settings>> /\ pc[c] \in {"idle", "republish"}
        /\ \E label \in {"idle", "check", "republish"} : pc' = [pc EXCEPT ![c] = label]
    BY <1>3 DEF Deliver, ReopenDead, RepublishDead, Goto, TypeInv, TypeOK
  <2> QED
    BY <1>0, <2>1, QuietMove DEF SlotLabels, TypeInv, TypeOK
<1>4. ASSUME NEW c \in Copy, JobDone(c) \/ HardTimeout(c) PROVE Quiet
  <2>1. /\ UNCHANGED <<inflight, running, orphans, settings>> /\ pc[c] = "await"
        /\ pc' = [pc EXCEPT ![c] = AfterJob(c)]
    BY <1>4 DEF JobDone, HardTimeout, Goto
  <2>2. \A d \in Copy : pc'[d] # "idle" /\ pc[d] # "idle" => ExeOf(d)' = ExeOf(d)
    BY <1>0 DEF Stays
  <2> QED
    BY <2>1, <2>2 DEF Quiet, HoldsLock, HoldsSlot, AfterJob, TypeInv, TypeOK
<1>5. ASSUME NEW c \in Copy, BookInternal(c) PROVE Quiet
  <2>1. /\ UNCHANGED <<inflight, running, orphans, settings>> /\ pc[c] = "book"
        /\ pc' = [pc EXCEPT ![c] = "release"]
    BY <1>5 DEF BookInternal, Goto
  <2>2. \A d \in Copy : pc'[d] # "idle" /\ pc[d] # "idle" => ExeOf(d)' = ExeOf(d)
    BY <1>0 DEF Stays
  <2> QED
    BY <2>1, <2>2 DEF Quiet, HoldsLock, HoldsSlot, TypeInv, TypeOK
<1>6. ASSUME (\E w \in Worker : LoseChannel(w)) \/ (\E e \in Exe : Cancel(e) \/ Delete(e)) PROVE Quiet
  <2>1. UNCHANGED <<inflight, running, orphans, settings, pc>>
    BY <1>6 DEF LoseChannel, Cancel, Delete
  <2> QED
    BY <1>0, <2>1, QuietMove
<1> QED
  BY <1>1, <1>2, <1>3, <1>4, <1>5, <1>6 DEF Next, HandlerStep, BrokerStep

LEMMA SeenGrows ==
  ASSUME TypeInv, [Next]_vars PROVE faults.seen \subseteq faults'.seen
<1>1. faults \in [left : 0..MaxFaults, seen : SUBSET FaultKinds]
  BY DEF TypeInv, TypeOK
<1>2. ASSUME NEW kind, Fault(kind) PROVE faults.seen \subseteq faults'.seen
  BY <1>1, <1>2, FaultTypes
<1>3. ASSUME NEW c \in Copy, JobStep(c) \/ BrokerStep(c) \/ HardTimeout(c) \/ ReopenDead(c)
                               \/ RepublishDead(c)
      PROVE  faults.seen \subseteq faults'.seen
  BY <1>2, <1>3
  DEF JobStep, FindRoutine, FinishChild, WriteResult, TouchRoutine, JobEndsAlone, BrokerStep, Deliver,
      RetryBack, TakeReturned, HardTimeout, ReopenDead, RepublishDead
<1>4. ASSUME NEW c \in Copy, HandlerStep(c) PROVE faults.seen \subseteq faults'.seen
  BY <1>2, <1>4
  DEF HandlerStep, GiveUp, Exhaust, Check, TakeSlot, Defer, TakeRunningLock, JobDone, BookInternal,
      ReleaseRunningLock, ReleaseSlot, Settle
<1>5. ASSUME NEW w \in Worker, Crash(w) \/ LoseChannel(w) PROVE faults.seen \subseteq faults'.seen
  BY <1>2, <1>5 DEF Crash, LoseChannel
<1>6. ASSUME NEW e \in Exe, Cancel(e) \/ Delete(e) \/ LeaseLapses(e) \/ LockExpires(e) \/ OrphanEnds(e)
      PROVE  faults.seen \subseteq faults'.seen
  BY <1>2, <1>6 DEF Cancel, Delete, LeaseLapses, LockExpires, OrphanEnds
<1> QED
  BY <1>3, <1>4, <1>5, <1>6 DEF Next, vars

\* What has not happened after a step did not happen in it, nor before.
LEMMA NotYet ==
  ASSUME TypeInv, [Next]_vars, NEW K, Without(K)'
  PROVE  Without(K) /\ \A kind \in K : ~Fault(kind)
<1>1. faults \in [left : 0..MaxFaults, seen : SUBSET FaultKinds]
  BY DEF TypeInv, TypeOK
<1>2. \A kind : Fault(kind) => kind \in faults'.seen
  BY <1>1, FaultTypes
<1> QED
  BY <1>2, SeenGrows DEF Without

-----------------------------------------------------------------------------
(* The running lock, as long as Redis answers.                              *)
LockHeld ==
  /\ \A c \in Copy : HoldsLock(c) => running[ExeOf(c)] = by[c]
  /\ \A c, d \in Copy : HoldsLock(c) /\ HoldsLock(d) /\ ExeOf(c) = ExeOf(d) => c = d

LockInv == TypeInv /\ (Without({"redis"}) => LockHeld)

LEMMA StepKeepsLock ==
  ASSUME LockInv, Next, Without({"redis"})' PROVE LockHeld'
<1>0. /\ TypeInv /\ LockHeld /\ Stays /\ ~Fault("redis")
      /\ \A c \in Copy : pc[c] \in PC /\ ExeOf(c) \in Exe
  BY StepStays, NotYet, MessageTypes DEF LockInv, TypeInv, TypeOK, ExeOf
<1>1. ASSUME NEW c \in Copy, TakeRunningLock(c) PROVE LockHeld'
  <2>1. UNCHANGED <<msg, by>> /\ pc[c] = "lock"
    BY <1>1 DEF TakeRunningLock
  <2>2. CASE running' = running /\ Goto(c, "release")
    BY <1>0, <2>1, <2>2 DEF LockHeld, HoldsLock, ExeOf, Goto, TypeInv, TypeOK
  <2>3. CASE running[ExeOf(c)] = NoWorker /\ running' = [running EXCEPT ![ExeOf(c)] = by[c]]
             /\ Goto(c, "await")
    <3>1. \A d \in Copy : HoldsLock(d) => by[d] \in Worker /\ ExeOf(d) # ExeOf(c)
      BY <1>0, <2>3, NoWorkerAssumption DEF LockHeld, HoldsLock, TypeInv, Handled
    <3>2. \A d \in Copy : HoldsLock(d)' => d = c \/ HoldsLock(d)
      BY <2>1, <2>3 DEF HoldsLock, ExeOf, Goto, TypeInv, TypeOK
    <3> QED
      BY <1>0, <2>1, <2>3, <3>1, <3>2 DEF LockHeld, ExeOf, TypeInv, TypeOK
  <2> QED
    BY <1>0, <1>1, <2>2, <2>3 DEF TakeRunningLock
<1>2. ASSUME NEW c \in Copy, ReleaseRunningLock(c) PROVE LockHeld'
  <2>1. /\ UNCHANGED <<msg, by>> /\ pc[c] = "unlock" /\ Goto(c, "release")
        /\ \A e \in Exe : e # ExeOf(c) => running'[e] = running[e]
        /\ running[ExeOf(c)] # by[c] => running'[ExeOf(c)] = running[ExeOf(c)]
    BY <1>0, <1>2 DEF ReleaseRunningLock, TypeInv, TypeOK
  <2>2. \A d \in Copy : HoldsLock(d)' => d # c /\ HoldsLock(d)
    BY <1>0, <2>1 DEF HoldsLock, ExeOf, Goto, TypeInv, TypeOK
  <2>3. CASE ExeOf(c) \notin Internal
    BY <1>0, <2>1, <2>2, <2>3 DEF LockHeld, HoldsLock, ExeOf
  <2>4. CASE ExeOf(c) \in Internal
    BY <1>0, <2>1, <2>2, <2>4 DEF LockHeld, HoldsLock, ExeOf
  <2> QED
    BY <2>3, <2>4
<1>3. ASSUME NEW c \in Copy, TakeSlot(c) \/ ReleaseSlot(c) PROVE LockHeld'
  <2>1. /\ UNCHANGED <<msg, by, running>>
        /\ \A d \in Copy : HoldsLock(d)' => HoldsLock(d)
    BY <1>0, <1>3 DEF TakeSlot, ReleaseSlot, HoldsLock, ExeOf, Goto, TypeInv, TypeOK
  <2> QED
    BY <1>0, <2>1 DEF LockHeld, ExeOf
<1>4. ASSUME NEW w \in Worker, Crash(w) PROVE LockHeld'
  <2>1. /\ UNCHANGED running
        /\ \A d \in Copy : pc'[d] # "idle" => pc'[d] = pc[d] /\ pc[d] # "idle"
    BY <1>4 DEF Crash
  <2>2. \A d \in Copy : HoldsLock(d)' => HoldsLock(d) /\ ExeOf(d)' = ExeOf(d) /\ by'[d] = by[d]
    BY <1>0, <2>1 DEF HoldsLock, Stays
  <2> QED
    BY <1>0, <2>1, <2>2 DEF LockHeld
<1>5. ASSUME NEW e \in Exe, LeaseLapses(e) \/ LockExpires(e) \/ OrphanEnds(e) PROVE LockHeld'
  BY <1>0, <1>5 DEF LeaseLapses, LockExpires, OrphanEnds, LockHeld, HoldsLock, ExeOf, TypeInv, TypeOK
<1>6. CASE Quiet
  <2>1. \A d \in Copy : HoldsLock(d)' => HoldsLock(d) /\ ExeOf(d)' = ExeOf(d) /\ by'[d] = by[d]
    BY <1>0, <1>6 DEF Quiet, Stays, HoldsLock
  <2> QED
    BY <1>0, <1>6, <2>1 DEF Quiet, LockHeld
<1> QED
  BY <1>0, <1>1, <1>2, <1>3, <1>4, <1>5, <1>6, StepIsQuiet

LEMMA LockInvariant == Spec => []LockInv
<1>1. Init => LockInv
  BY InitTypes DEF Init, LockInv, LockHeld, HoldsLock
<1>2. LockInv /\ [Next]_vars => LockInv'
  <2>1. LockInv /\ UNCHANGED vars => LockInv'
    BY DEF vars, LockInv, LockHeld, HoldsLock, ExeOf, Without, TypeInv, TypeOK, Shape, Handled, Fits
  <2> QED
    BY <2>1, StepKeepsLock, StepKeepsTypes DEF LockInv
<1> QED
  BY <1>1, <1>2, PTL DEF Spec

-----------------------------------------------------------------------------
(* A job and its handler, as long as no hard timeout parts them.            *)
JobAwaited == \A c \in Copy : job[c] # "none" => pc[c] = "await"

JobInv == TypeInv /\ (Without({"hardTimeout"}) => JobAwaited)

LEMMA StepKeepsJobs ==
  ASSUME JobInv, Next, Without({"hardTimeout"})' PROVE JobAwaited'
<1>0. TypeInv /\ JobAwaited /\ ~Fault("hardTimeout")
  BY NotYet DEF JobInv
<1>1. ASSUME NEW c \in Copy, JobStep(c) PROVE JobAwaited'
  BY <1>0, <1>1
  DEF JobStep, FindRoutine, FinishChild, WriteResult, TouchRoutine, JobEndsAlone, JobAt, JobAwaited,
      TypeInv, TypeOK
<1>2. ASSUME NEW c \in Copy, GiveUp(c) \/ Exhaust(c) \/ Check(c) \/ Defer(c) \/ Settle(c) PROVE JobAwaited'
  <2>1. /\ job' = job /\ pc[c] # "await" /\ \E label \in PC : pc' = [pc EXCEPT ![c] = label]
    BY <1>2 DEF GiveUp, Exhaust, Check, Defer, Settle, Leave, Goto, PC
  <2> QED
    BY <1>0, <2>1 DEF JobAwaited, TypeInv, TypeOK
<1>3. ASSUME NEW c \in Copy, TakeSlot(c) \/ TakeRunningLock(c) \/ JobDone(c) \/ BookInternal(c)
                               \/ ReleaseRunningLock(c) \/ ReleaseSlot(c)
      PROVE  JobAwaited'
  BY <1>0, <1>3 DEF TakeSlot, TakeRunningLock, JobDone, BookInternal, ReleaseRunningLock, ReleaseSlot,
                    Goto, JobAt, JobAwaited, TypeInv, TypeOK
<1>4. ASSUME NEW c \in Copy, BrokerStep(c) \/ ReopenDead(c) \/ RepublishDead(c) PROVE JobAwaited'
  BY <1>0, <1>4 DEF BrokerStep, Deliver, RetryBack, TakeReturned, ReopenDead, RepublishDead, Goto,
                    JobAwaited, TypeInv, TypeOK
<1>5. ASSUME NEW c \in Copy, HardTimeout(c) PROVE JobAwaited'
  BY <1>0, <1>5 DEF HardTimeout
<1>6. ASSUME NEW w \in Worker, Crash(w) \/ LoseChannel(w) PROVE JobAwaited'
  BY <1>0, <1>6 DEF Crash, LoseChannel, JobAwaited
<1>7. ASSUME NEW e \in Exe, Cancel(e) \/ Delete(e) PROVE JobAwaited'
  BY <1>0, <1>7 DEF Cancel, Delete, KillChild, JobAwaited
<1>8. ASSUME NEW e \in Exe, LeaseLapses(e) \/ LockExpires(e) \/ OrphanEnds(e) PROVE JobAwaited'
  BY <1>0, <1>8 DEF LeaseLapses, LockExpires, OrphanEnds, JobAwaited
<1> QED
  BY <1>1, <1>2, <1>3, <1>4, <1>5, <1>6, <1>7, <1>8 DEF Next, HandlerStep

LEMMA JobInvariant == Spec => []JobInv
<1>1. Init => JobInv
  BY InitTypes DEF Init, JobInv, JobAwaited
<1>2. JobInv /\ [Next]_vars => JobInv'
  <2>1. JobInv /\ UNCHANGED vars => JobInv'
    BY DEF vars, JobInv, JobAwaited, Without, TypeInv, TypeOK, Shape, Handled, Fits
  <2> QED
    BY <2>1, StepKeepsJobs, StepKeepsTypes DEF JobInv
<1> QED
  BY <1>1, <1>2, PTL DEF Spec

-----------------------------------------------------------------------------
(* What a dead worker left behind is still locked, and nobody has that lock. *)
OrphansApart ==
  \A e \in orphans : running[e] # NoWorker /\ \A c \in Copy : HoldsLock(c) => ExeOf(c) # e

OrphanInv == LockInv /\ JobInv /\ (Without({"hardTimeout", "redis"}) => OrphansApart)

LEMMA StepKeepsOrphans ==
  ASSUME OrphanInv, Next, Without({"hardTimeout", "redis"})' PROVE OrphansApart'
<1>0. /\ TypeInv /\ LockHeld /\ JobAwaited /\ Stays /\ OrphansApart /\ ~Fault("redis")
      /\ orphans \subseteq Exe \ Internal
      /\ \A c \in Copy : pc[c] \in PC /\ ExeOf(c) \in Exe
  <2>1. Without({"hardTimeout", "redis"}) /\ ~Fault("redis")
    BY NotYet DEF OrphanInv, LockInv
  <2>2. Without({"redis"}) /\ Without({"hardTimeout"})
    BY <2>1 DEF Without
  <2> QED
    BY <2>1, <2>2, StepStays, MessageTypes DEF OrphanInv, LockInv, JobInv, TypeInv, TypeOK, ExeOf
<1>1. ASSUME NEW c \in Copy, TakeRunningLock(c) PROVE OrphansApart'
  <2>1. UNCHANGED <<msg, by, orphans>> /\ pc[c] = "lock"
    BY <1>1 DEF TakeRunningLock
  <2>2. CASE running' = running /\ Goto(c, "release")
    BY <1>0, <2>1, <2>2 DEF OrphansApart, HoldsLock, ExeOf, Goto, TypeInv, TypeOK
  <2>3. CASE running[ExeOf(c)] = NoWorker /\ running' = [running EXCEPT ![ExeOf(c)] = by[c]]
             /\ Goto(c, "await")
    <3>1. ExeOf(c) \notin orphans
      BY <1>0, <2>3 DEF OrphansApart
    <3> QED
      BY <1>0, <2>1, <2>3, <3>1 DEF OrphansApart, HoldsLock, ExeOf, Goto, TypeInv, TypeOK
  <2> QED
    BY <1>0, <1>1, <2>2, <2>3 DEF TakeRunningLock
<1>2. ASSUME NEW c \in Copy, ReleaseRunningLock(c) PROVE OrphansApart'
  <2>1. /\ UNCHANGED <<msg, by, orphans>> /\ pc[c] = "unlock" /\ Goto(c, "release")
        /\ \A e \in Exe : e # ExeOf(c) => running'[e] = running[e]
    BY <1>0, <1>2 DEF ReleaseRunningLock, TypeInv, TypeOK
  <2>2. ExeOf(c) \notin orphans
    BY <1>0, <2>1 DEF OrphansApart, HoldsLock
  <2> QED
    BY <1>0, <2>1, <2>2 DEF OrphansApart, HoldsLock, ExeOf, Goto, TypeInv, TypeOK
<1>3. ASSUME NEW c \in Copy, TakeSlot(c) \/ ReleaseSlot(c) PROVE OrphansApart'
  <2>1. /\ UNCHANGED <<msg, running, orphans>>
        /\ \A d \in Copy : HoldsLock(d)' => HoldsLock(d)
    BY <1>0, <1>3 DEF TakeSlot, ReleaseSlot, HoldsLock, ExeOf, Goto, TypeInv, TypeOK
  <2> QED
    BY <1>0, <2>1 DEF OrphansApart, ExeOf
<1>4. ASSUME NEW w \in Worker, Crash(w) PROVE OrphansApart'
  <2>1. /\ UNCHANGED running
        /\ \A d \in Copy : pc'[d] # "idle" => pc'[d] = pc[d] /\ pc[d] # "idle" /\ by[d] # w
    BY <1>4 DEF Crash
  <2>2. \A d \in Copy : HoldsLock(d)' => HoldsLock(d) /\ ExeOf(d)' = ExeOf(d) /\ by[d] # w
    BY <1>0, <2>1 DEF HoldsLock, Stays
  <2>3. ASSUME NEW e \in orphans', e \notin orphans
        PROVE  \E c \in Copy : HoldsLock(c) /\ ExeOf(c) = e /\ by[c] = w
    BY <1>0, <1>4, <2>3 DEF Crash, HoldsLock, JobAwaited
  <2>4. ASSUME NEW e \in orphans', e \notin orphans
        PROVE  running[e] # NoWorker /\ \A d \in Copy : HoldsLock(d)' => ExeOf(d)' # e
    BY <1>0, <2>2, <2>3, <2>4, NoWorkerAssumption DEF LockHeld
  <2> QED
    BY <1>0, <2>1, <2>2, <2>4 DEF OrphansApart
<1>5. ASSUME NEW e \in Exe, LeaseLapses(e) \/ LockExpires(e) \/ OrphanEnds(e) PROVE OrphansApart'
  BY <1>0, <1>5 DEF LeaseLapses, LockExpires, OrphanEnds, OrphansApart, HoldsLock, ExeOf, TypeInv, TypeOK
<1>6. CASE Quiet
  <2>1. \A d \in Copy : HoldsLock(d)' => HoldsLock(d) /\ ExeOf(d)' = ExeOf(d)
    BY <1>0, <1>6 DEF Quiet, Stays, HoldsLock
  <2> QED
    BY <1>0, <1>6, <2>1 DEF Quiet, OrphansApart
<1> QED
  BY <1>0, <1>1, <1>2, <1>3, <1>4, <1>5, <1>6, StepIsQuiet

LEMMA OrphanInvariant == Spec => []OrphanInv
<1>1. Init => (Without({"hardTimeout", "redis"}) => OrphansApart)
  BY DEF Init, OrphansApart
<1>2. OrphanInv /\ [Next]_vars => (Without({"hardTimeout", "redis"}) => OrphansApart)'
  <2>1. OrphanInv /\ UNCHANGED vars => (Without({"hardTimeout", "redis"}) => OrphansApart)'
    BY DEF vars, OrphanInv, OrphansApart, HoldsLock, ExeOf, Without
  <2> QED
    BY <2>1, StepKeepsOrphans
<1>3. Spec => [](LockInv /\ JobInv)
  BY LockInvariant, JobInvariant, PTL
<1> QED
  BY <1>1, <1>2, <1>3, PTL DEF Spec, OrphanInv

\* One routine never runs twice at a time, whoever holds its messages, nor beside the
\* child of a worker that died, while the lock of that one lives: until a hard timeout
\* gives the running lock back under its run, or Redis does not answer.
THEOREM RunningLockExcludes == Spec => []RunsAlone
<1>1. OrphanInv => RunsAlone
  <2> SUFFICES ASSUME OrphanInv, Without({"hardTimeout", "redis"}),
                      NEW c \in Copy, NEW d \in Copy, Executing(c), Executing(d), ExeOf(c) = ExeOf(d),
                      ExeOf(c) \notin Internal
               PROVE  c = d /\ ExeOf(c) \notin orphans
    BY DEF RunsAlone
  <2>1. Without({"redis"}) /\ Without({"hardTimeout"})
    BY DEF Without
  <2>2. HoldsLock(c) /\ HoldsLock(d)
    BY <2>1 DEF OrphanInv, JobInv, JobAwaited, Executing, HoldsLock
  <2> QED
    BY <2>1, <2>2 DEF OrphanInv, LockInv, LockHeld, OrphansApart
<1> QED
  BY <1>1, OrphanInvariant, PTL

-----------------------------------------------------------------------------
(* Nothing leaks.                                                           *)
SlotsHeld == \A e \in Exe : e \in inflight => \E c \in Copy : HoldsSlot(c) /\ ExeOf(c) = e
LocksHeld == \A e \in Exe : running[e] # NoWorker => \E c \in Copy : HoldsLock(c) /\ ExeOf(c) = e
LocksForRoutines == \A c \in Copy : pc[c] = "lock" => ExeOf(c) \notin Internal

LeakInv == LockInv /\ LocksForRoutines /\ NothingLeaks

LEMMA StepKeepsLocksForRoutines ==
  ASSUME TypeInv, LocksForRoutines, Next PROVE LocksForRoutines'
<1>1. ASSUME NEW c \in Copy, TakeSlot(c) PROVE LocksForRoutines'
  BY <1>1 DEF TakeSlot, Goto, LocksForRoutines, ExeOf, TypeInv, TypeOK
<1>2. ASSUME ~\E c \in Copy : TakeSlot(c) PROVE \A c \in Copy : pc'[c] = "lock" => pc[c] = "lock"
  <2>1. ASSUME NEW c \in Copy, JobStep(c) \/ HandlerStep(c) \/ BrokerStep(c) \/ HardTimeout(c)
                                 \/ ReopenDead(c) \/ RepublishDead(c)
        PROVE  pc' = pc \/ \E label \in PC \ {"lock"} : pc' = [pc EXCEPT ![c] = label]
    <3>1. CASE JobStep(c) \/ BrokerStep(c) \/ HardTimeout(c) \/ ReopenDead(c) \/ RepublishDead(c)
      BY <3>1 DEF JobStep, FindRoutine, FinishChild, WriteResult, TouchRoutine, JobEndsAlone, BrokerStep,
                  Deliver, RetryBack, TakeReturned, HardTimeout, AfterJob, ReopenDead, RepublishDead,
                  Goto, PC
    <3>2. CASE HandlerStep(c)
      BY <1>2, <3>2 DEF HandlerStep, GiveUp, Exhaust, Check, Defer, TakeRunningLock, JobDone, AfterJob,
                        BookInternal, ReleaseRunningLock, ReleaseSlot, Settle, Leave, Goto, PC
    <3> QED
      BY <2>1, <3>1, <3>2
  <2>2. ASSUME \/ \E w \in Worker : Crash(w) \/ LoseChannel(w)
               \/ \E e \in Exe : Cancel(e) \/ Delete(e) \/ LeaseLapses(e) \/ LockExpires(e) \/ OrphanEnds(e)
        PROVE  \A c \in Copy : pc'[c] = "lock" => pc[c] = "lock"
    BY <2>2 DEF Crash, LoseChannel, Cancel, Delete, LeaseLapses, LockExpires, OrphanEnds
  <2>3. ASSUME NEW c \in Copy, NEW label \in PC \ {"lock"}, pc' = [pc EXCEPT ![c] = label]
        PROVE  \A d \in Copy : pc'[d] = "lock" => pc[d] = "lock"
    BY <2>3 DEF TypeInv, TypeOK
  <2> QED
    BY <2>1, <2>2, <2>3 DEF Next
<1> QED
  BY <1>1, <1>2, StepStays DEF LocksForRoutines, Stays

LEMMA StepLeaksNothing ==
  ASSUME LeakInv, Next, Without({"crash", "redis"})'
  PROVE  SlotsHeld' /\ LocksHeld'
<1>0. /\ TypeInv /\ Stays /\ LockHeld /\ ~Fault("redis") /\ ~Fault("crash")
  <2>1. Without({"redis"})
    BY NotYet DEF Without, LeakInv, LockInv
  <2> QED
    BY <2>1, StepStays, NotYet DEF LeakInv, LockInv
<1>1. SlotsHeld /\ LocksHeld
  BY NotYet DEF LeakInv, LockInv, NothingLeaks, SlotsHeld, LocksHeld
<1>2. ASSUME NEW c \in Copy, TakeSlot(c) PROVE SlotsHeld' /\ LocksHeld'
  <2>1. /\ UNCHANGED <<msg, running>> /\ inflight' = inflight \cup {ExeOf(c)}
        /\ HoldsSlot(c)' /\ \A d \in Copy : (HoldsSlot(d) => HoldsSlot(d)') /\ (HoldsLock(d) => HoldsLock(d)')
    BY <1>0, <1>2 DEF TakeSlot, Goto, HoldsSlot, HoldsLock, ExeOf, TypeInv, TypeOK
  <2> QED
    BY <1>0, <1>1, <2>1 DEF ExeOf, TypeInv, TypeOK, SlotsHeld, LocksHeld
<1>3. ASSUME NEW c \in Copy, TakeRunningLock(c) PROVE SlotsHeld' /\ LocksHeld'
  <2>1. /\ UNCHANGED <<msg, inflight>> /\ pc[c] = "lock"
        /\ \A d \in Copy : (HoldsSlot(d) => HoldsSlot(d)') /\ (HoldsLock(d) => HoldsLock(d)')
    BY <1>0, <1>3 DEF TakeRunningLock, Goto, HoldsSlot, HoldsLock, ExeOf, TypeInv, TypeOK
  <2>2. CASE running' = running
    BY <1>0, <1>1, <2>1, <2>2 DEF ExeOf, TypeInv, TypeOK, SlotsHeld, LocksHeld
  <2>3. CASE running' = [running EXCEPT ![ExeOf(c)] = by[c]] /\ Goto(c, "await")
    <3>1. \A e \in Exe : e # ExeOf(c) => running'[e] = running[e]
      BY <1>0, <2>3 DEF TypeInv, TypeOK
    <3>2. ExeOf(c)' = ExeOf(c) /\ (ExeOf(c) \notin Internal => HoldsLock(c)')
      BY <1>0, <2>1, <2>3 DEF HoldsLock, ExeOf, Goto, TypeInv, TypeOK
    <3>3. ExeOf(c) \notin Internal
      BY <2>1 DEF LeakInv, LocksForRoutines
    <3> QED
      BY <1>0, <1>1, <2>1, <3>1, <3>2, <3>3 DEF ExeOf, TypeInv, TypeOK, SlotsHeld, LocksHeld
  <2> QED
    BY <1>0, <1>3, <2>2, <2>3 DEF TakeRunningLock
<1>4. ASSUME NEW c \in Copy, ReleaseRunningLock(c) PROVE SlotsHeld' /\ LocksHeld'
  <2>1. /\ UNCHANGED <<msg, inflight>> /\ pc[c] = "unlock" /\ Goto(c, "release")
        /\ running' = [running EXCEPT ![ExeOf(c)] = IF @ = by[c] THEN NoWorker ELSE @]
    BY <1>0, <1>4 DEF ReleaseRunningLock
  <2>2. \A d \in Copy : (HoldsSlot(d) => HoldsSlot(d)') /\ (HoldsLock(d) /\ d # c => HoldsLock(d)')
    BY <1>0, <2>1 DEF Goto, HoldsSlot, HoldsLock, ExeOf, TypeInv, TypeOK
  <2>3. ExeOf(c) \notin Internal => running'[ExeOf(c)] = NoWorker
    BY <1>0, <2>1 DEF LockHeld, HoldsLock, TypeInv, TypeOK, ExeOf
  <2>4. \A e \in Exe : running'[e] # NoWorker => running[e] # NoWorker
    BY <1>0, <2>1 DEF TypeInv, TypeOK
  <2>5. ASSUME NEW e \in Exe, running'[e] # NoWorker PROVE \E d \in Copy : HoldsLock(d)' /\ ExeOf(d)' = e
    <3>1. PICK d \in Copy : HoldsLock(d) /\ ExeOf(d) = e
      BY <1>1, <2>4, <2>5 DEF SlotsHeld, LocksHeld
    <3>2. d # c
      BY <2>3, <2>5, <3>1 DEF HoldsLock
    <3> QED
      BY <2>1, <2>2, <3>1, <3>2 DEF ExeOf
  <2>6. SlotsHeld'
    BY <1>0, <1>1, <2>1, <2>2 DEF ExeOf, TypeInv, TypeOK, SlotsHeld, LocksHeld
  <2> QED
    BY <2>5, <2>6 DEF LocksHeld
<1>5. ASSUME NEW c \in Copy, ReleaseSlot(c) PROVE SlotsHeld' /\ LocksHeld'
  <2>1. /\ UNCHANGED <<msg, running>> /\ pc[c] = "release" /\ Goto(c, "settle")
        /\ inflight' = inflight \ {ExeOf(c)}
    BY <1>0, <1>5 DEF ReleaseSlot
  <2>2. \A d \in Copy : (HoldsSlot(d) /\ d # c => HoldsSlot(d)') /\ (HoldsLock(d) => HoldsLock(d)')
    BY <1>0, <2>1 DEF Goto, HoldsSlot, HoldsLock, ExeOf, TypeInv, TypeOK
  <2> QED
    BY <1>0, <1>1, <2>1, <2>2 DEF ExeOf, TypeInv, TypeOK, SlotsHeld, LocksHeld
<1>6. ASSUME NEW e \in Exe, LeaseLapses(e) \/ LockExpires(e) \/ OrphanEnds(e)
      PROVE  SlotsHeld' /\ LocksHeld'
  <2>1. /\ UNCHANGED <<msg, pc>> /\ inflight' \subseteq inflight
        /\ \A x \in Exe : running'[x] # NoWorker => running[x] # NoWorker
    BY <1>0, <1>6 DEF LeaseLapses, LockExpires, OrphanEnds, TypeInv, TypeOK
  <2> QED
    BY <1>0, <1>1, <2>1 DEF HoldsSlot, HoldsLock, ExeOf, TypeInv, TypeOK, SlotsHeld, LocksHeld
<1>7. CASE Quiet
  <2>1. \A d \in Copy : /\ HoldsSlot(d) => HoldsSlot(d)' /\ ExeOf(d)' = ExeOf(d)
                        /\ HoldsLock(d) => HoldsLock(d)' /\ ExeOf(d)' = ExeOf(d)
    BY <1>0, <1>7 DEF Quiet, Stays, HoldsLock, HoldsSlot
  <2> QED
    BY <1>0, <1>1, <1>7, <2>1 DEF Quiet, TypeInv, TypeOK, SlotsHeld, LocksHeld
<1>8. ASSUME NEW w \in Worker, Crash(w) PROVE FALSE
  BY <1>0, <1>8 DEF Crash
<1> QED
  BY <1>0, <1>2, <1>3, <1>4, <1>5, <1>6, <1>7, <1>8, StepIsQuiet

LEMMA LeakInvariant == Spec => []LeakInv
<1>1. Init => LeakInv
  BY InitTypes DEF Init, LeakInv, LocksForRoutines, LockInv, LockHeld, HoldsLock, NothingLeaks
<1>2. LeakInv /\ [Next]_vars => LeakInv'
  <2>1. LeakInv /\ UNCHANGED vars => LeakInv'
    BY DEF vars, LeakInv, LocksForRoutines, LockInv, LockHeld, NothingLeaks, HoldsLock, HoldsSlot, ExeOf, Without, TypeInv,
           TypeOK, Shape, Handled, Fits
  <2>2. LeakInv /\ Next => NothingLeaks'
    BY StepLeaksNothing DEF NothingLeaks, SlotsHeld, LocksHeld
  <2>3. LeakInv /\ Next => LockInv'
    BY StepKeepsLock, StepKeepsTypes DEF LeakInv, LockInv
  <2>4. LeakInv /\ Next => LocksForRoutines'
    BY StepKeepsLocksForRoutines DEF LeakInv, LockInv
  <2> QED
    BY <2>1, <2>2, <2>3, <2>4 DEF LeakInv
<1> QED
  BY <1>1, <1>2, PTL DEF Spec

\* Slots and running locks do not leak, but by a crash or a Redis that does not answer.
THEOREM NoLeaks == Spec => []NothingLeaks
BY LeakInvariant, PTL DEF LeakInv

-----------------------------------------------------------------------------
(* The slots.                                                               *)
SlotsCounted == IsFiniteSet(inflight) /\ Cardinality(inflight) <= settings.slots

SlotCountInv == TypeInv /\ SlotsCounted

LEMMA StepKeepsCount == SlotCountInv /\ [Next]_vars => SlotCountInv'
<1> SUFFICES ASSUME SlotCountInv, [Next]_vars PROVE SlotCountInv'
  OBVIOUS
<1>0. TypeInv /\ TypeInv' /\ SlotsCounted /\ settings.slots \in Nat
  BY StepKeepsTypes, SettingsTypes DEF SlotCountInv, TypeInv
<1>1. ASSUME NEW c \in Copy, TakeSlot(c) PROVE SlotsCounted'
  <2>1. /\ Cardinality(inflight) < settings.slots /\ Cardinality(inflight) \in Nat
        /\ inflight' = inflight \cup {ExeOf(c)} /\ settings' = settings
    BY <1>0, <1>1, FS_CardinalityType DEF TakeSlot, SlotsCounted
  <2> QED
    BY <1>0, <2>1, FS_AddElement DEF SlotsCounted
<1>2. ASSUME NEW e, inflight' = inflight \ {e}, settings' = settings PROVE SlotsCounted'
  <2>1. Cardinality(inflight) \in Nat
    BY <1>0, FS_CardinalityType DEF SlotsCounted
  <2> QED
    BY <1>0, <1>2, <2>1, FS_RemoveElement DEF SlotsCounted
<1>3. ASSUME NEW c \in Copy, ReleaseSlot(c) PROVE SlotsCounted'
  <2>1. settings' = settings /\ (inflight' = inflight \/ inflight' = inflight \ {ExeOf(c)})
    BY <1>3 DEF ReleaseSlot
  <2> QED
    BY <1>0, <1>2, <2>1 DEF SlotsCounted
<1>4. ASSUME NEW e \in Exe, LeaseLapses(e) PROVE SlotsCounted'
  BY <1>2, <1>4 DEF LeaseLapses
<1>5. inflight' = inflight /\ settings' = settings => SlotsCounted'
  BY <1>0 DEF SlotsCounted
<1>6. CASE Next
  <2>1. \/ \E c \in Copy : TakeSlot(c) \/ ReleaseSlot(c)
        \/ \E e \in Exe : LeaseLapses(e)
        \/ inflight' = inflight /\ settings' = settings
    <3>1. (\E c \in Copy : TakeRunningLock(c) \/ ReleaseRunningLock(c)) =>
            inflight' = inflight /\ settings' = settings
      BY DEF TakeRunningLock, ReleaseRunningLock
    <3>2. (\E w \in Worker : Crash(w)) \/ (\E e \in Exe : LockExpires(e) \/ OrphanEnds(e)) \/ Quiet =>
            inflight' = inflight /\ settings' = settings
      BY DEF Crash, LockExpires, OrphanEnds, Quiet
    <3> QED
      BY <1>0, <1>6, <3>1, <3>2, StepIsQuiet
  <2> QED
    BY <1>0, <1>1, <1>3, <1>4, <1>5, <2>1 DEF SlotCountInv
<1>7. CASE UNCHANGED vars
  <2>1. inflight' = inflight /\ settings' = settings
    BY <1>7 DEF vars
  <2> QED
    BY <1>0, <1>5, <2>1 DEF SlotCountInv
<1> QED
  BY <1>0, <1>6, <1>7 DEF SlotCountInv

\* Every message is there once: no other copy of it waits or is handled.
InUse(c) == msg[c].at # "nowhere" \/ pc[c] \notin {"idle", "exhaust"}
OneCopy == \A c, d \in Copy : InUse(c) /\ InUse(d) /\ ExeOf(c) = ExeOf(d) => c = d

\* Who holds a slot is a member of the tenant's ZSET.
SlotsKept == \A c \in Copy : HoldsSlot(c) => ExeOf(c) \in inflight

Multiplying == {"channel", "buffer"}

CopyInv == JobInv /\ (Without(Multiplying) => OneCopy)
BoundInv == CopyInv /\ (Without(Multiplying \cup {"lapse"}) => SlotsKept)

\* A copy goes on as itself or as one that was not in use.
LEMMA StillOneCopy ==
  ASSUME OneCopy, NEW c \in Copy, NEW d \in Copy, ~InUse(d) \/ d = c,
         \A b \in Copy : InUse(b)' /\ b # d => b # c /\ InUse(b) /\ ExeOf(b)' = ExeOf(b),
         InUse(d)' => InUse(c) /\ ExeOf(d)' = ExeOf(c)
  PROVE  OneCopy'
BY DEF OneCopy

\* Nothing comes into use.
LEMMA NoNewCopy ==
  ASSUME OneCopy, \A b \in Copy : InUse(b)' => InUse(b) /\ ExeOf(b)' = ExeOf(b)
  PROVE  OneCopy'
BY DEF OneCopy

LEMMA LeaveKeepsOneCopy ==
  ASSUME TypeInv, OneCopy, NEW c \in Copy, pc[c] # "idle",
         NEW m \in {Blank, InQueue(c, "main"), InQueue(c, "retry"),
                    [InQueue(c, "retry") EXCEPT !.deferred = Held(c)]}, Leave(c, m)
  PROVE  OneCopy'
<1>0. pc' = [pc EXCEPT ![c] = "idle"] /\ \A b \in Copy \ {c} : pc'[b] = pc[b]
  BY DEF Leave, Goto, TypeInv, TypeOK
<1>1. m.at = "nowhere" \/ (Held(c) /\ m.exe = ExeOf(c))
  <2>1. msg[c] \in Messages /\ Blank.at = "nowhere"
    BY MessageTypes DEF TypeInv, Blank
  <2>2. CASE Held(c)
    BY <2>1, <2>2 DEF InQueue, Messages, ExeOf
  <2>3. CASE ~Held(c)
    BY <2>1, <2>3 DEF InQueue, Blank
  <2> QED
    BY <2>2, <2>3
<1>2. msg[c] \in Messages /\ msg \in [Copy -> Messages] /\ Blank.at = "nowhere"
  BY MessageTypes DEF TypeInv, Blank
<1>3. CASE msg' = [msg EXCEPT ![c] = m]
  <2>1. \A b \in Copy : InUse(b)' => InUse(b) /\ ExeOf(b)' = ExeOf(b)
    BY <1>0, <1>1, <1>3 DEF InUse, Held, ExeOf, TypeInv, TypeOK
  <2> QED
    BY <2>1, NoNewCopy
<1>4. CASE msg' = [msg EXCEPT ![c].at = "nowhere"]
  <2>1. \A b \in Copy : InUse(b)' => InUse(b) /\ ExeOf(b)' = ExeOf(b)
    BY <1>0, <1>2, <1>4 DEF InUse, ExeOf, TypeInv, TypeOK
  <2> QED
    BY <2>1, NoNewCopy
<1>5. ASSUME NEW d \in Copy, Spare(d), msg' = [msg EXCEPT ![d] = m, ![c].at = "nowhere"]
      PROVE  OneCopy'
  <2>1. d # c /\ ~InUse(d) /\ pc[d] = "idle"
    BY <1>2, <1>5 DEF Spare, Free, InUse
  <2>2. /\ msg'[c].at = "nowhere" /\ msg'[d] = m /\ \A b \in Copy \ {c, d} : msg'[b] = msg[b]
    BY <1>2, <1>5, <2>1
  <2>3. ~InUse(c)' /\ (InUse(d)' => m.at # "nowhere")
    BY <1>0, <2>1, <2>2 DEF InUse, TypeInv, TypeOK
  <2>4. InUse(d)' => InUse(c) /\ ExeOf(d)' = ExeOf(c)
    BY <1>1, <2>2, <2>3 DEF InUse, Held, ExeOf
  <2>5. \A b \in Copy : InUse(b)' /\ b # d => b # c /\ InUse(b) /\ ExeOf(b)' = ExeOf(b)
    BY <1>0, <2>2, <2>3 DEF InUse, ExeOf
  <2> QED
    BY <2>1, <2>4, <2>5, StillOneCopy
<1> QED
  BY <1>3, <1>4, <1>5 DEF Leave

LEMMA StepKeepsOneCopy ==
  ASSUME CopyInv, Next, Without(Multiplying)' PROVE OneCopy'
<1>0. /\ TypeInv /\ OneCopy /\ Stays
      /\ ~Fault("channel") /\ ~Fault("buffer")
  BY NotYet, StepStays DEF CopyInv, JobInv, Multiplying
<1>1. ASSUME NEW c \in Copy, JobStep(c) PROVE OneCopy'
  <2>1. UNCHANGED pc /\ (msg' = msg \/ msg' = [msg EXCEPT ![c] = Blank]) /\ Blank.at = "nowhere"
    BY <1>1 DEF JobStep, FindRoutine, FinishChild, WriteResult, TouchRoutine, JobEndsAlone, Blank
  <2>2. CASE JobEndsAlone(c) /\ pc[c] = "idle"
    BY <1>0, <2>1, <2>2, NoNewCopy DEF JobEndsAlone, InUse, ExeOf, TypeInv, TypeOK
  <2>3. CASE msg' = msg
    BY <1>0, <2>1, <2>3 DEF OneCopy, InUse, ExeOf
  <2> QED
    BY <1>1, <2>2, <2>3
    DEF JobStep, FindRoutine, FinishChild, WriteResult, TouchRoutine, JobEndsAlone
<1>2. ASSUME NEW c \in Copy, Exhaust(c) \/ Check(c) \/ Defer(c) \/ Settle(c) PROVE OneCopy'
  <2>1. pc[c] # "idle"
    BY <1>2 DEF Exhaust, Check, Defer, Settle
  <2>2. CASE UNCHANGED msg /\ pc[c] = "check" /\ Goto(c, "slot")
    BY <1>0, <2>2 DEF OneCopy, InUse, ExeOf, Goto, TypeInv, TypeOK
  <2>3. \/ UNCHANGED msg /\ pc[c] = "check" /\ Goto(c, "slot")
        \/ \E m \in {Blank, InQueue(c, "main"), InQueue(c, "retry"),
                     [InQueue(c, "retry") EXCEPT !.deferred = Held(c)]} : Leave(c, m)
    <3>1. CASE Exhaust(c) \/ Check(c)
      BY <3>1 DEF Exhaust, Check
    <3>2. CASE Defer(c)
      BY <1>0, <3>2 DEF Defer
    <3>3. CASE Settle(c)
      <4>1. outcome[c] \in {"ack", "discard"}
        BY <1>0 DEF TypeInv, TypeOK, Outcome
      <4> QED
        BY <3>3, <4>1 DEF Settle
    <3> QED
      BY <1>2, <3>1, <3>2, <3>3
  <2> QED
    BY <1>0, <2>1, <2>2, <2>3, LeaveKeepsOneCopy
<1>3. ASSUME NEW c \in Copy, GiveUp(c) PROVE OneCopy'
  <2>1. PICK d \in Copy : /\ Spare(d)
                          /\ msg' = [msg EXCEPT ![d] = [msg[c] EXCEPT !.at = "dlq"], ![c].at = "nowhere"]
    BY <1>3 DEF GiveUp
  <2>2. d # c /\ ~InUse(d) /\ InUse(c) /\ pc' = [pc EXCEPT ![c] = "exhaust"]
    <3>1. msg[d] = Blank /\ pc[d] = "idle" /\ Blank.at = "nowhere"
      BY <2>1 DEF Spare, Free, Blank
    <3>2. pc[c] = "check" /\ pc' = [pc EXCEPT ![c] = "exhaust"]
      BY <1>3 DEF GiveUp, Goto
    <3> QED
      BY <3>1, <3>2 DEF InUse
  <2>3. msg[c] \in Messages /\ msg \in [Copy -> Messages]
    BY <1>0, MessageTypes DEF TypeInv
  <2>4. msg'[c].at = "nowhere" /\ msg'[d].exe = msg[c].exe
        /\ \A b \in Copy \ {c, d} : msg'[b] = msg[b]
    BY <2>1, <2>2, <2>3 DEF Messages
  <2>5. \A b \in Copy \ {c} : pc'[b] = pc[b]
    BY <1>0, <2>2 DEF TypeInv, TypeOK
  <2>6. ~InUse(c)'
    BY <1>0, <2>2, <2>4 DEF InUse, TypeInv, TypeOK
  <2>7. \A b \in Copy : InUse(b)' /\ b # d => b # c /\ InUse(b) /\ ExeOf(b)' = ExeOf(b)
    BY <2>4, <2>5, <2>6 DEF InUse, ExeOf
  <2>8. InUse(d)' => InUse(c) /\ ExeOf(d)' = ExeOf(c)
    BY <2>2, <2>4 DEF ExeOf
  <2> QED
    BY <1>0, <2>2, <2>7, <2>8, StillOneCopy
<1>4. ASSUME NEW c \in Copy, TakeSlot(c) \/ TakeRunningLock(c) \/ JobDone(c) \/ BookInternal(c)
                               \/ ReleaseRunningLock(c) \/ ReleaseSlot(c)
      PROVE  OneCopy'
  <2>1. UNCHANGED msg /\ pc[c] \notin {"idle", "exhaust"}
        /\ \E label \in PC : pc' = [pc EXCEPT ![c] = label]
    BY <1>4 DEF TakeSlot, TakeRunningLock, JobDone, AfterJob, BookInternal, ReleaseRunningLock,
                ReleaseSlot, Goto, PC
  <2> QED
    BY <1>0, <2>1, NoNewCopy DEF InUse, ExeOf, TypeInv, TypeOK
<1>5. ASSUME NEW c \in Copy, BrokerStep(c) PROVE OneCopy'
  <2>1. ASSUME NEW w \in Worker, Deliver(c, w) PROVE OneCopy'
    BY <1>0, <2>1, NoNewCopy DEF Deliver, Goto, InUse, ExeOf, TypeInv, TypeOK
  <2>2. CASE RetryBack(c) \/ TakeReturned(c)
    <3>1. /\ UNCHANGED pc /\ msg[c].at # "nowhere"
          /\ \E m : msg' = [msg EXCEPT ![c] = m] /\ m.exe = ExeOf(c)
      <4>1. CASE RetryBack(c)
        BY <1>0, <4>1 DEF RetryBack
      <4>2. CASE TakeReturned(c)
        <5>1. msg[c] \in Messages /\ msg \in [Copy -> Messages]
          BY <1>0, MessageTypes DEF TypeInv
        <5>2. msg' = [msg EXCEPT ![c] = [msg[c] EXCEPT !.at = "retry", !.deferred = TRUE]]
          BY <4>2, <5>1 DEF TakeReturned
        <5>3. [msg[c] EXCEPT !.at = "retry", !.deferred = TRUE].exe = ExeOf(c)
          BY <5>1 DEF Messages, ExeOf
        <5> QED
          BY <4>2, <5>2, <5>3 DEF TakeReturned
      <4> QED
        BY <2>2, <4>1, <4>2
    <3> QED
      BY <1>0, <3>1, NoNewCopy DEF InUse, ExeOf, TypeInv, TypeOK
  <2> QED
    BY <1>5, <2>1, <2>2 DEF BrokerStep
<1>6. ASSUME NEW c \in Copy, ReopenDead(c) PROVE OneCopy'
  <2>1. pc[c] = "idle" /\ msg[c].at = "dlq" /\ Blank.at = "nowhere"
    BY <1>6 DEF ReopenDead, Blank
  <2>2. CASE msg' = [msg EXCEPT ![c] = Blank] /\ UNCHANGED pc
    BY <1>0, <2>1, <2>2, NoNewCopy DEF InUse, ExeOf, TypeInv, TypeOK
  <2>3. CASE UNCHANGED msg /\ Goto(c, "republish")
    BY <1>0, <2>1, <2>3, NoNewCopy DEF Goto, InUse, ExeOf, TypeInv, TypeOK
  <2> QED
    BY <1>6, <2>2, <2>3 DEF ReopenDead
<1>7. ASSUME NEW c \in Copy, RepublishDead(c) PROVE OneCopy'
  BY <1>0, <1>7, NoNewCopy DEF RepublishDead, Goto, InUse, ExeOf, TypeInv, TypeOK
<1>8. ASSUME NEW c \in Copy, HardTimeout(c) PROVE OneCopy'
  BY <1>0, <1>8, NoNewCopy DEF HardTimeout, AfterJob, Goto, InUse, ExeOf, TypeInv, TypeOK
<1>9. ASSUME NEW w \in Worker, Crash(w) PROVE OneCopy'
  <2>1. Blank.at = "nowhere"
    BY DEF Blank
  <2>2. \A b \in Copy : InUse(b)' => InUse(b) /\ ExeOf(b)' = ExeOf(b)
    BY <1>9, <2>1 DEF Crash, InUse, ExeOf
  <2> QED
    BY <1>0, <2>2, NoNewCopy
<1>10. ASSUME NEW w \in Worker, LoseChannel(w) PROVE OneCopy'
  BY <1>0, <1>10 DEF LoseChannel
<1>11. ASSUME NEW e \in Exe, Cancel(e) \/ Delete(e) \/ LeaseLapses(e) \/ LockExpires(e) \/ OrphanEnds(e)
       PROVE  OneCopy'
  BY <1>0, <1>11 DEF Cancel, Delete, LeaseLapses, LockExpires, OrphanEnds, OneCopy, InUse, ExeOf
<1> QED
  BY <1>1, <1>2, <1>3, <1>4, <1>5, <1>6, <1>7, <1>8, <1>9, <1>10, <1>11 DEF Next, HandlerStep

LEMMA CopyInvariant == Spec => []CopyInv
<1>1. Init => CopyInv
  <2> SUFFICES ASSUME Init PROVE CopyInv
    OBVIOUS
  <2> DEFINE first == CHOOSE f \in [Exe -> Copy] : IsInjective(f)
             started(c) == [Blank EXCEPT !.at = "main", !.exe = CHOOSE e \in Exe : first[e] = c]
  <2>1. TypeInv /\ JobAwaited
    BY InitTypes DEF Init, JobAwaited
  <2>2. Blank \in Messages /\ Blank.at = "nowhere"
    BY <2>1, BlankIsMessage DEF TypeInv, Blank
  <2>3. \A c \in Copy : /\ pc[c] = "idle"
                        /\ msg[c] = IF \E e \in Exe : first[e] = c THEN started(c) ELSE Blank
    BY DEF Init
  <2> HIDE DEF first
  <2>4. ASSUME NEW c \in Copy, InUse(c) PROVE first[ExeOf(c)] = c
    <3>1. \E e \in Exe : first[e] = c
      BY <2>2, <2>3, <2>4 DEF InUse
    <3>2. ExeOf(c) = CHOOSE e \in Exe : first[e] = c
      BY <2>2, <2>3, <3>1 DEF ExeOf, Messages
    <3> QED
      BY <3>1, <3>2
  <2> QED
    BY <2>1, <2>4 DEF CopyInv, JobInv, OneCopy
<1>2. CopyInv /\ [Next]_vars => CopyInv'
  <2>1. CopyInv /\ UNCHANGED vars => CopyInv'
    BY DEF vars, CopyInv, OneCopy, InUse, ExeOf, JobInv, JobAwaited, Without, TypeInv, TypeOK, Shape,
           Handled, Fits
  <2> QED
    BY <2>1, StepKeepsOneCopy, StepKeepsJobs, StepKeepsTypes DEF CopyInv, JobInv
<1> QED
  BY <1>1, <1>2, PTL DEF Spec

LEMMA StepKeepsSlots ==
  ASSUME BoundInv, Next, Without(Multiplying \cup {"lapse"})' PROVE SlotsKept'
<1>0. TypeInv /\ OneCopy /\ SlotsKept /\ Stays /\ ~Fault("lapse")
  <2>1. TypeInv /\ Without(Multiplying \cup {"lapse"}) /\ ~Fault("lapse")
    BY NotYet DEF BoundInv, CopyInv, JobInv
  <2>2. Without(Multiplying)
    BY <2>1 DEF Without
  <2> QED
    BY <2>1, <2>2, StepStays DEF BoundInv, CopyInv, JobInv
<1>1. ASSUME NEW c \in Copy, TakeSlot(c) PROVE SlotsKept'
  BY <1>0, <1>1 DEF TakeSlot, Goto, SlotsKept, HoldsSlot, ExeOf, TypeInv, TypeOK
<1>2. ASSUME NEW c \in Copy, TakeRunningLock(c) \/ ReleaseRunningLock(c) PROVE SlotsKept'
  BY <1>0, <1>2 DEF TakeRunningLock, ReleaseRunningLock, Goto, SlotsKept, HoldsSlot, ExeOf, TypeInv, TypeOK
<1>3. ASSUME NEW c \in Copy, ReleaseSlot(c) PROVE SlotsKept'
  <2>1. /\ UNCHANGED msg /\ pc[c] = "release" /\ Goto(c, "settle")
        /\ \A e \in Exe : e # ExeOf(c) /\ e \in inflight => e \in inflight'
    BY <1>3 DEF ReleaseSlot
  <2>2. \A d \in Copy : HoldsSlot(d)' => HoldsSlot(d) /\ d # c
    BY <1>0, <2>1 DEF HoldsSlot, Goto, TypeInv, TypeOK
  <2>3. \A d \in Copy : HoldsSlot(d) /\ d # c => ExeOf(d) # ExeOf(c)
    BY <1>0, <2>1 DEF OneCopy, InUse, HoldsSlot
  <2> QED
    BY <1>0, <2>1, <2>2, <2>3, MessageTypes DEF SlotsKept, ExeOf, TypeInv
<1>4. ASSUME NEW w \in Worker, Crash(w) PROVE SlotsKept'
  <2>1. UNCHANGED inflight /\ \A d \in Copy : HoldsSlot(d)' => HoldsSlot(d)
    BY <1>4 DEF Crash, HoldsSlot
  <2>2. \A d \in Copy : HoldsSlot(d)' => ExeOf(d)' = ExeOf(d)
    BY <1>0, <2>1 DEF Stays, HoldsSlot
  <2> QED
    BY <1>0, <2>1, <2>2 DEF SlotsKept
<1>5. ASSUME NEW e \in Exe, LeaseLapses(e) PROVE SlotsKept'
  BY <1>0, <1>5 DEF LeaseLapses, SlotsKept, HoldsSlot, ExeOf
<1>6. ASSUME NEW e \in Exe, LockExpires(e) \/ OrphanEnds(e) PROVE SlotsKept'
  BY <1>0, <1>6 DEF LockExpires, OrphanEnds, SlotsKept, HoldsSlot, ExeOf
<1>7. CASE Quiet
  BY <1>0, <1>7 DEF Quiet, Stays, SlotsKept, HoldsSlot
<1> QED
  BY <1>0, <1>1, <1>2, <1>3, <1>4, <1>5, <1>6, <1>7, StepIsQuiet

LEMMA SlotInvariant == Spec => [](BoundInv /\ SlotCountInv)
<1>1. Init => SlotsKept /\ SlotCountInv
  <2> SUFFICES ASSUME Init PROVE SlotsKept /\ SlotCountInv
    OBVIOUS
  <2>1. TypeInv /\ settings.slots \in Nat
    BY InitTypes, SettingsTypes DEF TypeInv
  <2>2. inflight = {} /\ \A c \in Copy : pc[c] = "idle"
    BY DEF Init
  <2> QED
    BY <2>1, <2>2, FS_EmptySet DEF SlotsKept, HoldsSlot, SlotCountInv, SlotsCounted
<1>2. CopyInv /\ CopyInv' /\ BoundInv /\ [Next]_vars => BoundInv'
  <2>1. BoundInv /\ UNCHANGED vars => (Without(Multiplying \cup {"lapse"}) => SlotsKept)'
    BY DEF vars, BoundInv, SlotsKept, HoldsSlot, ExeOf, Without
  <2> QED
    BY <2>1, StepKeepsSlots DEF BoundInv
<1>3. CopyInv /\ SlotsKept => BoundInv
  BY DEF BoundInv
<1>4. Init /\ CopyInv => BoundInv /\ SlotCountInv
  BY <1>1, <1>3
<1> QED
  BY <1>2, <1>4, StepKeepsCount, CopyInvariant, PTL DEF Spec

\* The tenant's runs at work at any time are at most its slots, for any number of
\* messages, workers and executions, whatever crashes, cancels, unanswered calls and
\* leases of dead workers do.
THEOREM TenantSlotsBound == Spec => []TenantBound
<1>1. BoundInv /\ SlotCountInv => TenantBound
  <2> SUFFICES ASSUME BoundInv, SlotCountInv, Without({"channel", "buffer", "hardTimeout", "lapse"})
               PROVE  Cardinality({c \in Copy : Executing(c)}) <= settings.slots
    BY DEF TenantBound
  <2> DEFINE S == {c \in Copy : Executing(c)}
             f == [c \in S |-> ExeOf(c)]
  <2>1. Without(Multiplying \cup {"lapse"}) /\ Without(Multiplying) /\ Without({"hardTimeout"})
    BY DEF Without, Multiplying
  <2>2. \A c \in S : HoldsSlot(c) /\ InUse(c)
    BY <2>1 DEF BoundInv, CopyInv, JobInv, JobAwaited, Executing, HoldsSlot, InUse
  <2>3. f \in [S -> inflight]
    BY <2>1, <2>2 DEF BoundInv, SlotsKept
  <2>4. \A c, d \in S : f[c] = f[d] => c = d
    BY <2>1, <2>2 DEF BoundInv, CopyInv, OneCopy
  <2>5. f \in Injection(S, inflight)
    BY <2>3, <2>4 DEF Injection, IsInjective
  <2>6. Cardinality(S) <= Cardinality(inflight) /\ IsFiniteSet(S) /\ IsFiniteSet(inflight)
    BY <2>5, FS_Injection DEF SlotCountInv, SlotsCounted
  <2>7. Cardinality(S) \in Nat /\ Cardinality(inflight) \in Nat /\ settings.slots \in Nat
    BY <2>6, FS_CardinalityType, SettingsTypes DEF SlotCountInv, TypeInv
  <2> QED
    BY <2>6, <2>7 DEF SlotCountInv, SlotsCounted
<1> QED
  BY <1>1, SlotInvariant, PTL

-----------------------------------------------------------------------------
(* Who may still write a result has found the row undecided.                *)
Working(c) ==
  \/ pc[c] \in {"slot", "lock", "book"}
  \/ pc[c] = "await" /\ (job[c] \in {"find", "exec", "write"} \/ ExeOf(c) \in Internal)

RoutineJobs == \A c \in Copy : job[c] \in {"find", "write", "touch"} => ExeOf(c) \notin Internal
NoWorkOnSuccess == \A c \in Copy : Working(c) => log[ExeOf(c)] # "SUCESSO"

WorkInv ==
  /\ CopyInv /\ LocksForRoutines
  /\ Without(Doubles) => RoutineJobs /\ NoWorkOnSuccess

\* Only Check lets a handler start to work, on a row it has just found undecided.
LEMMA WorkStarts ==
  ASSUME TypeInv, JobAwaited, Next, NEW c \in Copy, Working(c)'
  PROVE  /\ ExeOf(c)' = ExeOf(c)
         /\ Working(c) \/ (log[ExeOf(c)] = "EM_EXECUCAO" /\ UNCHANGED log)
<1>0. Stays /\ pc'[c] \in {"slot", "lock", "book", "await"}
  BY StepStays DEF Working
<1> DEFINE Goal == pc[c] # "idle" /\ (Working(c) \/ (log[ExeOf(c)] = "EM_EXECUCAO" /\ UNCHANGED log))
<1>1. ASSUME pc[c] # "idle", pc'[c] = pc[c], job'[c] = job[c] PROVE Goal
  BY <1>0, <1>1 DEF Working, Stays
<1>2. ASSUME NEW d \in Copy, JobStep(d) PROVE Goal
  BY <1>0, <1>1, <1>2 DEF JobStep, FindRoutine, FinishChild, WriteResult, TouchRoutine, JobEndsAlone, JobAt,
                      TypeInv, TypeOK, Working, Stays
<1>3. ASSUME NEW d \in Copy, GiveUp(d) \/ Exhaust(d) \/ Check(d) \/ Defer(d) \/ Settle(d) PROVE Goal
  <2>1. UNCHANGED job /\ pc' \in [Copy -> PC]
    BY <1>3, StepKeepsTypes DEF GiveUp, Exhaust, Check, Defer, Settle, TypeInv, TypeOK
  <2>2. CASE \E label \in {"exhaust", "idle"} : Goto(d, label)
    BY <1>0, <1>1, <2>1, <2>2 DEF Goto, TypeInv, TypeOK
  <2>3. CASE Goto(d, "slot") /\ Check(d) /\ log[ExeOf(d)] = "EM_EXECUCAO"
    BY <1>0, <1>1, <2>1, <2>3 DEF Goto, Check, TypeInv, TypeOK
  <2> QED
    BY <1>3, <2>2, <2>3 DEF GiveUp, Exhaust, Check, Defer, Settle, Leave
<1>4. ASSUME NEW d \in Copy, TakeSlot(d) \/ TakeRunningLock(d) \/ JobDone(d) \/ BookInternal(d)
                                \/ ReleaseRunningLock(d) \/ ReleaseSlot(d) \/ HardTimeout(d)
      PROVE  Goal
  <2>1. CASE d # c
    BY <1>0, <1>1, <1>4, <2>1
    DEF TakeSlot, TakeRunningLock, JobDone, BookInternal, ReleaseRunningLock, ReleaseSlot, HardTimeout,
        Goto, JobAt, TypeInv, TypeOK
  <2>2. CASE d = c
    BY <1>0, <1>4, <2>2
    DEF TakeSlot, TakeRunningLock, JobDone, BookInternal, ReleaseRunningLock, ReleaseSlot, HardTimeout,
        AfterJob, Goto, TypeInv, TypeOK, Working
  <2> QED
    BY <2>1, <2>2
<1>5. ASSUME NEW d \in Copy, BrokerStep(d) \/ ReopenDead(d) \/ RepublishDead(d) PROVE Goal
  BY <1>0, <1>1, <1>5 DEF BrokerStep, Deliver, RetryBack, TakeReturned, ReopenDead, RepublishDead, Goto,
                      TypeInv, TypeOK
<1>6. ASSUME NEW w \in Worker, Crash(w) \/ LoseChannel(w) PROVE Goal
  BY <1>0, <1>1, <1>6 DEF Crash, LoseChannel, TypeInv, TypeOK
<1>7. ASSUME NEW e \in Exe, Cancel(e) \/ Delete(e) PROVE Goal
  BY <1>0, <1>1, <1>7 DEF Cancel, Delete, KillChild, TypeInv, TypeOK, Working, Stays
<1>8. ASSUME NEW e \in Exe, LeaseLapses(e) \/ LockExpires(e) \/ OrphanEnds(e) PROVE Goal
  BY <1>0, <1>1, <1>8 DEF LeaseLapses, LockExpires, OrphanEnds
<1>9. Goal
  BY <1>2, <1>3, <1>4, <1>5, <1>6, <1>7, <1>8 DEF Next, HandlerStep
<1> QED
  BY <1>0, <1>9 DEF Stays

\* A success is written by a handler that is then done with its work.
LEMMA SuccessIsWritten ==
  ASSUME TypeInv, JobAwaited, RoutineJobs, Next, NEW e \in Exe, log[e] # "SUCESSO", log'[e] = "SUCESSO"
  PROVE  \E c \in Copy : ExeOf(c) = e /\ Working(c) /\ ~Working(c)'
<1>1. ASSUME NEW d \in Copy, WriteResult(d) PROVE ExeOf(d) = e /\ Working(d) /\ ~Working(d)'
  BY <1>1 DEF WriteResult, SetLog, JobAt, Working, ExeOf, RoutineJobs, JobAwaited, TypeInv, TypeOK
<1>2. ASSUME NEW d \in Copy, BookInternal(d) PROVE ExeOf(d) = e /\ Working(d) /\ ~Working(d)'
  BY <1>2 DEF BookInternal, SetLog, Goto, Working, TypeInv, TypeOK
<1>3. ASSUME NEW d \in Copy, JobStep(d), ~WriteResult(d) PROVE FALSE
  BY <1>3 DEF JobStep, FindRoutine, FinishChild, TouchRoutine, JobEndsAlone, SetLog, TypeInv, TypeOK
<1>4. ASSUME NEW d \in Copy, HandlerStep(d), ~BookInternal(d) PROVE FALSE
  BY <1>4 DEF HandlerStep, GiveUp, Exhaust, Check, TakeSlot, Defer, TakeRunningLock, JobDone,
              ReleaseRunningLock, ReleaseSlot, Settle, SetLog, TypeInv, TypeOK
<1>5. ASSUME NEW d \in Copy, BrokerStep(d) \/ HardTimeout(d) \/ ReopenDead(d) \/ RepublishDead(d) PROVE FALSE
  BY <1>5 DEF BrokerStep, Deliver, RetryBack, TakeReturned, HardTimeout, ReopenDead, RepublishDead,
              SetLog, TypeInv, TypeOK
<1>6. ASSUME NEW w \in Worker, Crash(w) \/ LoseChannel(w) PROVE FALSE
  BY <1>6 DEF Crash, LoseChannel
<1>7. ASSUME NEW f \in Exe, Cancel(f) \/ Delete(f) \/ LeaseLapses(f) \/ LockExpires(f) \/ OrphanEnds(f)
      PROVE  FALSE
  BY <1>7 DEF Cancel, Delete, LeaseLapses, LockExpires, OrphanEnds, SetLog, TypeInv, TypeOK
<1> QED
  BY <1>1, <1>2, <1>3, <1>4, <1>5, <1>6, <1>7 DEF Next

LEMMA RoutineJobsStay ==
  ASSUME TypeInv, JobAwaited, LocksForRoutines, RoutineJobs, Next, JobAwaited' PROVE RoutineJobs'
<1>0. Stays
  BY StepStays
<1> SUFFICES ASSUME NEW c \in Copy, job'[c] \in {"find", "write", "touch"} PROVE ExeOf(c)' \notin Internal
  BY DEF RoutineJobs
<1>1. pc'[c] = "await"
  BY DEF JobAwaited
<1> DEFINE Goal == pc[c] # "idle" /\ ExeOf(c) \notin Internal
<1>2. ASSUME job'[c] = job[c] PROVE Goal
  BY <1>2 DEF JobAwaited, RoutineJobs
<1>3. ASSUME NEW d \in Copy, JobStep(d) PROVE Goal
  BY <1>2, <1>3 DEF JobStep, FindRoutine, FinishChild, WriteResult, TouchRoutine, JobEndsAlone, JobAt,
                    JobAwaited, RoutineJobs, TypeInv, TypeOK
<1>4. ASSUME NEW d \in Copy, HandlerStep(d) PROVE Goal
  BY <1>2, <1>4 DEF HandlerStep, GiveUp, Exhaust, Check, TakeSlot, Defer, TakeRunningLock, JobDone, BookInternal,
                    ReleaseRunningLock, ReleaseSlot, Settle, JobAt, LocksForRoutines, TypeInv, TypeOK
<1>5. ASSUME NEW d \in Copy, BrokerStep(d) \/ HardTimeout(d) \/ ReopenDead(d) \/ RepublishDead(d) PROVE Goal
  BY <1>2, <1>5 DEF BrokerStep, Deliver, RetryBack, TakeReturned, HardTimeout, ReopenDead, RepublishDead
<1>6. ASSUME NEW w \in Worker, Crash(w) \/ LoseChannel(w) PROVE Goal
  BY <1>2, <1>6 DEF Crash, LoseChannel, TypeInv, TypeOK
<1>7. ASSUME NEW f \in Exe, Cancel(f) \/ Delete(f) \/ LeaseLapses(f) \/ LockExpires(f) \/ OrphanEnds(f)
      PROVE  Goal
  BY <1>2, <1>7 DEF Cancel, Delete, KillChild, LeaseLapses, LockExpires, OrphanEnds, JobAwaited, TypeInv, TypeOK
<1>8. Goal
  BY <1>3, <1>4, <1>5, <1>6, <1>7 DEF Next
<1> QED
  BY <1>0, <1>1, <1>8 DEF Stays

LEMMA StepKeepsWork ==
  ASSUME WorkInv, Next, Without(Doubles)' PROVE RoutineJobs' /\ NoWorkOnSuccess'
<1>1. TypeInv /\ Without(Doubles) /\ \A kind \in Doubles : ~Fault(kind)
  BY NotYet DEF WorkInv, CopyInv, JobInv
<1>2. /\ JobAwaited /\ OneCopy /\ LocksForRoutines /\ RoutineJobs /\ NoWorkOnSuccess
      /\ Without({"hardTimeout"})'
  BY <1>1 DEF WorkInv, CopyInv, JobInv, Without, Doubles, Multiplying
<1>3. JobAwaited'
  BY <1>2, StepKeepsJobs DEF WorkInv, CopyInv
<1>4. ASSUME NEW c \in Copy, Working(c)' PROVE log'[ExeOf(c)'] # "SUCESSO"
  <2>1. /\ ExeOf(c)' = ExeOf(c) /\ ExeOf(c) \in Exe
        /\ Working(c) \/ (log[ExeOf(c)] = "EM_EXECUCAO" /\ UNCHANGED log)
    BY <1>1, <1>2, <1>4, WorkStarts, MessageTypes DEF ExeOf, TypeInv
  <2>2. CASE Working(c)
    <3>1. \A d \in Copy : Working(d) => InUse(d)
      BY DEF Working, InUse
    <3> QED
      BY <1>1, <1>2, <1>4, <2>1, <2>2, <3>1, SuccessIsWritten DEF OneCopy, NoWorkOnSuccess
  <2> QED
    BY <2>1, <2>2
<1> QED
  BY <1>1, <1>2, <1>3, <1>4, RoutineJobsStay DEF NoWorkOnSuccess

LEMMA WorkInvariant == Spec => []WorkInv
<1>1. Init => WorkInv \/ ~CopyInv
  BY DEF Init, WorkInv, LocksForRoutines, RoutineJobs, NoWorkOnSuccess, Working
<1>2. CopyInv /\ CopyInv' /\ WorkInv /\ [Next]_vars => WorkInv'
  <2>1. WorkInv /\ CopyInv' /\ UNCHANGED vars => WorkInv'
    BY DEF vars, WorkInv, LocksForRoutines, RoutineJobs, NoWorkOnSuccess, Working, ExeOf, Without
  <2>2. WorkInv /\ CopyInv' /\ Next => WorkInv'
    BY StepKeepsWork, StepKeepsLocksForRoutines DEF WorkInv, CopyInv, JobInv
  <2> QED
    BY <2>1, <2>2
<1> QED
  BY <1>1, <1>2, CopyInvariant, PTL DEF Spec

\* A success is final, whatever crashes, unanswered calls, cancels and deletions do, for
\* a message delivered with retries left - as long as nothing makes two handlers of one
\* execution meet: under a lost channel, a hard timeout or a publish that answers false
\* this says nothing, and there the code does write over a success.
THEOREM SuccessesStand == Spec => SuccessStands
<1> DEFINE Stands == Without(Doubles)' => \A e \in Exe : log[e] = "SUCESSO" =>
                       \/ log'[e] \in {"SUCESSO", "none"}
                       \/ \E c \in Copy : ExeOf(c) = e /\ (pc[c] = "exhaust" \/ msg[c].at = "dlq")
<1>1. ASSUME WorkInv, Next, Without(Doubles)', NEW e \in Exe, log[e] = "SUCESSO",
             log'[e] \notin {"SUCESSO", "none"}
      PROVE  \E c \in Copy : ExeOf(c) = e /\ (pc[c] = "exhaust" \/ msg[c].at = "dlq")
  <2>1. TypeInv /\ Without(Doubles)
    BY <1>1, NotYet DEF WorkInv, CopyInv, JobInv
  <2>2. JobAwaited /\ NoWorkOnSuccess
    BY <1>1, <2>1 DEF WorkInv, CopyInv, JobInv, Without, Doubles
  <2>3. ASSUME NEW d \in Copy, Working(d), NEW status, SetLog(ExeOf(d), status) PROVE FALSE
    BY <1>1, <2>1, <2>2, <2>3 DEF NoWorkOnSuccess, SetLog, TypeInv, TypeOK
  <2>4. ASSUME NEW d \in Copy, JobStep(d) PROVE FALSE
    BY <1>1, <2>2, <2>3, <2>4 DEF JobStep, FindRoutine, FinishChild, WriteResult, TouchRoutine, JobEndsAlone,
                                  Working, JobAwaited
  <2>5. ASSUME NEW d \in Copy, HandlerStep(d), ~Exhaust(d) PROVE FALSE
    BY <1>1, <2>3, <2>5 DEF HandlerStep, GiveUp, Check, TakeSlot, Defer, TakeRunningLock, JobDone, BookInternal,
                            ReleaseRunningLock, ReleaseSlot, Settle, Working
  <2>6. ASSUME NEW d \in Copy, Exhaust(d) \/ ReopenDead(d)
        PROVE  ExeOf(d) = e /\ (pc[d] = "exhaust" \/ msg[d].at = "dlq")
    BY <1>1, <2>1, <2>6 DEF Exhaust, ReopenDead, SetLog, TypeInv, TypeOK
  <2>7. ASSUME NEW d \in Copy, BrokerStep(d) \/ HardTimeout(d) \/ RepublishDead(d) PROVE FALSE
    BY <1>1, <2>7 DEF BrokerStep, Deliver, RetryBack, TakeReturned, HardTimeout, RepublishDead
  <2>8. ASSUME NEW w \in Worker, Crash(w) \/ LoseChannel(w) PROVE FALSE
    BY <1>1, <2>8 DEF Crash, LoseChannel
  <2>9. ASSUME NEW f \in Exe, Cancel(f) \/ Delete(f) \/ LeaseLapses(f) \/ LockExpires(f) \/ OrphanEnds(f)
        PROVE  FALSE
    BY <1>1, <2>1, <2>9 DEF Cancel, Delete, LeaseLapses, LockExpires, OrphanEnds, SetLog, TypeInv, TypeOK
  <2> QED
    BY <1>1, <2>4, <2>5, <2>6, <2>7, <2>8, <2>9 DEF Next
<1>2. WorkInv /\ [Next]_vars => [Stands]_vars
  BY <1>1
<1> QED
  BY <1>2, WorkInvariant, PTL DEF Spec, SuccessStands

-----------------------------------------------------------------------------
(* What becomes of a message, and where a run that nobody awaits may be.    *)
JobLabels == {"await", "book", "unlock", "release", "settle"}
Apart(c) ==
  /\ job[c] # "none" => pc[c] \in JobLabels \/ (pc[c] = "idle" /\ msg[c].at = "nowhere")
  /\ pc[c] = "exhaust" => msg[c].at = "nowhere"
AllApart == \A c \in Copy : Apart(c)

\* The handler of c returns: its message is m, there or on an identity that was free.
LEMMA LeaveMoves ==
  ASSUME TypeInv, NEW c \in Copy, pc[c] # "idle", NEW m, Leave(c, m)
  PROVE  /\ \A b \in Copy \ {c} : pc'[b] = pc[b] /\ (msg'[b] = msg[b] \/ (Free(b) /\ msg'[b] = m))
         /\ pc'[c] = "idle" /\ outcome' = [outcome EXCEPT ![c] = "ack"]
         /\ job[c] = "none" => msg'[c] = m /\ \A b \in Copy \ {c} : msg'[b] = msg[b]
         /\ job[c] # "none" => msg'[c].at = "nowhere" /\ msg'[c].exe = ExeOf(c)
         /\ m # Blank => \E b \in Copy : msg'[b] = m
<1>0. pc' = [pc EXCEPT ![c] = "idle"] /\ outcome' = [outcome EXCEPT ![c] = "ack"]
  BY DEF Leave, Goto
<1>1. msg \in [Copy -> Messages] /\ pc \in [Copy -> PC]
  BY MessageTypes DEF TypeInv, TypeOK
<1>2. CASE job[c] = "none"
  BY <1>0, <1>1, <1>2 DEF Leave
<1>3. CASE job[c] # "none" /\ m = Blank /\ msg' = [msg EXCEPT ![c].at = "nowhere"]
  BY <1>0, <1>1, <1>3 DEF Messages, ExeOf
<1>4. ASSUME job[c] # "none", NEW d \in Copy, Spare(d),
             msg' = [msg EXCEPT ![d] = m, ![c].at = "nowhere"]
      PROVE  /\ \A b \in Copy \ {c} : msg'[b] = msg[b] \/ (Free(b) /\ msg'[b] = m)
             /\ msg'[c].at = "nowhere" /\ msg'[c].exe = ExeOf(c) /\ msg'[d] = m
  <2>1. d # c /\ Free(d)
    BY <1>4 DEF Spare, Free
  <2>2. msg' = [msg EXCEPT ![d] = m, ![c] = [msg[c] EXCEPT !.at = "nowhere"]]
    BY <1>1, <1>4, <2>1
  <2> QED
    BY <1>1, <2>1, <2>2 DEF Messages, ExeOf
<1> QED
  BY <1>0, <1>1, <1>2, <1>3, <1>4 DEF Leave

LEMMA StepKeepsApart ==
  ASSUME TypeInv, AllApart, Next PROVE AllApart'
<1>0. Blank.at = "nowhere" /\ msg \in [Copy -> Messages]
  BY DEF TypeInv, TypeOK, Messages, Blank
<1>1. ASSUME NEW c \in Copy, JobStep(c) PROVE AllApart'
  BY <1>0, <1>1 DEF JobStep, FindRoutine, FinishChild, WriteResult, TouchRoutine, JobEndsAlone, JobAt, AllApart,
                    Apart, JobLabels, TypeInv, TypeOK
<1>2. ASSUME NEW c \in Copy, NEW m, Leave(c, m), UNCHANGED job, pc[c] # "idle" PROVE AllApart'
  <2>1. \A b \in Copy : Free(b) => job[b] = "none" /\ pc[b] = "idle"
    BY DEF Free
  <2> QED
    BY <1>2, <2>1, LeaveMoves DEF AllApart, Apart, JobLabels
<1>3. ASSUME NEW c \in Copy, GiveUp(c) PROVE AllApart'
  <2>1. PICK d \in Copy : /\ Spare(d)
                          /\ msg' = [msg EXCEPT ![d] = [msg[c] EXCEPT !.at = "dlq"], ![c].at = "nowhere"]
    BY <1>3 DEF GiveUp
  <2>2. pc[d] = "idle" /\ job[d] = "none" /\ d # c /\ pc' = [pc EXCEPT ![c] = "exhaust"] /\ UNCHANGED job
        /\ pc[c] = "check"
    BY <1>3, <2>1 DEF GiveUp, Spare, Free, Goto
  <2>3. msg' = [msg EXCEPT ![d] = [msg[c] EXCEPT !.at = "dlq"], ![c] = [msg[c] EXCEPT !.at = "nowhere"]]
    BY <1>0, <2>1, <2>2
  <2> QED
    BY <1>0, <2>2, <2>3 DEF AllApart, Apart, JobLabels, Messages, TypeInv, TypeOK
<1>4. ASSUME NEW c \in Copy, Defer(c) PROVE AllApart'
  <2>1. ASSUME NEW m, PublishedTwice(c, m), Goto(c, "idle"), UNCHANGED job, pc[c] = "slot" PROVE AllApart'
    BY <2>1 DEF PublishedTwice, Goto, Spare, Free, AllApart, Apart, JobLabels, TypeInv, TypeOK
  <2>2. CASE \E m : Leave(c, m)
    BY <1>2, <1>4, <2>2 DEF Defer
  <2>3. (\E m : Leave(c, m)) \/ \E m : PublishedTwice(c, m) /\ Goto(c, "idle")
    BY <1>4 DEF Defer
  <2> QED
    BY <1>4, <2>1, <2>2, <2>3 DEF Defer
<1>5. ASSUME NEW c \in Copy, Exhaust(c) \/ Settle(c) PROVE AllApart'
  BY <1>2, <1>5 DEF Exhaust, Settle
<1>6. ASSUME NEW c \in Copy, Check(c) PROVE AllApart'
  <2>1. CASE \E m : Leave(c, m)
    BY <1>2, <1>6, <2>1 DEF Check
  <2>2. CASE Goto(c, "slot") /\ UNCHANGED msg
    BY <1>6, <2>2 DEF Check, Goto, AllApart, Apart, JobLabels, TypeInv, TypeOK
  <2> QED
    BY <1>6, <2>1, <2>2 DEF Check
<1>7. ASSUME NEW c \in Copy, TakeSlot(c) \/ TakeRunningLock(c) \/ JobDone(c) \/ BookInternal(c)
                               \/ ReleaseRunningLock(c) \/ ReleaseSlot(c) \/ HardTimeout(c)
      PROVE  AllApart'
  BY <1>7 DEF TakeSlot, TakeRunningLock, JobDone, BookInternal, ReleaseRunningLock, ReleaseSlot, HardTimeout,
              AfterJob, Goto, JobAt, AllApart, Apart, JobLabels, TypeInv, TypeOK
<1>8. ASSUME NEW c \in Copy, BrokerStep(c) PROVE AllApart'
  BY <1>0, <1>8 DEF BrokerStep, Deliver, RetryBack, TakeReturned, PublishedTwice, Spare, Free, Goto, AllApart, Apart,
              JobLabels, TypeInv, TypeOK
<1>9. ASSUME NEW c \in Copy, ReopenDead(c) \/ RepublishDead(c) PROVE AllApart'
  BY <1>0, <1>9 DEF ReopenDead, RepublishDead, PublishedTwice, Spare, Free, Goto, AllApart, Apart, JobLabels,
              TypeInv, TypeOK
<1>10. ASSUME NEW w \in Worker, Crash(w) PROVE AllApart'
  BY <1>0, <1>10 DEF Crash, AllApart, Apart, TypeInv, TypeOK
<1>11. ASSUME NEW w \in Worker, LoseChannel(w) PROVE AllApart'
  <2>1. \A c \in Copy : msg'[c].at # "nowhere" => msg'[c] = msg[c] \/ Free(c)
    <3>1. PICK mine \in SUBSET Copy : \E twin \in [mine -> {c \in Copy : Free(c)}] : LostInto(w, mine, twin)
      BY <1>11, LostChannel
    <3>2. PICK twin \in [mine -> {c \in Copy : Free(c)}] :
            /\ \A c \in mine : msg'[c] = [msg[c] EXCEPT !.at = "nowhere"] /\ msg'[twin[c]] = msg[c]
            /\ \A c \in Copy : c \notin mine /\ (\A d \in mine : twin[d] # c) =>
                 msg'[c] = IF by[c] = w /\ msg[c].at = "returned" THEN Blank ELSE msg[c]
      BY <3>1, Zenon DEF LostInto
    <3>3. \A c \in mine : msg'[c].at = "nowhere" /\ Free(twin[c])
      BY <1>0, <3>2 DEF Messages
    <3> QED
      BY <1>0, <3>2, <3>3
  <2>2. \A c \in Copy : Free(c) => job[c] = "none" /\ pc[c] = "idle"
    BY DEF Free
  <2> QED
    BY <1>11, <2>1, <2>2 DEF LoseChannel, AllApart, Apart
<1>12. ASSUME NEW e \in Exe, Cancel(e) \/ Delete(e) \/ LeaseLapses(e) \/ LockExpires(e) \/ OrphanEnds(e)
       PROVE  AllApart'
  BY <1>12 DEF Cancel, Delete, KillChild, LeaseLapses, LockExpires, OrphanEnds, AllApart, Apart, TypeInv, TypeOK
<1> QED
  BY <1>1, <1>3, <1>4, <1>5, <1>6, <1>7, <1>8, <1>9, <1>10, <1>11, <1>12 DEF Next, HandlerStep

(* First side of NothingLost: whoever acks has seen the routine decided.    *)
Unreachable == {"crash", "channel", "redis", "buffer"}

AckDue(c) ==
  \/ pc[c] = "await" /\ job[c] \in {"touch", "returned"}
  \/ pc[c] \in {"book", "unlock", "release", "settle"} /\ outcome[c] = "ack"

Undecided(e) == e \notin Internal /\ log[e] = "EM_EXECUCAO"
Present(e) == \E c \in Copy : ExeOf(c) = e /\ msg[c].at # "nowhere"

AcksDecided == \A c \in Copy : AckDue(c) => ~Undecided(ExeOf(c))
AllPresent == \A e \in Exe : Undecided(e) => Present(e)

PresentInv ==
  /\ CopyInv /\ LeakInv /\ AllApart
  /\ Without(Unreachable) => AcksDecided /\ AllPresent

\* Only the reprocessing of the dead-letter queue makes a routine undecided again.
LEMMA OnlyReopened ==
  ASSUME TypeInv, Next, NEW e \in Exe, Undecided(e)', ~Undecided(e)
  PROVE  \E c \in Copy : ExeOf(c) = e /\ ReopenDead(c) /\ msg[c].at = "dlq" /\ pc[c] = "idle"
<1>1. e \notin Internal /\ log[e] # "EM_EXECUCAO" /\ log'[e] = "EM_EXECUCAO"
  BY DEF Undecided
<1>2. ASSUME NEW d \in Copy, JobStep(d) PROVE FALSE
  BY <1>1, <1>2 DEF JobStep, FindRoutine, FinishChild, WriteResult, TouchRoutine, JobEndsAlone, SetLog, Final,
                    TypeInv, TypeOK
<1>3. ASSUME NEW d \in Copy, HandlerStep(d) PROVE FALSE
  BY <1>1, <1>3 DEF HandlerStep, GiveUp, Exhaust, Check, TakeSlot, Defer, TakeRunningLock, JobDone, BookInternal,
                    ReleaseRunningLock, ReleaseSlot, Settle, SetLog, TypeInv, TypeOK
<1>4. ASSUME NEW d \in Copy, BrokerStep(d) \/ HardTimeout(d) \/ RepublishDead(d) PROVE FALSE
  BY <1>1, <1>4 DEF BrokerStep, Deliver, RetryBack, TakeReturned, HardTimeout, RepublishDead
<1>5. ASSUME NEW d \in Copy, ReopenDead(d) PROVE ExeOf(d) = e /\ msg[d].at = "dlq" /\ pc[d] = "idle"
  BY <1>1, <1>5 DEF ReopenDead, SetLog, TypeInv, TypeOK
<1>6. ASSUME NEW w \in Worker, Crash(w) \/ LoseChannel(w) PROVE FALSE
  BY <1>1, <1>6 DEF Crash, LoseChannel
<1>7. ASSUME NEW f \in Exe, Cancel(f) \/ Delete(f) \/ LeaseLapses(f) \/ LockExpires(f) \/ OrphanEnds(f)
      PROVE  FALSE
  BY <1>1, <1>7 DEF Cancel, Delete, LeaseLapses, LockExpires, OrphanEnds, SetLog, TypeInv, TypeOK
<1> QED
  BY <1>2, <1>3, <1>4, <1>5, <1>6, <1>7 DEF Next

\* Who will ack has written a result just now, or was going to ack before.
LEMMA AckBecomesDue ==
  ASSUME TypeInv, OneCopy, LocksHeld, ~Fault("redis"), ~Fault("crash"), Next, NEW c \in Copy, AckDue(c)'
  PROVE  /\ pc[c] # "idle" /\ ExeOf(c)' = ExeOf(c)
         /\ AckDue(c) \/ ~Undecided(ExeOf(c))'
<1>0. Stays /\ pc'[c] \in JobLabels /\ ExeOf(c) \in Exe /\ msg[c].at \in Place
  BY StepStays, MessageTypes DEF AckDue, JobLabels, ExeOf, TypeInv
<1> DEFINE Goal == pc[c] # "idle" /\ (AckDue(c) \/ log'[ExeOf(c)] # "EM_EXECUCAO" \/ ExeOf(c) \in Internal)
<1>1. ASSUME pc[c] # "idle", pc'[c] = pc[c], job'[c] = job[c], outcome'[c] = outcome[c] PROVE Goal
  BY <1>1 DEF AckDue
<1>2. ASSUME NEW d \in Copy, JobStep(d) PROVE Goal
  BY <1>0, <1>2 DEF JobStep, FindRoutine, FinishChild, WriteResult, TouchRoutine, JobEndsAlone, JobAt, SetLog,
                    JobLabels, Final, AckDue, TypeInv, TypeOK
<1>3. ASSUME NEW d \in Copy, GiveUp(d) \/ Exhaust(d) \/ Check(d) \/ Defer(d) \/ Settle(d) PROVE Goal
  <2>1. /\ \A b \in Copy \ {d} : pc'[b] = pc[b] /\ outcome'[b] = outcome[b]
        /\ UNCHANGED job /\ pc'[d] \notin JobLabels
    BY <1>3 DEF GiveUp, Exhaust, Check, Defer, Settle, Leave, Goto, JobLabels, TypeInv, TypeOK
  <2> QED
    BY <1>0, <1>1, <2>1 DEF JobLabels
<1>4. ASSUME NEW d \in Copy, TakeSlot(d) \/ JobDone(d) \/ BookInternal(d) \/ ReleaseRunningLock(d)
                               \/ ReleaseSlot(d) \/ HardTimeout(d)
      PROVE  Goal
  BY <1>0, <1>4 DEF TakeSlot, JobDone, BookInternal, ReleaseRunningLock, ReleaseSlot, HardTimeout, AfterJob, Goto,
                    JobAt, JobLabels, AckDue, TypeInv, TypeOK
<1>5. ASSUME NEW d \in Copy, TakeRunningLock(d) PROVE Goal
  <2>1. CASE d # c
    BY <1>0, <1>1, <1>5, <2>1 DEF TakeRunningLock, Goto, JobAt, JobLabels, TypeInv, TypeOK
  <2>2. CASE d = c
    <3>1. running[ExeOf(c)] = NoWorker
      BY <1>0, <1>5, <2>2 DEF TakeRunningLock, LocksHeld, HoldsLock, OneCopy, InUse
    <3> QED
      BY <1>5, <2>2, <3>1 DEF TakeRunningLock, Goto, AckDue, TypeInv, TypeOK
  <2> QED
    BY <2>1, <2>2
<1>6. ASSUME NEW d \in Copy, BrokerStep(d) \/ ReopenDead(d) \/ RepublishDead(d) PROVE Goal
  BY <1>0, <1>1, <1>6 DEF BrokerStep, Deliver, RetryBack, TakeReturned, ReopenDead, RepublishDead, Goto, JobLabels,
                    TypeInv, TypeOK
<1>7. ASSUME NEW w \in Worker, Crash(w) \/ LoseChannel(w) PROVE Goal
  BY <1>0, <1>1, <1>7 DEF Crash, LoseChannel, JobLabels
<1>8. ASSUME NEW e \in Exe, Cancel(e) \/ Delete(e) \/ LeaseLapses(e) \/ LockExpires(e) \/ OrphanEnds(e)
      PROVE  Goal
  BY <1>0, <1>8 DEF Cancel, Delete, KillChild, LeaseLapses, LockExpires, OrphanEnds,
                    JobLabels, AckDue, TypeInv, TypeOK
<1>9. Goal
  BY <1>2, <1>3, <1>4, <1>5, <1>6, <1>7, <1>8 DEF Next, HandlerStep
<1>10. ExeOf(c)' = ExeOf(c)
  BY <1>0, <1>9 DEF Stays, JobLabels
<1> QED
  BY <1>9, <1>10 DEF Undecided

LEMMA StepKeepsAcks ==
  ASSUME TypeInv, OneCopy, LocksHeld, AcksDecided, ~Fault("redis"), ~Fault("crash"), Next PROVE AcksDecided'
<1> SUFFICES ASSUME NEW c \in Copy, AckDue(c)', Undecided(ExeOf(c))' PROVE FALSE
  BY DEF AcksDecided
<1>1. pc[c] # "idle" /\ ExeOf(c)' = ExeOf(c) /\ ExeOf(c) \in Exe /\ AckDue(c)
  BY AckBecomesDue, MessageTypes DEF ExeOf, TypeInv, Undecided
<1>2. ~Undecided(ExeOf(c)) /\ InUse(c)
  BY <1>1 DEF AcksDecided, AckDue, InUse
<1>3. PICK d \in Copy : ExeOf(d) = ExeOf(c) /\ msg[d].at = "dlq" /\ pc[d] = "idle"
  BY <1>1, <1>2, OnlyReopened DEF Undecided
<1> QED
  BY <1>1, <1>2, <1>3 DEF OneCopy, InUse

\* The message of an undecided routine stays in the broker, in one queue or another.
LEMMA PresentStays ==
  ASSUME TypeInv, AllApart, AcksDecided, Next, ~Fault("crash"), ~Fault("channel"), ~Fault("buffer"),
         NEW b \in Copy, msg[b].at # "nowhere", NEW e \in Exe, ExeOf(b) = e, Undecided(e), Undecided(e)'
  PROVE  Present(e)'
<1>0. /\ Blank.at = "nowhere" /\ msg \in [Copy -> Messages] /\ msg[b] \in Messages /\ ~Free(b) /\ ExeOf(b) \in Exe
      /\ Fits(msg[b], pc[b]) /\ Apart(b) /\ (AckDue(b) => FALSE)
  BY DEF TypeInv, TypeOK, Messages, Blank, Free, ExeOf, Shape, AllApart, AcksDecided
<1>1. ASSUME NEW x \in Copy, msg'[x].exe = e, msg'[x].at # "nowhere" PROVE Present(e)'
  BY <1>1 DEF Present, ExeOf
<1>2. ASSUME NEW c \in Copy, NEW m, Leave(c, m), pc[c] # "idle",
             c = b => m.exe = ExeOf(b) /\ m.at # "nowhere"
      PROVE  Present(e)'
  <2>1. CASE c = b
    BY <1>0, <1>1, <1>2, <2>1, LeaveMoves
  <2>2. CASE c # b
    BY <1>0, <1>1, <1>2, <2>2, LeaveMoves DEF ExeOf
  <2> QED
    BY <2>1, <2>2
<1>3. ASSUME NEW place \in {"main", "retry"}, pc[b] \notin {"idle", "republish"}
      PROVE  /\ Held(b) /\ InQueue(b, place).exe = ExeOf(b) /\ InQueue(b, place).at # "nowhere"
             /\ [InQueue(b, "retry") EXCEPT !.deferred = Held(b)].exe = ExeOf(b)
             /\ [InQueue(b, "retry") EXCEPT !.deferred = Held(b)].at # "nowhere"
  BY <1>0, <1>3 DEF Fits, Held, InQueue, Messages, ExeOf
<1>4. ASSUME NEW c \in Copy, JobStep(c) PROVE Present(e)'
  <2>1. msg'[b] = msg[b]
    BY <1>0, <1>4 DEF JobStep, FindRoutine, FinishChild, WriteResult, TouchRoutine, JobEndsAlone, Apart,
                        JobLabels, TypeInv, TypeOK
  <2> QED
    BY <1>1, <2>1 DEF ExeOf
<1>5. ASSUME NEW c \in Copy, Exhaust(c) PROVE Present(e)'
  BY <1>0, <1>2, <1>5 DEF Exhaust, Apart
<1>6. ASSUME NEW c \in Copy, Check(c) PROVE Present(e)'
  <2>1. CASE UNCHANGED msg
    BY <1>1, <2>1 DEF ExeOf
  <2>2. CASE c = b
    BY <1>2, <1>3, <1>6, <2>1, <2>2 DEF Check, Undecided, Final
  <2>3. CASE c # b
    BY <1>2, <1>6, <2>1, <2>3 DEF Check
  <2> QED
    BY <2>2, <2>3
<1>7. ASSUME NEW c \in Copy, Defer(c) PROVE Present(e)'
  BY <1>2, <1>3, <1>7 DEF Defer
<1>8. ASSUME NEW c \in Copy, Settle(c) PROVE Present(e)'
  BY <1>0, <1>2, <1>3, <1>8 DEF Settle, AckDue, Outcome, TypeInv, TypeOK
<1>9. ASSUME NEW c \in Copy, GiveUp(c) PROVE Present(e)'
  <2>1. PICK d \in Copy : /\ Spare(d)
                          /\ msg' = [msg EXCEPT ![d] = [msg[c] EXCEPT !.at = "dlq"], ![c].at = "nowhere"]
    BY <1>9 DEF GiveUp
  <2>2. d # b /\ d # c
    BY <1>0, <1>9, <2>1 DEF GiveUp, Spare, Free
  <2>3. msg' = [msg EXCEPT ![d] = [msg[c] EXCEPT !.at = "dlq"], ![c] = [msg[c] EXCEPT !.at = "nowhere"]]
    BY <1>0, <2>1, <2>2
  <2>4. CASE c = b
    <3>1. msg'[d] = [msg[b] EXCEPT !.at = "dlq"]
      BY <1>0, <2>2, <2>3, <2>4
    <3> QED
      BY <1>0, <1>1, <3>1 DEF ExeOf, Messages
  <2>5. CASE c # b
    BY <1>0, <1>1, <2>2, <2>3, <2>5 DEF ExeOf
  <2> QED
    BY <2>4, <2>5
<1>10. ASSUME NEW c \in Copy, BrokerStep(c) PROVE Present(e)'
  <2>1. msg'[b].exe = ExeOf(b) /\ msg'[b].at # "nowhere"
    BY <1>0, <1>10 DEF BrokerStep, Deliver, RetryBack, TakeReturned, ExeOf, Messages
  <2> QED
    BY <1>1, <2>1
<1>11. ASSUME NEW c \in Copy, ReopenDead(c) \/ RepublishDead(c) PROVE Present(e)'
  <2>1. msg'[b].exe = ExeOf(b) /\ msg'[b].at # "nowhere"
    BY <1>0, <1>11 DEF ReopenDead, RepublishDead, ExeOf, Undecided
  <2> QED
    BY <1>1, <2>1
<1>12. ASSUME UNCHANGED msg PROVE Present(e)'
  BY <1>1, <1>12 DEF ExeOf
<1>13. ASSUME NEW c \in Copy, TakeSlot(c) \/ TakeRunningLock(c) \/ JobDone(c) \/ BookInternal(c)
                               \/ ReleaseRunningLock(c) \/ ReleaseSlot(c) \/ HardTimeout(c)
       PROVE  UNCHANGED msg
  BY <1>13 DEF TakeSlot, TakeRunningLock, JobDone, BookInternal, ReleaseRunningLock, ReleaseSlot, HardTimeout
<1>14. ASSUME NEW x \in Exe, Cancel(x) \/ Delete(x) \/ LeaseLapses(x) \/ LockExpires(x) \/ OrphanEnds(x)
       PROVE  UNCHANGED msg
  BY <1>14 DEF Cancel, Delete, LeaseLapses, LockExpires, OrphanEnds
<1>15. ASSUME NEW w \in Worker, Crash(w) \/ LoseChannel(w) PROVE FALSE
  BY <1>15 DEF Crash, LoseChannel
<1> QED
  BY <1>4, <1>5, <1>6, <1>7, <1>8, <1>9, <1>10, <1>11, <1>12, <1>13, <1>14, <1>15 DEF Next, HandlerStep

LEMMA StepKeepsPresent ==
  ASSUME TypeInv, AllApart, AcksDecided, AllPresent, Next, ~Fault("crash"), ~Fault("channel"), ~Fault("buffer")
  PROVE  AllPresent'
<1> SUFFICES ASSUME NEW e \in Exe, Undecided(e)' PROVE Present(e)'
  BY DEF AllPresent
<1>1. CASE Undecided(e)
  BY <1>1, PresentStays DEF AllPresent, Present
<1>2. CASE ~Undecided(e)
  <2>1. PICK c \in Copy : ExeOf(c) = e /\ ReopenDead(c) /\ msg[c].at = "dlq"
    BY <1>2, OnlyReopened
  <2>2. UNCHANGED msg
    BY <2>1 DEF ReopenDead, Undecided
  <2> QED
    BY <2>1, <2>2 DEF Present, ExeOf
<1> QED
  BY <1>1, <1>2

LEMMA StepKeepsUnreachable ==
  ASSUME PresentInv, Next, Without(Unreachable)' PROVE AcksDecided' /\ AllPresent'
<1>1. TypeInv /\ AllApart /\ Without(Unreachable) /\ \A kind \in Unreachable : ~Fault(kind)
  BY NotYet DEF PresentInv, CopyInv, JobInv
<1>2. OneCopy /\ LocksHeld /\ AcksDecided /\ AllPresent
  BY <1>1 DEF PresentInv, CopyInv, LeakInv, NothingLeaks, LocksHeld, Without, Unreachable, Multiplying
<1> QED
  BY <1>1, <1>2, StepKeepsAcks, StepKeepsPresent DEF Unreachable

LEMMA PresentInvariant == Spec => []PresentInv
<1>1. Init => AllApart /\ AcksDecided /\ AllPresent
  <2> SUFFICES ASSUME Init PROVE AllPresent
    BY DEF Init, AllApart, Apart, AcksDecided, AckDue
  <2> DEFINE first == CHOOSE f \in [Exe -> Copy] : IsInjective(f)
             started(c) == [Blank EXCEPT !.at = "main", !.exe = CHOOSE e \in Exe : first[e] = c]
  <2>1. first \in [Exe -> Copy] /\ IsInjective(first)
    BY ExeAssumption
  <2>2. TypeInv /\ Blank \in Messages
    BY InitTypes, BlankIsMessage DEF TypeInv
  <2>3. \A c \in Copy : msg[c] = IF \E e \in Exe : first[e] = c THEN started(c) ELSE Blank
    BY DEF Init
  <2> HIDE DEF first
  <2>4. ASSUME NEW e \in Exe PROVE ExeOf(first[e]) = e /\ msg[first[e]].at = "main"
    <3>1. (CHOOSE x \in Exe : first[x] = first[e]) = e
      BY <2>1 DEF IsInjective
    <3>2. msg[first[e]] = started(first[e])
      BY <2>1, <2>3
    <3> QED
      BY <2>2, <3>1, <3>2 DEF ExeOf, Messages
  <2> QED
    BY <2>1, <2>4 DEF AllPresent, Present
<1>2. CopyInv /\ CopyInv' /\ LeakInv /\ LeakInv' /\ PresentInv /\ [Next]_vars => PresentInv'
  <2>1. PresentInv /\ CopyInv' /\ LeakInv' /\ UNCHANGED vars => PresentInv'
    BY DEF vars, PresentInv, AllApart, Apart, AcksDecided, AllPresent, AckDue, Undecided, Present, ExeOf, Without
  <2>2. PresentInv /\ CopyInv' /\ LeakInv' /\ Next => PresentInv'
    BY StepKeepsUnreachable, StepKeepsApart DEF PresentInv, CopyInv, JobInv
  <2> QED
    BY <2>1, <2>2
<1>3. CopyInv /\ LeakInv /\ AllApart /\ AcksDecided /\ AllPresent => PresentInv
  BY DEF PresentInv
<1> QED
  BY <1>1, <1>2, <1>3, CopyInvariant, LeakInvariant, PTL DEF Spec

(* Second side of NothingLost: no handling of a routine fails.              *)
Failing == {"crash", "database", "hardTimeout", "noRoutine", "unroutable"}

\* Nothing has gone wrong with a message whose execution still has its row.
Clean(c) ==
  ExeOf(c) \notin Internal /\ log[ExeOf(c)] # "none" =>
    /\ msg[c].retry = 0 /\ msg[c].at \notin {"dlq", "returned"}
    /\ msg[c].at = "retry" => msg[c].deferred
    /\ job[c] # "threw" /\ outcome[c] = "ack" /\ pc[c] \notin {"exhaust", "republish"}
AllClean ==
  /\ \A c \in Copy : Clean(c)
  /\ \A c \in Copy : outcome[c] = "discard" => pc[c] \in {"book", "unlock", "release", "settle"}

Runs(c) == pc[c] = "await" /\ job[c] \in {"find", "exec", "write"}
Waits(c) == msg[c].at # "nowhere" /\ pc[c] \in {"idle", "check", "slot", "lock"}
Served(e) ==
  /\ \E c \in Copy : ExeOf(c) = e /\ (Runs(c) \/ Waits(c))
  /\ running[e] # NoWorker => \E c \in Copy : ExeOf(c) = e /\ Runs(c)
AllServed == \A e \in Exe : Undecided(e) => Served(e)

ServedInv == JobInv /\ (Without(Failing) => AllClean /\ AllServed)

\* No row comes back.
LEMMA RowsStayGone ==
  ASSUME TypeInv, Next, NEW e \in Exe, log[e] = "none" PROVE log'[e] = "none"
<1>1. ASSUME NEW f, NEW status, SetLog(f, status) PROVE log'[e] = "none"
  BY <1>1 DEF SetLog, TypeInv, TypeOK
<1>2. ASSUME NEW d \in Copy, JobStep(d) PROVE log'[e] = "none"
  BY <1>1, <1>2 DEF JobStep, FindRoutine, FinishChild, WriteResult, TouchRoutine, JobEndsAlone
<1>3. ASSUME NEW d \in Copy, HandlerStep(d) PROVE log'[e] = "none"
  BY <1>1, <1>3 DEF HandlerStep, GiveUp, Exhaust, Check, TakeSlot, Defer, TakeRunningLock, JobDone, BookInternal,
                    ReleaseRunningLock, ReleaseSlot, Settle
<1>4. ASSUME NEW d \in Copy, BrokerStep(d) \/ HardTimeout(d) \/ RepublishDead(d) \/ ReopenDead(d)
      PROVE  log'[e] = "none"
  BY <1>1, <1>4 DEF BrokerStep, Deliver, RetryBack, TakeReturned, HardTimeout, RepublishDead, ReopenDead
<1>5. ASSUME NEW w \in Worker, Crash(w) \/ LoseChannel(w) PROVE log'[e] = "none"
  BY <1>5 DEF Crash, LoseChannel
<1>6. ASSUME NEW f \in Exe, Cancel(f) \/ Delete(f) \/ LeaseLapses(f) \/ LockExpires(f) \/ OrphanEnds(f)
      PROVE  log'[e] = "none"
  BY <1>1, <1>6 DEF Cancel, Delete, LeaseLapses, LockExpires, OrphanEnds, TypeInv, TypeOK
<1> QED
  BY <1>2, <1>3, <1>4, <1>5, <1>6 DEF Next

\* A handler that returns leaves its message as the broker had it, but for its queue and mark.
LEMMA LeaveKeepsClean ==
  ASSUME TypeInv, AllClean, Next, NEW c \in Copy, NEW m, Leave(c, m), pc[c] # "idle", job[c] = "none",
         UNCHANGED job,
         m = Blank \/ (/\ m \in Messages /\ m.exe = ExeOf(c) /\ m.retry = msg[c].retry
                       /\ m.at \in {"nowhere", "main", "retry"}
                       /\ m.at = "retry" => m.deferred \/ ExeOf(c) \in Internal \/ log[ExeOf(c)] = "none")
  PROVE  AllClean'
<1>0. /\ Blank.at = "nowhere" /\ Blank.retry = 0 /\ msg \in [Copy -> Messages] /\ ExeOf(c) \in Exe
      /\ outcome \in [Copy -> Outcome]
  BY MessageTypes DEF Blank, TypeInv, TypeOK, Messages, ExeOf
<1>1. /\ msg'[c] = m /\ pc'[c] = "idle" /\ outcome' = [outcome EXCEPT ![c] = "ack"]
      /\ \A b \in Copy \ {c} : pc'[b] = pc[b] /\ msg'[b] = msg[b]
  BY LeaveMoves
<1>2. \A b \in Copy \ {c} : ExeOf(b)' = ExeOf(b) /\ ExeOf(b) \in Exe /\ outcome'[b] = outcome[b]
  BY <1>0, <1>1 DEF ExeOf, Messages
<1>3. Clean(c)'
  BY <1>0, <1>1, RowsStayGone DEF AllClean, Clean, ExeOf
<1>4. \A b \in Copy \ {c} : Clean(b)'
  BY <1>1, <1>2, RowsStayGone DEF AllClean, Clean
<1> QED
  BY <1>0, <1>1, <1>2, <1>3, <1>4 DEF AllClean

\* A message is published on a free identity as well.
LEMMA PublishKeepsClean ==
  ASSUME TypeInv, AllClean, Next, NEW c \in Copy, NEW m \in Messages, PublishedTwice(c, m), UNCHANGED <<job, outcome>>,
         pc' = pc \/ pc' = [pc EXCEPT ![c] = "idle"], outcome[c] = "ack",
         m.exe = ExeOf(c), m.retry = msg[c].retry \/ ExeOf(c) \in Internal \/ log[ExeOf(c)] = "none",
         m.at \in {"nowhere", "main", "retry"}, m.at = "retry" => m.deferred
  PROVE  AllClean'
<1>0. msg \in [Copy -> Messages] /\ ExeOf(c) \in Exe /\ \A b \in Copy : ExeOf(b) \in Exe
  BY MessageTypes DEF TypeInv, TypeOK, Messages, ExeOf
<1>1. PICK d \in Copy : Spare(d) /\ msg' = [msg EXCEPT ![d] = m]
  BY DEF PublishedTwice
<1>2. pc[d] = "idle" /\ job[d] = "none" /\ outcome[d] = "ack"
  BY <1>1 DEF Spare, Free, AllClean, Outcome, TypeInv, TypeOK
<1>3. \A b \in Copy : pc'[b] = pc[b] \/ (b = c /\ pc'[b] = "idle")
  BY DEF TypeInv, TypeOK
<1>4. ASSUME NEW b \in Copy \ {d} PROVE Clean(b)'
  <2>1. msg'[b] = msg[b] /\ ExeOf(b)' = ExeOf(b)
    BY <1>0, <1>1 DEF ExeOf
  <2> QED
    BY <1>0, <1>3, <2>1, RowsStayGone DEF AllClean, Clean
<1>5. Clean(d)'
  <2>1. msg'[d] = m /\ ExeOf(d)' = ExeOf(c) /\ pc'[d] = "idle"
    BY <1>0, <1>1, <1>2, <1>3 DEF ExeOf
  <2> QED
    BY <1>0, <1>2, <2>1, RowsStayGone DEF AllClean, Clean
<1> QED
  BY <1>3, <1>4, <1>5 DEF AllClean

LEMMA StepKeepsClean ==
  ASSUME TypeInv, JobAwaited, AllClean, Next, \A kind \in Failing : ~Fault(kind) PROVE AllClean'
<1>0. /\ msg \in [Copy -> Messages] /\ \A b \in Copy : ExeOf(b) \in Exe /\ msg[b] \in Messages
      /\ Blank.at = "nowhere" /\ Blank.retry = 0 /\ settings.retries \in Nat \ {0}
  BY MessageTypes, SettingsTypes DEF TypeInv, TypeOK, Messages, ExeOf, Blank
<1> DEFINE Gone(c) == ExeOf(c) \in Internal \/ log[ExeOf(c)] = "none"
           Late(c) == pc[c] \in {"book", "unlock", "release", "settle"}
\* A copy that keeps its message.
<1>1. ASSUME NEW b \in Copy, msg'[b] = msg[b], outcome'[b] = outcome[b],
             job'[b] = job[b] \/ job'[b] # "threw" \/ Gone(b),
             pc'[b] = pc[b] \/ pc'[b] \notin {"exhaust", "republish"} \/ Gone(b)
      PROVE  Clean(b)'
  BY <1>0, <1>1, RowsStayGone DEF AllClean, Clean, ExeOf
\* A handler that returns.
<1>2. ASSUME NEW c \in Copy, NEW place \in {"main", "retry"}, pc[c] \notin {"idle", "republish"},
             Leave(c, InQueue(c, place)), UNCHANGED job, job[c] = "none",
             place = "retry" => Gone(c)
      PROVE  AllClean'
  BY <1>0, <1>2, LeaveKeepsClean DEF InQueue, Messages, ExeOf, Place
<1>3. ASSUME NEW c \in Copy, pc[c] # "idle", Leave(c, Blank), UNCHANGED job, job[c] = "none" PROVE AllClean'
  BY <1>3, LeaveKeepsClean
<1>4. ASSUME NEW c \in Copy, JobStep(c) PROVE AllClean'
  <2>1. UNCHANGED <<msg, pc, outcome>>
    BY <1>4 DEF JobStep, FindRoutine, FinishChild, WriteResult, TouchRoutine, JobEndsAlone, JobAwaited
  <2>2. \A b \in Copy : job'[b] = job[b] \/ job'[b] # "threw" \/ Gone(b)
    BY <1>4 DEF JobStep, FindRoutine, FinishChild, WriteResult, TouchRoutine, JobEndsAlone, JobAt, Failing, TypeInv, TypeOK
  <2> QED
    BY <1>1, <2>1, <2>2 DEF AllClean
<1>5. ASSUME NEW c \in Copy, GiveUp(c) PROVE AllClean'
  <2>1. PICK d \in Copy : /\ Spare(d)
                          /\ msg' = [msg EXCEPT ![d] = [msg[c] EXCEPT !.at = "dlq"], ![c].at = "nowhere"]
    BY <1>5 DEF GiveUp
  <2>2. d # c /\ pc[d] = "idle" /\ pc' = [pc EXCEPT ![c] = "exhaust"] /\ UNCHANGED <<job, outcome>> /\ pc[c] = "check"
    BY <1>5, <2>1 DEF GiveUp, Spare, Free, Goto
  <2>3. msg' = [msg EXCEPT ![d] = [msg[c] EXCEPT !.at = "dlq"], ![c] = [msg[c] EXCEPT !.at = "nowhere"]]
    BY <1>0, <2>1, <2>2
  <2>4. Gone(c)
    BY <1>0, <1>5 DEF GiveUp, AllClean, Clean
  <2>5. ExeOf(c)' = ExeOf(c) /\ ExeOf(d)' = ExeOf(c)
    BY <1>0, <2>2, <2>3 DEF ExeOf, Messages
  <2>6. Clean(c)' /\ Clean(d)'
    BY <1>0, <2>4, <2>5, RowsStayGone DEF Clean
  <2>7. \A b \in Copy \ {c, d} : Clean(b)'
    BY <1>1, <2>2, <2>3 DEF TypeInv, TypeOK
  <2> QED
    BY <2>2, <2>6, <2>7 DEF AllClean, TypeInv, TypeOK
<1>6. ASSUME NEW c \in Copy, Exhaust(c) PROVE AllClean'
  BY <1>3, <1>6 DEF Exhaust, JobAwaited
<1>7. ASSUME NEW c \in Copy, Check(c) PROVE AllClean'
  <2>1. CASE Goto(c, "slot") /\ UNCHANGED <<msg, outcome>>
    BY <1>1, <1>7, <2>1 DEF Check, Goto, AllClean, TypeInv, TypeOK
  <2> QED
    BY <1>2, <1>3, <1>7, <2>1 DEF Check, Failing, JobAwaited
<1>8. ASSUME NEW c \in Copy, Defer(c) PROVE AllClean'
  <2>0. pc[c] = "slot" /\ job[c] = "none" /\ outcome[c] = "ack" /\ UNCHANGED job
    BY <1>8 DEF Defer, JobAwaited, AllClean, Outcome, TypeInv, TypeOK
  <2> DEFINE later == [InQueue(c, "retry") EXCEPT !.deferred = Held(c)]
  <2>1. Held(c) => /\ later \in Messages /\ later.exe = ExeOf(c) /\ later.retry = msg[c].retry /\ later.at = "retry"
                   /\ later.deferred
                   /\ InQueue(c, "main") \in Messages /\ InQueue(c, "main").exe = ExeOf(c)
                   /\ InQueue(c, "main").retry = msg[c].retry /\ InQueue(c, "main").at = "main"
    BY <1>0, <2>0 DEF InQueue, Messages, ExeOf, Place, Held
  <2>2. ~Held(c) => later = Blank /\ InQueue(c, "main") = Blank
    <3>1. ~Held(c) => Held(c) = FALSE
      BY DEF Held
    <3>2. Blank \in Messages /\ Blank.deferred = FALSE
      BY BlankIsMessage DEF TypeInv, Blank
    <3>3. [Blank EXCEPT !.deferred = FALSE] = Blank
      BY <3>2 DEF Messages
    <3> QED
      BY <3>1, <3>3 DEF InQueue
  <2> HIDE DEF later
  <2>3. ASSUME NEW m \in {later, InQueue(c, "main")}, Leave(c, m) PROVE AllClean'
    BY <2>0, <2>1, <2>2, <2>3, LeaveKeepsClean
  <2>4. ASSUME NEW m \in {later, InQueue(c, "main")}, Held(c), PublishedTwice(c, m), Goto(c, "idle"), UNCHANGED outcome
        PROVE  AllClean'
    BY <2>0, <2>1, <2>4, PublishKeepsClean DEF Goto
  <2> QED
    BY <1>8, <2>3, <2>4 DEF Defer, later
<1>9. ASSUME NEW c \in Copy, TakeSlot(c) \/ TakeRunningLock(c) \/ BookInternal(c) \/ ReleaseRunningLock(c)
                               \/ ReleaseSlot(c)
      PROVE  AllClean'
  <2>1. /\ UNCHANGED <<msg, outcome>> /\ \A b \in Copy : job'[b] = job[b] \/ job'[b] # "threw"
        /\ \A b \in Copy : pc'[b] = pc[b] \/ (b = c /\ pc'[b] \notin {"exhaust", "republish"} /\ (Late(b) => Late(b)'))
    BY <1>9 DEF TakeSlot, TakeRunningLock, BookInternal, ReleaseRunningLock, ReleaseSlot, JobAt, Goto, TypeInv, TypeOK
  <2> QED
    BY <1>1, <2>1 DEF AllClean
<1>10. ASSUME NEW c \in Copy, JobDone(c) PROVE AllClean'
  <2>1. /\ UNCHANGED msg /\ \A b \in Copy : job'[b] = job[b] \/ job'[b] # "threw"
        /\ \A b \in Copy \ {c} : pc'[b] = pc[b] /\ outcome'[b] = outcome[b] /\ job'[b] = job[b]
        /\ Late(c)' /\ job'[c] = "none" /\ outcome'[c] = IF job[c] = "returned" THEN "ack" ELSE "discard"
        /\ job[c] \in {"returned", "threw"}
    BY <1>10 DEF JobDone, AfterJob, JobAt, Goto, TypeInv, TypeOK
  <2>2. Clean(c)'
    BY <1>0, <2>1, RowsStayGone DEF AllClean, Clean, ExeOf
  <2> QED
    BY <1>1, <2>1, <2>2 DEF AllClean
<1>11. ASSUME NEW c \in Copy, Settle(c) PROVE AllClean'
  <2>1. outcome[c] = "discard" => Gone(c)
    BY DEF AllClean, Clean
  <2> QED
    BY <1>2, <1>3, <1>11, <2>1 DEF Settle, JobAwaited, Outcome, TypeInv, TypeOK
<1>12. ASSUME NEW c \in Copy, NEW w \in Worker, Deliver(c, w) PROVE AllClean'
  BY <1>1, <1>12 DEF Deliver, Goto, AllClean, TypeInv, TypeOK
<1>13. ASSUME NEW c \in Copy, msg' = [msg EXCEPT ![c] = msg'[c]], ExeOf(c)' = ExeOf(c), UNCHANGED <<outcome, job>>,
              \A b \in Copy : pc'[b] = pc[b] \/ (b = c /\ pc[b] = "republish" /\ pc'[b] = "idle"),
              Gone(c) \/ (msg'[c].at = "main" /\ msg'[c].retry = 0)
       PROVE  AllClean'
  <2>1. \A b \in Copy \ {c} : Clean(b)'
    BY <1>0, <1>1, <1>13
  <2>2. Clean(c)'
    BY <1>0, <1>13, RowsStayGone DEF AllClean, Clean
  <2> QED
    BY <1>13, <2>1, <2>2 DEF AllClean
<1>14. ASSUME NEW c \in Copy, RetryBack(c) PROVE AllClean'
  <2> DEFINE m == [at |-> "main", exe |-> ExeOf(c), deferred |-> FALSE,
                   retry |-> IF msg[c].deferred THEN msg[c].retry ELSE msg[c].retry + 1]
  <2>0. /\ msg[c].at = "retry" /\ UNCHANGED <<log, pc, outcome, job>>
        /\ msg' = [msg EXCEPT ![c] = m] \/ PublishedTwice(c, m)
    BY <1>14 DEF RetryBack, Failing
  <2>1. pc[c] = "idle" /\ outcome[c] = "ack" /\ m.exe = ExeOf(c)
    BY <2>0 DEF TypeInv, TypeOK, Shape, Fits, AllClean, Outcome
  <2>2. Gone(c) \/ (msg[c].deferred /\ m.retry = msg[c].retry /\ msg[c].retry = 0)
    BY <2>0 DEF AllClean, Clean
  <2>3. m \in Messages
    BY <1>0, <2>0 DEF Messages, Place, TypeInv, Shape, Fits
  <2>4. m.at = "main"
    OBVIOUS
  <2> HIDE DEF m
  <2>5. CASE msg' = [msg EXCEPT ![c] = m]
    BY <1>0, <1>13, <2>0, <2>1, <2>2, <2>4, <2>5 DEF ExeOf
  <2>6. CASE PublishedTwice(c, m)
    BY <2>0, <2>1, <2>2, <2>3, <2>4, <2>6, PublishKeepsClean
  <2> QED
    BY <2>0, <2>5, <2>6
<1>15. ASSUME NEW c \in Copy, TakeReturned(c) PROVE AllClean'
  <2>1. Gone(c) /\ UNCHANGED <<pc, outcome, job>> /\ msg' = [msg EXCEPT ![c].at = "retry", ![c].deferred = TRUE]
    BY <1>15 DEF TakeReturned, AllClean, Clean
  <2>2. msg' = [msg EXCEPT ![c] = [msg[c] EXCEPT !.at = "retry", !.deferred = TRUE]]
    BY <1>0, <2>1
  <2>3. msg'[c] = [msg[c] EXCEPT !.at = "retry", !.deferred = TRUE] /\ msg' = [msg EXCEPT ![c] = msg'[c]]
    BY <1>0, <2>2
  <2>4. ExeOf(c)' = ExeOf(c)
    BY <1>0, <2>3 DEF ExeOf, Messages
  <2> QED
    BY <1>13, <2>1, <2>3, <2>4
<1>16. ASSUME NEW c \in Copy, ReopenDead(c) PROVE AllClean'
  <2>1. Gone(c) /\ pc[c] = "idle" /\ UNCHANGED <<outcome, job>> /\ job[c] = "none" /\ outcome[c] = "ack"
    BY <1>16 DEF ReopenDead, JobAwaited, AllClean, Clean, Outcome, TypeInv, TypeOK
  <2>2. CASE msg' = [msg EXCEPT ![c] = Blank] /\ UNCHANGED pc
    <3>1. Clean(c)'
      BY <1>0, <2>1, <2>2 DEF Clean
    <3> QED
      BY <1>0, <1>1, <2>1, <2>2, <3>1 DEF AllClean
  <2>3. CASE Goto(c, "republish") /\ UNCHANGED msg
    BY <1>1, <2>1, <2>3 DEF Goto, AllClean, TypeInv, TypeOK
  <2> QED
    BY <1>16, <2>2, <2>3 DEF ReopenDead
<1>17. ASSUME NEW c \in Copy, RepublishDead(c) PROVE AllClean'
  <2> DEFINE m == [at |-> "main", exe |-> ExeOf(c), deferred |-> msg[c].deferred, retry |-> 0]
  <2>1. /\ Gone(c) /\ pc[c] = "republish" /\ UNCHANGED <<outcome, job>> /\ outcome[c] = "ack"
        /\ pc' = [pc EXCEPT ![c] = "idle"] /\ (msg' = [msg EXCEPT ![c] = m] \/ PublishedTwice(c, m))
    BY <1>17 DEF RepublishDead, Goto, AllClean, Clean, Outcome, TypeInv, TypeOK
  <2>2. m \in Messages /\ m.exe = ExeOf(c) /\ m.at = "main"
    BY <1>0 DEF Messages, Place
  <2> HIDE DEF m
  <2>3. CASE msg' = [msg EXCEPT ![c] = m]
    BY <1>0, <1>13, <2>1, <2>2, <2>3 DEF ExeOf, TypeInv, TypeOK
  <2>4. CASE PublishedTwice(c, m)
    BY <2>1, <2>2, <2>4, PublishKeepsClean
  <2> QED
    BY <2>1, <2>3, <2>4
<1>18. ASSUME NEW w \in Worker, LoseChannel(w) PROVE AllClean'
  <2>1. PICK mine \in SUBSET Copy : \E twin \in [mine -> {c \in Copy : Free(c)}] : LostInto(w, mine, twin)
    BY <1>18, LostChannel
  <2>2. PICK twin \in [mine -> {c \in Copy : Free(c)}] :
          /\ mine = {c \in Copy : by[c] = w /\ Held(c)}
          /\ \A c \in mine : msg'[c] = [msg[c] EXCEPT !.at = "nowhere"] /\ msg'[twin[c]] = msg[c]
          /\ \A c \in Copy : c \notin mine /\ (\A d \in mine : twin[d] # c) =>
               msg'[c] = IF by[c] = w /\ msg[c].at = "returned" THEN Blank ELSE msg[c]
    BY <2>1, Zenon DEF LostInto
  <2>3. UNCHANGED <<pc, outcome, job, log>>
    BY <1>18 DEF LoseChannel
  <2>4. ASSUME NEW c \in mine PROVE Clean(c)' /\ Clean(twin[c])'
    <3>1. /\ c \in Copy /\ twin[c] \in Copy /\ Free(twin[c]) /\ msg[c].at = "main"
          /\ msg'[c] = [msg[c] EXCEPT !.at = "nowhere"] /\ msg'[twin[c]] = msg[c]
      BY <2>2 DEF Held
    <3>2. ExeOf(c)' = ExeOf(c) /\ ExeOf(twin[c])' = ExeOf(c) /\ pc[twin[c]] = "idle" /\ job[twin[c]] = "none"
          /\ outcome[twin[c]] = "ack"
      BY <1>0, <3>1 DEF ExeOf, Messages, Free, AllClean, Outcome, TypeInv, TypeOK
    <3> QED
      BY <1>0, <2>3, <3>1, <3>2 DEF AllClean, Clean, Messages
  <2>5. ASSUME NEW c \in Copy, c \notin mine, \A d \in mine : twin[d] # c PROVE Clean(c)'
    <3>1. CASE msg'[c] = msg[c]
      BY <1>1, <2>3, <3>1
    <3>2. CASE msg'[c] = Blank /\ msg[c].at = "returned"
      <4>1. pc[c] = "idle" /\ job[c] = "none" /\ outcome[c] = "ack"
        BY <1>0, <3>2 DEF TypeInv, TypeOK, Shape, Fits, JobAwaited, AllClean, Outcome
      <4> QED
        BY <1>0, <2>3, <3>2, <4>1 DEF Clean
    <3> QED
      BY <2>2, <2>5, <3>1, <3>2
  <2> QED
    BY <2>3, <2>4, <2>5 DEF AllClean
<1>19. ASSUME NEW e \in Exe, Cancel(e) \/ Delete(e) \/ LeaseLapses(e) \/ LockExpires(e) \/ OrphanEnds(e)
       PROVE  AllClean'
  <2>1. UNCHANGED <<msg, pc, outcome>> /\ \A b \in Copy : job'[b] = job[b] \/ job'[b] # "threw"
    BY <1>19 DEF Cancel, Delete, KillChild, LeaseLapses, LockExpires, OrphanEnds, TypeInv, TypeOK
  <2> QED
    BY <1>1, <2>1 DEF AllClean
<1>20. ASSUME NEW w \in Worker, Crash(w) PROVE FALSE
  BY <1>20 DEF Crash, Failing
<1>21. ASSUME NEW c \in Copy, HardTimeout(c) PROVE FALSE
  BY <1>21 DEF HardTimeout, Failing
<1> QED
  BY <1>4, <1>5, <1>6, <1>7, <1>8, <1>9, <1>10, <1>11, <1>12, <1>14, <1>15, <1>16, <1>17, <1>18, <1>19, <1>20, <1>21
  DEF Next, HandlerStep, BrokerStep

\* An undecided routine keeps a run, or a message that will lead to one.
LEMMA ServiceGoesOn ==
  ASSUME TypeInv, JobAwaited, AllClean, AllServed, Next, \A kind \in Failing : ~Fault(kind),
         NEW e \in Exe, Undecided(e), Undecided(e)'
  PROVE  Served(e)'
<1>0. /\ msg \in [Copy -> Messages] /\ Served(e) /\ e \notin Internal /\ log[e] = "EM_EXECUCAO" /\ Stays
      /\ log'[e] = "EM_EXECUCAO"
  BY StepStays DEF TypeInv, TypeOK, Messages, AllServed, Undecided
\* What becomes of each copy of e.
<1> DEFINE Goes(b) == \E x \in Copy : ExeOf(x)' = e /\ (Runs(x)' \/ Waits(x)')
           Kept(b) == (Runs(b) => ExeOf(b)' = e /\ Runs(b)') /\ (Waits(b) => Goes(b))
<1>1. ASSUME \A b \in Copy : ExeOf(b) = e => Kept(b),
             running'[e] = running[e] \/ running'[e] = NoWorker \/ \E x \in Copy : ExeOf(x)' = e /\ Runs(x)'
      PROVE  Served(e)'
  <2>1. \E x \in Copy : ExeOf(x)' = e /\ (Runs(x)' \/ Waits(x)')
    BY <1>0, <1>1 DEF Served
  <2>2. running'[e] # NoWorker => \E x \in Copy : ExeOf(x)' = e /\ Runs(x)'
    BY <1>0, <1>1 DEF Served
  <2> QED
    BY <2>1, <2>2 DEF Served
<1>2. ASSUME NEW b \in Copy, ExeOf(b) = e, ExeOf(b)' = e, Runs(b) => Runs(b)', Waits(b) => Waits(b)' \/ Runs(b)'
      PROVE  Kept(b)
  BY <1>2
<1>3. ASSUME NEW b \in Copy, ExeOf(b) = e, pc'[b] = pc[b], job'[b] = job[b], msg'[b] = msg[b] PROVE Kept(b)
  BY <1>2, <1>3 DEF Runs, Waits, ExeOf
<1>4. ASSUME NEW b \in Copy, ExeOf(b) = e
      PROVE  /\ msg[b].retry = 0 /\ msg[b].at \notin {"dlq", "returned"} /\ job[b] # "threw" /\ outcome[b] = "ack"
             /\ pc[b] \notin {"exhaust", "republish"} /\ (msg[b].at = "retry" => msg[b].deferred)
  BY <1>0, <1>4 DEF AllClean, Clean
<1> HIDE DEF Kept
\* A handler that returns and keeps the message of an undecided routine.
<1>5. ASSUME NEW c \in Copy, NEW m, Leave(c, m), pc[c] # "idle", job[c] = "none", UNCHANGED <<job, running>>,
             ExeOf(c) = e => (m.exe = e /\ m.at # "nowhere") \/ ~Waits(c)
      PROVE  Served(e)'
  <2>1. /\ msg'[c] = m /\ pc'[c] = "idle" /\ \A b \in Copy \ {c} : pc'[b] = pc[b] /\ msg'[b] = msg[b]
    BY <1>5, LeaveMoves
  <2>2. ExeOf(c) = e => Kept(c)
    BY <1>5, <2>1 DEF Kept, Runs, Waits, ExeOf
  <2> QED
    BY <1>1, <1>3, <1>5, <2>1, <2>2
<1>6. ASSUME NEW c \in Copy, JobStep(c) PROVE Served(e)'
  <2>1. UNCHANGED <<msg, pc, running>> /\ \A b \in Copy \ {c} : job'[b] = job[b]
    BY <1>6 DEF JobStep, FindRoutine, FinishChild, WriteResult, TouchRoutine, JobEndsAlone, JobAwaited, JobAt,
                TypeInv, TypeOK
  <2>2. ExeOf(c) = e /\ Runs(c) => Runs(c)'
    BY <1>0, <1>6 DEF JobStep, FindRoutine, FinishChild, WriteResult, TouchRoutine, JobEndsAlone, JobAt, SetLog,
                      Runs, Final, Failing, TypeInv, TypeOK
  <2>3. ExeOf(c) = e => Kept(c)
    BY <1>2, <2>1, <2>2 DEF Waits, ExeOf
  <2> QED
    BY <1>1, <1>3, <2>1, <2>3
<1>7. ASSUME NEW c \in Copy, GiveUp(c) PROVE Served(e)'
  <2>1. PICK d \in Copy : /\ Spare(d)
                          /\ msg' = [msg EXCEPT ![d] = [msg[c] EXCEPT !.at = "dlq"], ![c].at = "nowhere"]
    BY <1>7 DEF GiveUp
  <2>2. d # c /\ Free(d) /\ pc' = [pc EXCEPT ![c] = "exhaust"] /\ UNCHANGED <<job, running>>
    BY <1>7, <2>1 DEF GiveUp, Spare, Free, Goto
  <2>3. ExeOf(c) # e
    BY <1>4, <1>7, SettingsTypes DEF GiveUp, TypeInv
  <2>4. msg' = [msg EXCEPT ![d] = [msg[c] EXCEPT !.at = "dlq"], ![c] = [msg[c] EXCEPT !.at = "nowhere"]]
    BY <1>0, <2>1, <2>2
  <2>5. \A b \in Copy \ {c, d} : pc'[b] = pc[b] /\ msg'[b] = msg[b]
    BY <2>2, <2>4 DEF TypeInv, TypeOK
  <2>6. Kept(d)
    BY <2>2 DEF Kept, Runs, Waits, Free, Blank
  <2> QED
    BY <1>1, <1>3, <2>2, <2>3, <2>5, <2>6
<1>8. ASSUME NEW c \in Copy, Exhaust(c) PROVE Served(e)'
  BY <1>5, <1>8 DEF Exhaust, JobAwaited, Waits
<1>9. ASSUME NEW c \in Copy, NEW place \in {"main", "retry"}, pc[c] \notin {"idle", "republish"}, Waits(c), ExeOf(c) = e
      PROVE  /\ Held(c) /\ InQueue(c, place).exe = e /\ InQueue(c, place).at # "nowhere"
             /\ [InQueue(c, "retry") EXCEPT !.deferred = Held(c)].exe = e
             /\ [InQueue(c, "retry") EXCEPT !.deferred = Held(c)].at # "nowhere"
  <2>1. msg[c] \in Messages /\ Fits(msg[c], pc[c])
    BY <1>0 DEF TypeInv, Shape
  <2> QED
    BY <1>9, <2>1 DEF Fits, Waits, Held, InQueue, Messages, ExeOf
<1>10. ASSUME NEW c \in Copy, Check(c) PROVE Served(e)'
  <2>1. pc[c] = "check" /\ job[c] = "none" /\ UNCHANGED <<job, running>>
    BY <1>10 DEF Check, JobAwaited
  <2>2. CASE Goto(c, "slot") /\ UNCHANGED msg
    <3>1. ExeOf(c) = e => Kept(c)
      BY <1>2, <2>1, <2>2 DEF Goto, Runs, Waits, ExeOf, TypeInv, TypeOK
    <3>2. \A b \in Copy \ {c} : pc'[b] = pc[b]
      BY <2>2 DEF Goto, TypeInv, TypeOK
    <3> QED
      BY <1>1, <1>3, <2>1, <2>2, <3>1, <3>2
  <2>3. CASE ExeOf(c) # e /\ \E m : Leave(c, m)
    BY <1>5, <2>1, <2>3
  <2> QED
    BY <1>0, <1>10, <2>2, <2>3 DEF Check, Final, Failing
<1>11. ASSUME NEW c \in Copy, NEW m, PublishedTwice(c, m), UNCHANGED <<job, running>>,
              \A b \in Copy \ {c} : pc'[b] = pc[b],
              pc'[c] = pc[c] \/ pc'[c] = "idle", ~Runs(c)
       PROVE  Served(e)'
  <2>1. PICK d \in Copy : Free(d) /\ msg' = [msg EXCEPT ![d] = m]
    BY <1>11 DEF PublishedTwice, Spare
  <2>2. Kept(d)
    BY <2>1 DEF Kept, Runs, Waits, Free, Blank
  <2>3. \A b \in Copy \ {d} : msg'[b] = msg[b]
    BY <1>0, <2>1
  <2>4. ExeOf(c) = e /\ c # d => Kept(c)
    BY <1>2, <1>11, <2>3 DEF Waits, ExeOf
  <2> QED
    BY <1>1, <1>3, <1>11, <2>2, <2>3, <2>4
<1>12. ASSUME NEW c \in Copy, Defer(c) PROVE Served(e)'
  <2>1. pc[c] = "slot" /\ job[c] = "none" /\ UNCHANGED <<job, running>> /\ ~Runs(c)
    BY <1>12 DEF Defer, JobAwaited, Runs
  <2>2. CASE Leave(c, IF settings.defer THEN [InQueue(c, "retry") EXCEPT !.deferred = Held(c)] ELSE InQueue(c, "main"))
    BY <1>5, <1>9, <2>1, <2>2
  <2>3. ASSUME NEW m, PublishedTwice(c, m), Goto(c, "idle") PROVE Served(e)'
    <3>1. pc'[c] = "idle" /\ \A b \in Copy \ {c} : pc'[b] = pc[b]
      BY <2>3 DEF Goto, TypeInv, TypeOK
    <3> QED
      BY <1>11, <2>1, <2>3, <3>1
  <2> QED
    BY <1>12, <2>2, <2>3 DEF Defer
<1>13. ASSUME NEW c \in Copy, TakeRunningLock(c) PROVE Served(e)'
  <2>1. /\ pc[c] = "lock" /\ job[c] = "none" /\ ~Runs(c) /\ UNCHANGED msg
        /\ \A b \in Copy \ {c} : pc'[b] = pc[b] /\ job'[b] = job[b]
    BY <1>13 DEF TakeRunningLock, Goto, JobAt, JobAwaited, Runs, TypeInv, TypeOK
  <2>2. CASE pc'[c] = "await" /\ job'[c] = "find"
    <3>1. Runs(c)' /\ ExeOf(c)' = ExeOf(c)
      BY <2>1, <2>2 DEF Runs, ExeOf
    <3>2. running'[e] = running[e] \/ ExeOf(c) = e
      BY <1>13 DEF TakeRunningLock, TypeInv, TypeOK
    <3>3. ExeOf(c) = e => Kept(c)
      BY <1>2, <3>1
    <3> QED
      BY <1>1, <1>3, <2>1, <3>1, <3>2, <3>3
  <2>3. CASE running[ExeOf(c)] # NoWorker /\ UNCHANGED running
    <3>1. ASSUME ExeOf(c) = e PROVE Kept(c)
      <4>1. PICK x \in Copy : ExeOf(x) = e /\ Runs(x)
        BY <1>0, <2>3, <3>1 DEF Served
      <4>2. ExeOf(x)' = e /\ Runs(x)'
        BY <2>1, <4>1 DEF Runs, ExeOf
      <4> QED
        BY <2>1, <4>2 DEF Kept
    <3> QED
      BY <1>1, <1>3, <2>1, <2>3, <3>1
  <2> QED
    BY <1>13, <2>2, <2>3 DEF TakeRunningLock, Goto, TypeInv, TypeOK
<1>14. ASSUME NEW c \in Copy, UNCHANGED msg, \A b \in Copy \ {c} : pc'[b] = pc[b] /\ job'[b] = job[b],
              running'[e] = running[e] \/ running'[e] = NoWorker,
              ExeOf(c) = e => (Runs(c) => Runs(c)') /\ (Waits(c) => Waits(c)')
       PROVE  Served(e)'
  <2>1. ExeOf(c) = e => Kept(c)
    BY <1>2, <1>14 DEF ExeOf
  <2> QED
    BY <1>1, <1>3, <1>14, <2>1
<1>15. ASSUME NEW c \in Copy, TakeSlot(c) \/ JobDone(c) \/ BookInternal(c) \/ ReleaseRunningLock(c) \/ ReleaseSlot(c)
       PROVE  Served(e)'
  <2>1. /\ UNCHANGED msg /\ \A b \in Copy \ {c} : pc'[b] = pc[b] /\ job'[b] = job[b]
        /\ running'[e] = running[e] \/ running'[e] = NoWorker
    BY <1>15 DEF TakeSlot, JobDone, BookInternal, ReleaseRunningLock, ReleaseSlot, Goto, JobAt, TypeInv, TypeOK
  <2>2. ExeOf(c) = e => (Runs(c) => Runs(c)') /\ (Waits(c) => Waits(c)')
    BY <1>0, <1>15 DEF TakeSlot, JobDone, BookInternal, ReleaseRunningLock, ReleaseSlot, Goto, JobAt, Runs, Waits,
                       TypeInv, TypeOK
  <2> QED
    BY <1>14, <2>1, <2>2
<1>16. ASSUME NEW c \in Copy, Settle(c) PROVE Served(e)'
  <2>1. pc[c] = "settle" /\ ~Waits(c) /\ job[c] = "none" /\ UNCHANGED <<job, running>> /\ \E m : Leave(c, m)
    BY <1>16 DEF Settle, Waits, JobAwaited
  <2> QED
    BY <1>5, <2>1
<1>17. ASSUME NEW c \in Copy, NEW w \in Worker, Deliver(c, w) PROVE Served(e)'
  <2>1. /\ UNCHANGED msg /\ \A b \in Copy \ {c} : pc'[b] = pc[b] /\ job'[b] = job[b]
        /\ (Runs(c) => Runs(c)') /\ (Waits(c) => Waits(c)') /\ UNCHANGED running
    BY <1>17 DEF Deliver, Goto, Runs, Waits, TypeInv, TypeOK
  <2> QED
    BY <1>14, <2>1
\* A message that changes queues.
<1>18. ASSUME NEW c \in Copy, NEW m, msg' = [msg EXCEPT ![c] = m], UNCHANGED <<pc, job, running>>,
              ExeOf(c) = e => m.exe = e /\ m.at # "nowhere"
       PROVE  Served(e)'
  <2>1. msg'[c] = m /\ \A b \in Copy \ {c} : msg'[b] = msg[b]
    BY <1>0, <1>18
  <2>2. ExeOf(c) = e => Kept(c)
    BY <1>2, <1>18, <2>1 DEF ExeOf, Runs, Waits
  <2> QED
    BY <1>1, <1>3, <1>18, <2>1, <2>2
<1>19. ASSUME NEW c \in Copy, RetryBack(c) PROVE Served(e)'
  <2> DEFINE m == [at |-> "main", exe |-> ExeOf(c), deferred |-> FALSE,
                   retry |-> IF msg[c].deferred THEN msg[c].retry ELSE msg[c].retry + 1]
  <2>1. msg[c].at = "retry" /\ UNCHANGED <<pc, job, running>> /\ (msg' = [msg EXCEPT ![c] = m] \/ PublishedTwice(c, m))
    BY <1>19 DEF RetryBack, Failing
  <2>2. m.exe = ExeOf(c) /\ m.at = "main" /\ ~Runs(c)
    BY <2>1 DEF TypeInv, Shape, Fits, Runs
  <2> HIDE DEF m
  <2> QED
    BY <1>11, <1>18, <2>1, <2>2
<1>20. ASSUME NEW c \in Copy, TakeReturned(c) PROVE Served(e)'
  <2>1. msg' = [msg EXCEPT ![c] = [msg[c] EXCEPT !.at = "retry", !.deferred = TRUE]] /\ UNCHANGED <<pc, job, running>>
    BY <1>0, <1>20 DEF TakeReturned
  <2>2. ExeOf(c) # e
    BY <1>4, <1>20 DEF TakeReturned
  <2> QED
    BY <1>18, <2>1, <2>2
<1>21. ASSUME NEW c \in Copy, ReopenDead(c) PROVE Served(e)'
  <2>1. ExeOf(c) # e /\ UNCHANGED <<job, running>>
    BY <1>4, <1>21 DEF ReopenDead
  <2>2. \A b \in Copy \ {c} : msg'[b] = msg[b] /\ pc'[b] = pc[b]
    BY <1>0, <1>21 DEF ReopenDead, Goto, TypeInv, TypeOK
  <2> QED
    BY <1>1, <1>3, <2>1, <2>2
<1>22. ASSUME NEW c \in Copy, RepublishDead(c) PROVE Served(e)'
  <2> DEFINE m == [at |-> "main", exe |-> ExeOf(c), deferred |-> msg[c].deferred, retry |-> 0]
  <2>1. /\ UNCHANGED <<job, running>> /\ (msg' = [msg EXCEPT ![c] = m] \/ PublishedTwice(c, m))
        /\ pc[c] = "republish" /\ pc'[c] = "idle" /\ \A b \in Copy \ {c} : pc'[b] = pc[b]
    BY <1>22 DEF RepublishDead, Goto, TypeInv, TypeOK
  <2>2. ExeOf(c) # e /\ ~Runs(c)
    BY <1>4, <2>1 DEF Runs
  <2> HIDE DEF m
  <2>3. CASE msg' = [msg EXCEPT ![c] = m]
    <3>1. \A b \in Copy \ {c} : msg'[b] = msg[b]
      BY <1>0, <2>3
    <3> QED
      BY <1>1, <1>3, <2>1, <2>2, <3>1
  <2> QED
    BY <1>11, <2>1, <2>2, <2>3
<1>23. ASSUME NEW x \in Exe, Cancel(x) \/ Delete(x) PROVE Served(e)'
  <2>1. x # e /\ UNCHANGED <<msg, pc, running>>
    BY <1>0, <1>23 DEF Cancel, Delete, SetLog, TypeInv, TypeOK
  <2>2. \A b \in Copy : ExeOf(b) = e => job'[b] = job[b]
    BY <1>23, <2>1 DEF Cancel, Delete, KillChild
  <2> QED
    BY <1>1, <1>3, <2>1, <2>2
<1>24. ASSUME NEW x \in Exe, LeaseLapses(x) \/ LockExpires(x) \/ OrphanEnds(x) PROVE Served(e)'
  <2>1. UNCHANGED <<msg, pc, job>> /\ (running'[e] = running[e] \/ running'[e] = NoWorker)
    BY <1>24 DEF LeaseLapses, LockExpires, OrphanEnds, TypeInv, TypeOK
  <2> QED
    BY <1>1, <1>3, <2>1
<1>25. ASSUME NEW w \in Worker, LoseChannel(w) PROVE Served(e)'
  <2>1. PICK mine \in SUBSET Copy : \E twin \in [mine -> {c \in Copy : Free(c)}] : LostInto(w, mine, twin)
    BY <1>25, LostChannel
  <2>2. PICK twin \in [mine -> {c \in Copy : Free(c)}] :
          /\ mine = {c \in Copy : by[c] = w /\ Held(c)}
          /\ \A c \in mine : msg'[c] = [msg[c] EXCEPT !.at = "nowhere"] /\ msg'[twin[c]] = msg[c]
          /\ \A c \in Copy : c \notin mine /\ (\A d \in mine : twin[d] # c) =>
               msg'[c] = IF by[c] = w /\ msg[c].at = "returned" THEN Blank ELSE msg[c]
    BY <2>1, Zenon DEF LostInto
  <2>3. UNCHANGED <<pc, job, running>>
    BY <1>25 DEF LoseChannel
  <2>4. ASSUME NEW c \in mine, ExeOf(c) = e PROVE Kept(c)
    <3>1. /\ c \in Copy /\ twin[c] \in Copy /\ pc[twin[c]] = "idle" /\ msg[c].at = "main"
          /\ msg'[c] = [msg[c] EXCEPT !.at = "nowhere"] /\ msg'[twin[c]] = msg[c]
      BY <2>2 DEF Held, Free
    <3>2. ExeOf(c)' = e /\ ExeOf(twin[c])' = e /\ Waits(twin[c])'
      BY <1>0, <2>3, <2>4, <3>1 DEF ExeOf, Waits, Messages
    <3> QED
      BY <2>3, <3>1, <3>2 DEF Kept, Runs
  <2>5. ASSUME NEW c \in Copy, NEW d \in mine, twin[d] = c PROVE Kept(c)
    <3>1. Free(c)
      BY <2>2, <2>5
    <3> QED
      BY <3>1 DEF Kept, Runs, Waits, Free, Blank
  <2>6. ASSUME NEW c \in Copy, ExeOf(c) = e, c \notin mine, \A d \in mine : twin[d] # c PROVE Kept(c)
    <3>1. msg'[c] = msg[c]
      BY <1>4, <2>2, <2>6
    <3> QED
      BY <1>3, <2>3, <2>6, <3>1
  <2> QED
    BY <1>1, <2>3, <2>4, <2>5, <2>6
<1>26. ASSUME NEW w \in Worker, Crash(w) PROVE FALSE
  BY <1>26 DEF Crash, Failing
<1>27. ASSUME NEW c \in Copy, HardTimeout(c) PROVE FALSE
  BY <1>27 DEF HardTimeout, Failing
<1> QED
  BY <1>6, <1>7, <1>8, <1>10, <1>12, <1>13, <1>15, <1>16, <1>17, <1>19, <1>20, <1>21, <1>22, <1>23, <1>24, <1>25,
     <1>26, <1>27
  DEF Next, HandlerStep, BrokerStep

LEMMA StepKeepsServed ==
  ASSUME ServedInv, Next, Without(Failing)' PROVE AllClean' /\ AllServed'
<1>1. TypeInv /\ Without(Failing) /\ \A kind \in Failing : ~Fault(kind)
  BY NotYet DEF ServedInv, JobInv
<1>2. JobAwaited /\ AllClean /\ AllServed
  BY <1>1 DEF ServedInv, JobInv, Without, Failing
<1>3. ASSUME NEW e \in Exe, Undecided(e)' PROVE Served(e)'
  <2>1. CASE ~Undecided(e)
    <3>1. PICK c \in Copy : ExeOf(c) = e /\ msg[c].at = "dlq"
      BY <1>1, <1>3, <2>1, OnlyReopened
    <3>2. log[e] = "none"
      BY <1>2, <1>3, <3>1 DEF AllClean, Clean, Undecided
    <3> QED
      BY <1>1, <1>3, <3>2, RowsStayGone DEF Undecided
  <2> QED
    BY <1>1, <1>2, <1>3, <2>1, ServiceGoesOn
<1> QED
  BY <1>1, <1>2, <1>3, StepKeepsClean DEF AllServed

LEMMA ServedInvariant == Spec => []ServedInv
<1>1. Init => AllClean /\ AllServed
  <2> SUFFICES ASSUME Init PROVE AllClean /\ AllServed
    OBVIOUS
  <2> DEFINE first == CHOOSE f \in [Exe -> Copy] : IsInjective(f)
             started(c) == [Blank EXCEPT !.at = "main", !.exe = CHOOSE e \in Exe : first[e] = c]
  <2>1. first \in [Exe -> Copy] /\ IsInjective(first)
    BY ExeAssumption
  <2>2. TypeInv /\ Blank \in Messages /\ Blank.at = "nowhere" /\ Blank.retry = 0
    BY InitTypes, BlankIsMessage DEF TypeInv, Blank
  <2>3. \A c \in Copy : /\ msg[c] = IF \E e \in Exe : first[e] = c THEN started(c) ELSE Blank
                        /\ pc[c] = "idle" /\ job[c] = "none" /\ outcome[c] = "ack"
    BY DEF Init
  <2>4. \A e \in Exe : running[e] = NoWorker
    BY DEF Init
  <2> HIDE DEF first
  <2>5. ASSUME NEW c \in Copy PROVE msg[c].retry = 0 /\ msg[c].at \in {"main", "nowhere"}
    BY <2>2, <2>3 DEF Messages
  <2>6. ASSUME NEW e \in Exe PROVE ExeOf(first[e]) = e /\ Waits(first[e])
    <3>1. (CHOOSE x \in Exe : first[x] = first[e]) = e
      BY <2>1 DEF IsInjective
    <3>2. msg[first[e]] = started(first[e]) /\ pc[first[e]] = "idle"
      BY <2>1, <2>3
    <3> QED
      BY <2>2, <3>1, <3>2 DEF ExeOf, Messages, Waits
  <2>7. AllClean
    BY <2>3, <2>5 DEF AllClean, Clean
  <2> QED
    BY <2>1, <2>4, <2>6, <2>7 DEF AllServed, Served
<1>2. JobInv /\ JobInv' /\ ServedInv /\ [Next]_vars => ServedInv'
  <2>1. ServedInv /\ JobInv' /\ UNCHANGED vars => ServedInv'
    BY DEF vars, ServedInv, AllClean, Clean, AllServed, Served, Undecided, Runs, Waits, ExeOf, Without
  <2>2. ServedInv /\ JobInv' /\ Next => ServedInv'
    BY StepKeepsServed DEF ServedInv
  <2> QED
    BY <2>1, <2>2
<1>3. JobInv /\ AllClean /\ AllServed => ServedInv
  BY DEF ServedInv
<1> QED
  BY <1>1, <1>2, <1>3, JobInvariant, PTL DEF Spec

\* A routine that is not decided has a message in the broker or a handler at work,
\* whatever combination of faults occurs that leaves one of two things whole: nobody
\* handles its message twice, or no handling fails.
THEOREM NothingIsLost == Spec => []NothingLost
<1>1. ASSUME PresentInv, ServedInv PROVE NothingLost
  <2> SUFFICES ASSUME Without({"crash"}), NEW e \in Exe \ Internal, log[e] = "EM_EXECUCAO",
                      \/ Without({"channel", "redis", "buffer"})
                      \/ Without({"database", "hardTimeout", "noRoutine", "unroutable"})
               PROVE  \E c \in Copy : ExeOf(c) = e /\ (msg[c].at # "nowhere" \/ pc[c] # "idle")
    BY DEF NothingLost
  <2>1. CASE Without({"channel", "redis", "buffer"})
    <3>1. Without(Unreachable)
      BY <2>1 DEF Without, Unreachable
    <3> QED
      BY <1>1, <3>1 DEF PresentInv, AllPresent, Undecided, Present
  <2>2. CASE Without({"database", "hardTimeout", "noRoutine", "unroutable"})
    <3>1. Without(Failing)
      BY <2>2 DEF Without, Failing
    <3> QED
      BY <1>1, <3>1 DEF ServedInv, AllServed, Undecided, Served, Runs, Waits
  <2> QED
    BY <2>1, <2>2
<1> QED
  BY <1>1, PresentInvariant, ServedInvariant, PTL
=============================================================================
