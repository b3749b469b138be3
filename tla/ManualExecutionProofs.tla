------------------------- MODULE ManualExecutionProofs -------------------------
(***************************************************************************)
(* Theorems about the engine of the webapi, for any number of requests,    *)
(* routines and faults: its types, and that a routine is locked exactly     *)
(* while one run of it is on its way.                                       *)
(***************************************************************************)
EXTENDS ManualExecution, FiniteSetTheorems, TLAPS

\* Only a request that was granted has a run.
RunsAreStarted == \A c \in Call : run[c] # "none" => call[c] = "started"

TypeInv == TypeOK /\ RunsAreStarted

LEMMA FaultTypes ==
  ASSUME faults \in [left : 0..MaxFaults, seen : SUBSET FaultKinds], NEW kind, Fault(kind)
  PROVE  /\ faults' \in [left : 0..MaxFaults, seen : SUBSET FaultKinds]
         /\ faults'.seen = faults.seen \cup {kind}
<1>1. /\ faults.left \in 0..MaxFaults /\ faults.seen \subseteq FaultKinds
      /\ faults.left > 0 /\ kind \in FaultKinds
      /\ faults' = [left |-> faults.left - 1, seen |-> faults.seen \cup {kind}]
  BY DEF Fault
<1>2. faults.left - 1 \in 0..MaxFaults
  BY <1>1, FaultsAssumption
<1> QED
  BY <1>1, <1>2

LEMMA RestartTypes ==
  ASSUME TypeInv, Restart, row' \in [Call -> Final \cup {"none", "EM_EXECUCAO", "deleted"}],
         faults' \in [left : 0..MaxFaults, seen : SUBSET FaultKinds]
  PROVE  TypeInv'
BY DEF TypeInv, TypeOK, RunsAreStarted, Restart, InFlight, Running

LEMMA RequestKeepsTypes ==
  ASSUME TypeInv, NEW c \in Call, Request(c) \/ RequestStep(c) \/ \E e \in Call : RequestReprocess(c, e)
  PROVE  TypeInv'
<1>0. ASSUME NEW kind, Fault(kind) PROVE faults' \in [left : 0..MaxFaults, seen : SUBSET FaultKinds]
  BY <1>0, FaultTypes DEF TypeInv, TypeOK
<1>1. CASE Request(c)
  BY <1>1 DEF Request, Coming, CallTo, TypeInv, TypeOK, RunsAreStarted, processVars, InFlight
<1>2. ASSUME NEW e \in Call, RequestReprocess(c, e) PROVE TypeInv'
  <2>1. call[c] = "new" /\ run[c] = "none" /\ c \notin active
    BY <1>2 DEF RequestReprocess, Coming, TypeInv, TypeOK, RunsAreStarted
  <2> QED
    BY <1>2, <2>1 DEF RequestReprocess, CallTo, TypeInv, TypeOK, RunsAreStarted, processVars, InFlight
<1>3. CASE Reset(c)
  BY <1>0, <1>3 DEF Reset, CallTo, Row, NoFault, TypeInv, TypeOK, RunsAreStarted, processVars, InFlight
<1>4. CASE Check(c) \/ Create(c)
  <2>1. faults' \in [left : 0..MaxFaults, seen : SUBSET FaultKinds]
    BY <1>0, <1>4 DEF Check, Create, NoFault, TypeInv, TypeOK
  <2>2. /\ UNCHANGED <<routine, exe, outcome, active, killed, deaf>> /\ run[c] = "none"
        /\ row' \in [Call -> Final \cup {"none", "EM_EXECUCAO", "deleted"}]
    BY <1>4 DEF Check, Create, Row, processVars, TypeInv, TypeOK, RunsAreStarted
  <2>3. lock' \subseteq Routine
    BY <1>4 DEF Check, Create, TypeInv, TypeOK
  <2>4. \/ run' = run /\ \E step \in {"refused", "create"} : CallTo(c, step)
        \/ RunTo(c, "context") /\ CallTo(c, "started")
    BY <1>4 DEF Check, Create
  <2> QED
    BY <2>1, <2>2, <2>3, <2>4
    DEF CallTo, RunTo, TypeInv, TypeOK, RunsAreStarted, InFlight, Running
<1> QED
  BY <1>1, <1>2, <1>3, <1>4 DEF RequestStep

LEMMA RunKeepsTypes ==
  ASSUME TypeInv, NEW c \in Call, RunStep(c) \/ ChildSilent(c) PROVE TypeInv'
<1>0. ASSUME NEW kind, Fault(kind) PROVE faults' \in [left : 0..MaxFaults, seen : SUBSET FaultKinds]
  BY <1>0, FaultTypes DEF TypeInv, TypeOK
<1>1. CASE BuildContext(c)
  BY <1>0, <1>1 DEF BuildContext, RunTo, NoFault, TypeInv, TypeOK, RunsAreStarted, requestVars, InFlight,
                    Running
<1>2. CASE ChildEnds(c)
  BY <1>2 DEF ChildEnds, RunTo, TypeInv, TypeOK, RunsAreStarted, requestVars, InFlight, Running, Final
<1>3. CASE ChildSilent(c)
  BY <1>0, <1>3 DEF ChildSilent, TypeInv, TypeOK, RunsAreStarted, requestVars, InFlight
<1>4. CASE Book(c)
  BY <1>0, <1>4 DEF Book, Row, RunTo, NoFault, TypeInv, TypeOK, RunsAreStarted, requestVars, processVars,
                    InFlight, Running, Final
<1>5. CASE Touch(c)
  BY <1>0, <1>5 DEF Touch, End, RunTo, NoFault, TypeInv, TypeOK, RunsAreStarted, requestVars, InFlight,
                    Running
<1>6. CASE Fail(c)
  <2>1. faults' \in [left : 0..MaxFaults, seen : SUBSET FaultKinds]
    BY <1>0, <1>6 DEF Fail, NoFault, TypeInv, TypeOK
  <2>2. CASE Restart /\ UNCHANGED row
    BY <2>1, <2>2, RestartTypes DEF TypeInv, TypeOK
  <2>3. CASE Row(exe[c], "ERRO") /\ End(c) /\ UNCHANGED <<requestVars, active, deaf>> /\ run[c] = "fail"
    BY <2>1, <2>3 DEF Row, End, RunTo, TypeInv, TypeOK, RunsAreStarted, requestVars, InFlight, Running,
                      Final
  <2> QED
    BY <1>6, <2>2, <2>3 DEF Fail
<1> QED
  BY <1>1, <1>2, <1>3, <1>4, <1>5, <1>6 DEF RunStep

LEMMA StepKeepsTypes == TypeInv /\ [Next]_vars => TypeInv'
<1> SUFFICES ASSUME TypeInv, [Next]_vars PROVE TypeInv'
  OBVIOUS
<1>1. CASE UNCHANGED vars
  BY <1>1 DEF vars, requestVars, processVars, TypeInv, TypeOK, RunsAreStarted, InFlight
<1>2. CASE Crash
  BY <1>2, FaultTypes, RestartTypes DEF Crash, TypeInv, TypeOK
<1>3. ASSUME NEW e \in Call, Cancel(e) \/ BulkCancel(e) \/ Delete(e) PROVE TypeInv'
  BY <1>3 DEF Cancel, BulkCancel, Delete, Row, TypeInv, TypeOK, RunsAreStarted, requestVars, processVars,
              InFlight, Running, Final
<1> QED
  BY <1>1, <1>2, <1>3, RequestKeepsTypes, RunKeepsTypes DEF Next

LEMMA InitTypes == Init => TypeInv
BY TargetsAssumption, FaultsAssumption DEF Init, TypeInv, TypeOK, RunsAreStarted, InFlight, Running

\* The types of the engine hold under every fault; the Map of processes has one entry
\* for an execution at most.
THEOREM ManualTypeCorrect == Spec => []TypeOK
<1>1. Spec => []TypeInv
  BY InitTypes, StepKeepsTypes, PTL DEF Spec
<1> QED
  BY <1>1, PTL DEF TypeInv

-----------------------------------------------------------------------------
(* The lock of a routine, as long as no two requests for it race.           *)
LocksHeld ==
  /\ \A c \in Call : InFlight(c) => routine[c] \in lock
  /\ \A c, d \in Call : InFlight(c) /\ InFlight(d) /\ routine[c] = routine[d] => c = d
  /\ \A t \in lock : \E c \in Call : InFlight(c) /\ routine[c] = t

\* Who is between its check and its lock is alone with its routine.
StartsAlone ==
  /\ \A c \in Call : Starting(c) => routine[c] \notin lock
  /\ \A c, d \in Call : Starting(c) /\ Starting(d) /\ routine[c] = routine[d] => c = d

LockInv == TypeInv /\ (Without({"race"}) => LocksHeld /\ StartsAlone)

\* The faults are never forgotten, and what has not happened did not happen in this step.
LEMMA NotYet ==
  ASSUME TypeInv, [Next]_vars, NEW K, Without(K)'
  PROVE  Without(K) /\ \A kind \in K : ~Fault(kind)
<1>1. faults \in [left : 0..MaxFaults, seen : SUBSET FaultKinds]
  BY DEF TypeInv, TypeOK
<1>2. ASSUME NEW kind, Fault(kind) PROVE faults'.seen = faults.seen \cup {kind}
  BY <1>1, <1>2, FaultTypes
<1>3. ASSUME NEW c \in Call, RequestStep(c) \/ RunStep(c) \/ ChildSilent(c)
      PROVE  faults.seen \subseteq faults'.seen
  BY <1>2, <1>3 DEF RequestStep, Reset, Check, Create, RunStep, BuildContext, ChildEnds, Book, Touch, Fail,
                    ChildSilent, NoFault
<1>4. ASSUME NEW c \in Call, \/ Request(c) \/ Cancel(c) \/ BulkCancel(c) \/ Delete(c)
                             \/ \E e \in Call : RequestReprocess(c, e)
      PROVE  faults' = faults
  BY <1>4 DEF Request, Cancel, BulkCancel, Delete, RequestReprocess
<1>5. CASE Crash
  BY <1>2, <1>5 DEF Crash, Without
<1>6. faults.seen \subseteq faults'.seen
  BY <1>2, <1>3, <1>4 DEF Next, vars, Crash
<1> QED
  BY <1>2, <1>6 DEF Without

\* Neither runs nor their locks change, and nobody starts.
LEMMA LocksStay ==
  ASSUME LocksHeld, StartsAlone, lock' = lock,
         \A c \in Call : /\ InFlight(c)' = InFlight(c) /\ (Starting(c)' => Starting(c))
                         /\ InFlight(c) \/ Starting(c) => routine'[c] = routine[c]
  PROVE  LocksHeld' /\ StartsAlone'
BY DEF LocksHeld, StartsAlone

LEMMA LocksEnd ==
  ASSUME TypeInv, LocksHeld, StartsAlone, NEW c \in Call, InFlight(c), End(c), UNCHANGED requestVars
  PROVE  LocksHeld' /\ StartsAlone'
<1>1. /\ UNCHANGED <<routine, call>> /\ lock' = lock \ {routine[c]}
      /\ \A d \in Call : InFlight(d)' <=> InFlight(d) /\ d # c
  BY DEF End, RunTo, requestVars, TypeInv, TypeOK, InFlight, Running
<1> QED
  BY <1>1 DEF LocksHeld, StartsAlone, Starting

\* c takes the lock that nobody has.
LEMMA LocksTaken ==
  ASSUME TypeInv, LocksHeld, StartsAlone, NEW c \in Call, UNCHANGED routine, routine[c] \notin lock,
         lock' = lock \cup {routine[c]}, RunTo(c, "context"), CallTo(c, "started"),
         \A d \in Call : Starting(d) /\ routine[d] = routine[c] => d = c
  PROVE  LocksHeld' /\ StartsAlone'
<1>1. \A d \in Call : InFlight(d)' <=> InFlight(d) \/ d = c
  BY DEF RunTo, TypeInv, TypeOK, InFlight, Running
<1>2. \A d \in Call : Starting(d)' => Starting(d) /\ d # c
  BY DEF CallTo, TypeInv, TypeOK, Starting
<1>3. LocksHeld'
  BY <1>1 DEF LocksHeld
<1> QED
  BY <1>2, <1>3 DEF StartsAlone

LEMMA StepKeepsLocks ==
  ASSUME LockInv, Next, Without({"race"})' PROVE LocksHeld' /\ StartsAlone'
<1>0. TypeInv /\ LocksHeld /\ StartsAlone /\ ~Fault("race")
  BY NotYet DEF LockInv
<1>1. ASSUME Restart PROVE LocksHeld' /\ StartsAlone'
  BY <1>0, <1>1 DEF Restart, LocksHeld, StartsAlone, InFlight, Running, Starting
<1>2. ASSUME NEW c \in Call, Request(c) \/ Reset(c) \/ \E e \in Call : RequestReprocess(c, e)
      PROVE  LocksHeld' /\ StartsAlone'
  <2>1. /\ UNCHANGED <<lock, run>> /\ call[c] \in {"new", "reset"}
        /\ \E step \in {"reset", "find", "refused"} : call' = [call EXCEPT ![c] = step]
        /\ \A d \in Call \ {c} : routine'[d] = routine[d]
    BY <1>0, <1>2 DEF Request, Reset, RequestReprocess, Coming, CallTo, TypeInv, TypeOK
  <2>2. run[c] = "none"
    BY <1>0, <2>1 DEF TypeInv, RunsAreStarted
  <2>3. \A d \in Call : /\ InFlight(d)' = InFlight(d) /\ (Starting(d)' => Starting(d))
                        /\ InFlight(d) \/ Starting(d) => routine'[d] = routine[d]
    BY <1>0, <2>1, <2>2 DEF InFlight, Running, Starting, TypeInv, TypeOK
  <2> QED
    BY <1>0, <2>1, <2>3, LocksStay
<1>3. ASSUME NEW c \in Call, Check(c) PROVE LocksHeld' /\ StartsAlone'
  <2>1. CASE CallTo(c, "refused") /\ UNCHANGED <<lock, run>>
    <3>1. \A d \in Call : Starting(d)' => Starting(d)
      BY <1>0, <2>1 DEF CallTo, Starting, TypeInv, TypeOK
    <3> QED
      BY <1>0, <1>3, <2>1, <3>1, LocksStay DEF Check, InFlight
  <2>2. CASE ~Busy(c) /\ ~Racing(c) /\ exe[c] = c /\ CallTo(c, "create") /\ UNCHANGED <<lock, run>>
    <3>1. routine' = routine /\ \A d \in Call : InFlight(d)' = InFlight(d)
      BY <1>3, <2>2 DEF Check, InFlight
    <3>2. \A d \in Call : Starting(d)' => Starting(d) \/ d = c
      BY <1>0, <2>2 DEF CallTo, Starting, TypeInv, TypeOK
    <3>3. StartsAlone'
      BY <1>0, <2>2, <3>1, <3>2 DEF StartsAlone, Racing, Busy
    <3> QED
      BY <1>0, <2>2, <3>1, <3>3 DEF LocksHeld
  <2>3. CASE /\ ~Busy(c) /\ ~Racing(c) /\ CallTo(c, "started") /\ lock' = lock \cup {routine[c]}
             /\ RunTo(c, "context")
    BY <1>0, <1>3, <2>3, LocksTaken DEF Check, Busy, Racing
  <2> QED
    BY <1>0, <1>3, <2>1, <2>2, <2>3 DEF Check
<1>4. ASSUME NEW c \in Call, Create(c) PROVE LocksHeld' /\ StartsAlone'
  <2>1. CASE CallTo(c, "refused") /\ UNCHANGED <<lock, run>>
    <3>1. \A d \in Call : Starting(d)' => Starting(d)
      BY <1>0, <2>1 DEF CallTo, Starting, TypeInv, TypeOK
    <3> QED
      BY <1>0, <1>4, <2>1, <3>1, LocksStay DEF Create, InFlight
  <2>2. CASE lock' = lock \cup {routine[c]} /\ RunTo(c, "context") /\ CallTo(c, "started")
    <3>1. Starting(c) /\ routine' = routine
      BY <1>4 DEF Create, Starting
    <3> QED
      BY <1>0, <2>2, <3>1, LocksTaken DEF StartsAlone
  <2> QED
    BY <1>4, <2>1, <2>2 DEF Create
<1>5. ASSUME NEW c \in Call, RunStep(c) \/ ChildSilent(c) PROVE LocksHeld' /\ StartsAlone'
  <2>1. \/ Restart
        \/ InFlight(c) /\ End(c) /\ UNCHANGED requestVars
        \/ /\ UNCHANGED <<requestVars, lock>>
           /\ run' = run \/ (InFlight(c) /\ \E step \in Running : RunTo(c, step))
    BY <1>5 DEF RunStep, BuildContext, ChildEnds, Book, Touch, Fail, ChildSilent, InFlight, Running
  <2>2. CASE /\ UNCHANGED <<requestVars, lock>>
             /\ run' = run \/ (InFlight(c) /\ \E step \in Running : RunTo(c, step))
    <3>1. UNCHANGED <<routine, call, lock>> /\ \A d \in Call : InFlight(d)' = InFlight(d)
      BY <1>0, <2>2 DEF requestVars, RunTo, InFlight, Running, TypeInv, TypeOK
    <3> QED
      BY <1>0, <3>1, LocksStay DEF Starting
  <2> QED
    BY <1>0, <1>1, <2>1, <2>2, LocksEnd
<1>6. ASSUME NEW e \in Call, Cancel(e) \/ BulkCancel(e) \/ Delete(e) PROVE LocksHeld' /\ StartsAlone'
  BY <1>0, <1>6, LocksStay DEF Cancel, BulkCancel, Delete, requestVars, InFlight, Starting
<1> QED
  BY <1>1, <1>2, <1>3, <1>4, <1>5, <1>6 DEF Next, Crash, RequestStep

\* A routine is locked exactly while one run of it is on its way: no failure, crash or
\* silent child leaks the lock, gives it back early or lets a second run in, as long as
\* no two requests for the routine race.
THEOREM RoutineLockIsRun == Spec => []LockMeansRun
<1>1. Init => LockInv
  BY InitTypes DEF Init, LockInv, LocksHeld, StartsAlone, InFlight, Running, Starting
<1>2. LockInv /\ [Next]_vars => LockInv'
  <2>1. LockInv /\ UNCHANGED vars => LockInv'
    BY StepKeepsTypes DEF vars, LockInv, LocksHeld, StartsAlone, InFlight, Starting, Without
  <2> QED
    BY <2>1, StepKeepsLocks, StepKeepsTypes DEF LockInv
<1>3. LockInv => LockMeansRun
  <2> SUFFICES ASSUME LockInv, Without({"race"}), NEW t \in Routine
               PROVE  Cardinality({c \in Call : InFlight(c) /\ routine[c] = t})
                        = IF t \in lock THEN 1 ELSE 0
    BY DEF LockMeansRun
  <2> DEFINE S == {c \in Call : InFlight(c) /\ routine[c] = t}
  <2>1. CASE t \in lock
    <3>1. PICK c \in Call : InFlight(c) /\ routine[c] = t
      BY <2>1 DEF LockInv, LocksHeld
    <3>2. S = {c}
      BY <3>1 DEF LockInv, LocksHeld
    <3> QED
      BY <2>1, <3>2, FS_Singleton
  <2>2. CASE t \notin lock
    <3>1. S = {}
      BY <2>2 DEF LockInv, LocksHeld
    <3> QED
      BY <2>2, <3>1, FS_EmptySet
  <2> QED
    BY <2>1, <2>2
<1> QED
  BY <1>1, <1>2, <1>3, PTL DEF Spec

-----------------------------------------------------------------------------
(* The rows.                                                                *)
RowsAreStarted ==
  /\ \A e \in Call : row[e] # "none" => call[e] = "started" /\ exe[e] = e
  /\ \A c \in Call : exe[c] # c \/ run[c] # "none" => row[exe[c]] # "none"
  /\ \A c \in Call : call[c] = "create" => exe[c] = c
  /\ \A c \in Call : call[c] = "reset" => exe[c] # c
  /\ \A c \in Call : run[c] = "book" => outcome[c] # "none"

RowInv == TypeInv /\ RowsAreStarted

LEMMA RestartKeepsRows ==
  ASSUME RowInv, Restart, UNCHANGED row PROVE RowsAreStarted'
BY DEF RowInv, RowsAreStarted, Restart, InFlight, Running, TypeInv, TypeOK

LEMMA StepKeepsRows == ASSUME RowInv, [Next]_vars PROVE RowsAreStarted'
<1>0. TypeInv /\ RowsAreStarted
  BY DEF RowInv
<1>1. ASSUME NEW c \in Call, Request(c) \/ Reset(c) PROVE RowsAreStarted'
  BY <1>0, <1>1 DEF Request, Reset, Coming, CallTo, Row, RowsAreStarted, TypeInv, TypeOK, processVars
<1>2. ASSUME NEW c \in Call, NEW e \in Call, RequestReprocess(c, e) PROVE RowsAreStarted'
  <2>1. call[c] = "new" /\ row[c] = "none" /\ run[c] = "none" /\ row[e] # "none" /\ e # c
    BY <1>0, <1>2 DEF RequestReprocess, Coming, RowsAreStarted, TypeInv, RunsAreStarted
  <2> QED
    BY <1>0, <1>2, <2>1 DEF RequestReprocess, CallTo, RowsAreStarted, TypeInv, TypeOK
<1>3. ASSUME NEW c \in Call, Check(c) PROVE RowsAreStarted'
  <2>1. /\ UNCHANGED <<row, exe, outcome>> /\ call[c] = "find" /\ run[c] = "none"
        /\ \/ run' = run /\ CallTo(c, "refused")
           \/ run' = run /\ CallTo(c, "create") /\ exe[c] = c
           \/ RunTo(c, "context") /\ CallTo(c, "started") /\ exe[c] # c
    BY <1>0, <1>3 DEF Check, TypeInv, RunsAreStarted
  <2> QED
    BY <1>0, <2>1 DEF CallTo, RunTo, RowsAreStarted, TypeInv, TypeOK
<1>4. ASSUME NEW c \in Call, Create(c) PROVE RowsAreStarted'
  BY <1>0, <1>4 DEF Create, Row, RunTo, CallTo, RowsAreStarted, TypeInv, TypeOK, processVars
<1>5. ASSUME NEW c \in Call, BuildContext(c) \/ ChildEnds(c) \/ ChildSilent(c) \/ Book(c) \/ Touch(c)
      PROVE  RowsAreStarted'
  <2>1. /\ UNCHANGED <<call, exe>> /\ run[c] # "none"
        /\ \A d \in Call \ {c} : run'[d] = run[d] /\ outcome'[d] = outcome[d]
        /\ run'[c] # "none" /\ (run'[c] = "book" => outcome'[c] # "none")
    BY <1>0, <1>5
    DEF BuildContext, ChildEnds, ChildSilent, Book, Touch, End, RunTo, requestVars, RowsAreStarted,
        TypeInv, TypeOK, Final
  <2>2. row' = row \/ (Row(exe[c], outcome[c]) /\ outcome[c] # "none")
    BY <1>0, <1>5 DEF BuildContext, ChildEnds, ChildSilent, Book, Touch, RowsAreStarted
  <2>3. row[exe[c]] # "none" /\ exe[c] \in Call
    BY <1>0, <2>1 DEF RowsAreStarted, TypeInv, TypeOK
  <2>4. \A e \in Call : row'[e] # "none" <=> row[e] # "none"
    BY <1>0, <2>2, <2>3 DEF Row, TypeInv, TypeOK
  <2> QED
    BY <1>0, <2>1, <2>4 DEF RowsAreStarted, TypeInv, TypeOK
<1>6. ASSUME NEW c \in Call, Fail(c) PROVE RowsAreStarted'
  <2>1. CASE run[c] = "fail" /\ Row(exe[c], "ERRO") /\ End(c) /\ UNCHANGED requestVars
    BY <1>0, <2>1 DEF Row, End, RunTo, requestVars, RowsAreStarted, TypeInv, TypeOK
  <2> QED
    BY <1>6, <2>1, RestartKeepsRows DEF Fail
<1>7. ASSUME NEW e \in Call, Cancel(e) \/ BulkCancel(e) \/ Delete(e) PROVE RowsAreStarted'
  <2>1. /\ UNCHANGED <<requestVars, run, outcome>> /\ row[e] # "none"
        /\ row' = row \/ \E status \in {"CANCELADO", "deleted"} : Row(e, status)
    BY <1>7 DEF Cancel, BulkCancel, Delete
  <2> QED
    BY <1>0, <2>1 DEF Row, requestVars, RowsAreStarted, TypeInv, TypeOK
<1>8. CASE Crash
  BY <1>8, RestartKeepsRows DEF Crash
<1>9. CASE UNCHANGED vars
  BY <1>0, <1>9 DEF vars, requestVars, RowsAreStarted
<1> QED
  BY <1>1, <1>2, <1>3, <1>4, <1>5, <1>6, <1>7, <1>8, <1>9 DEF Next, RequestStep, RunStep

(* A row that is open.                                                      *)
\* c is on its way to write the row of e, or was refused after it opened it.
Answers(c, e) ==
  /\ exe[c] = e
  /\ \/ run[c] \in Running \ {"touch"}
     \/ call[c] = "find"
     \/ c # e /\ call[c] = "refused"

OpenRowIsAnswered == \A e \in Call : row[e] = "EM_EXECUCAO" => \E c \in Call : Answers(c, e)

OpenInv == RowInv /\ (Lost = {} => OpenRowIsAnswered)

\* Who answered goes on answering, and no row is opened.
LEMMA StillAnswered ==
  ASSUME OpenRowIsAnswered,
         \A e \in Call : row'[e] = "EM_EXECUCAO" =>
           row[e] = "EM_EXECUCAO" /\ \A c \in Call : Answers(c, e) => Answers(c, e)'
  PROVE  OpenRowIsAnswered'
BY DEF OpenRowIsAnswered

LEMMA RestartAnswers ==
  ASSUME RowInv, OpenRowIsAnswered, Restart, UNCHANGED row, Lost' = {} PROVE OpenRowIsAnswered'
<1>1. \A c \in Call : run[c] \notin Running
  BY DEF Lost, Restart, InFlight
<1>2. ASSUME NEW e \in Call, row[e] = "EM_EXECUCAO", NEW c \in Call, Answers(c, e) PROVE Answers(c, e)'
  BY <1>1, <1>2 DEF Answers, Restart, RowInv, RowsAreStarted, TypeInv, TypeOK
<1> QED
  BY <1>2, StillAnswered

LEMMA StepAnswers ==
  ASSUME OpenInv, Next, Lost' = {} PROVE OpenRowIsAnswered'
<1>0. TypeInv /\ RowsAreStarted /\ OpenRowIsAnswered /\ RowInv
  <2>1. \A c \in Call : run[c] = "lost" => run'[c] = "lost"
    <3>1. ASSUME Restart PROVE \A c \in Call : run[c] = "lost" => run'[c] = "lost"
      BY <3>1 DEF Restart, InFlight, Running
    <3>2. ASSUME NEW c \in Call, \/ Request(c) \/ Reset(c) \/ Cancel(c) \/ BulkCancel(c) \/ Delete(c)
                                 \/ ChildSilent(c) \/ \E e \in Call : RequestReprocess(c, e)
          PROVE  run' = run
      BY <3>2 DEF Request, Reset, Cancel, BulkCancel, Delete, ChildSilent, RequestReprocess
    <3>3. ASSUME NEW c \in Call, Check(c) \/ Create(c) \/ RunStep(c)
          PROVE  Restart \/ \A d \in Call : run[d] = "lost" => run'[d] = "lost"
      <4>1. \/ Restart
            \/ run' = run
            \/ run[c] # "lost" /\ \E step : RunTo(c, step)
        BY <3>3
        DEF Check, Create, RunStep, BuildContext, ChildEnds, Book, Touch, Fail, End, OpenInv, RowInv, TypeInv,
            RunsAreStarted
      <4> QED
        BY <4>1 DEF RunTo, OpenInv, RowInv, TypeInv, TypeOK
    <3> QED
      BY <3>1, <3>2, <3>3 DEF Next, RequestStep, Crash
  <2> QED
    BY <2>1 DEF Lost, OpenInv, RowInv
<1>1. ASSUME Restart, UNCHANGED row PROVE OpenRowIsAnswered'
  BY <1>0, <1>1, RestartAnswers
<1>2. ASSUME NEW c \in Call, Request(c) \/ \E e \in Call : RequestReprocess(c, e)
      PROVE  OpenRowIsAnswered'
  <2>1. /\ UNCHANGED <<row, run>> /\ call[c] = "new" /\ run[c] = "none"
        /\ \A d \in Call \ {c} : call'[d] = call[d] /\ exe'[d] = exe[d]
    BY <1>0, <1>2 DEF Request, RequestReprocess, Coming, CallTo, TypeInv, TypeOK, RunsAreStarted
  <2>2. \A d, e \in Call : Answers(d, e) => Answers(d, e)'
    BY <2>1 DEF Answers, Running
  <2> QED
    BY <1>0, <2>1, <2>2, StillAnswered
<1>3. ASSUME NEW c \in Call, Reset(c) PROVE OpenRowIsAnswered'
  <2>1. /\ UNCHANGED <<exe, run>> /\ call[c] = "reset"
        /\ \A d, e \in Call : Answers(d, e) => Answers(d, e)'
    BY <1>0, <1>3 DEF Reset, CallTo, Answers, TypeInv, TypeOK
  <2>2. CASE UNCHANGED row
    BY <1>0, <2>1, <2>2, StillAnswered
  <2>3. CASE Row(exe[c], "EM_EXECUCAO") /\ CallTo(c, "find")
    <3>1. Answers(c, exe[c])'
      BY <1>0, <2>1, <2>3 DEF CallTo, Answers, TypeInv, TypeOK
    <3>2. \A e \in Call \ {exe[c]} : row'[e] = row[e]
      BY <1>0, <2>3 DEF Row, TypeInv, TypeOK
    <3> QED
      BY <1>0, <2>1, <3>1, <3>2 DEF OpenRowIsAnswered
  <2> QED
    BY <1>3, <2>2, <2>3 DEF Reset
<1>4. ASSUME NEW c \in Call, Check(c) PROVE OpenRowIsAnswered'
  <2>1. /\ UNCHANGED <<row, exe>> /\ call[c] = "find" /\ run[c] = "none"
        /\ \A d \in Call \ {c} : call'[d] = call[d] /\ run'[d] = run[d]
        /\ \/ call'[c] = "refused"
           \/ exe[c] = c
           \/ run'[c] = "context"
    BY <1>0, <1>4 DEF Check, CallTo, RunTo, TypeInv, TypeOK, RunsAreStarted
  <2>2. ASSUME NEW e \in Call, row[e] = "EM_EXECUCAO", NEW d \in Call, Answers(d, e) PROVE Answers(d, e)'
    <3>1. exe[c] = c => row[c] = "none"
      BY <1>0, <2>1 DEF RowsAreStarted
    <3>2. CASE d # c
      BY <2>1, <2>2, <3>2 DEF Answers
    <3>3. CASE d = c
      BY <2>1, <2>2, <3>1, <3>3 DEF Answers, Running
    <3> QED
      BY <3>2, <3>3
  <2> QED
    BY <1>0, <2>1, <2>2, StillAnswered
<1>5. ASSUME NEW c \in Call, Create(c) PROVE OpenRowIsAnswered'
  <2>1. /\ UNCHANGED exe /\ call[c] = "create" /\ run[c] = "none" /\ exe[c] = c
        /\ \A d \in Call \ {c} : call'[d] = call[d] /\ run'[d] = run[d] /\ row'[d] = row[d]
        /\ \/ run'[c] = "context"
           \/ row' = row
    BY <1>0, <1>5 DEF Create, CallTo, RunTo, Row, TypeInv, TypeOK, RunsAreStarted, RowsAreStarted
  <2>2. row[c] = "none"
    BY <1>0, <2>1 DEF RowsAreStarted
  <2>3. \A d, e \in Call : Answers(d, e) => Answers(d, e)'
    BY <2>1 DEF Answers, Running
  <2>4. run'[c] = "context" => Answers(c, c)'
    BY <2>1 DEF Answers, Running
  <2> QED
    BY <1>0, <2>1, <2>2, <2>3, <2>4 DEF OpenRowIsAnswered
<1>6. ASSUME NEW c \in Call, BuildContext(c) \/ ChildEnds(c) \/ ChildSilent(c) PROVE OpenRowIsAnswered'
  <2>1. /\ UNCHANGED <<row, exe, call>>
        /\ \A d \in Call : run'[d] = run[d] \/ run'[d] \in Running \ {"touch"}
    BY <1>0, <1>6 DEF BuildContext, ChildEnds, ChildSilent, RunTo, requestVars, Running, TypeInv, TypeOK
  <2> QED
    BY <1>0, <2>1, StillAnswered DEF Answers
<1>7. ASSUME NEW c \in Call, Book(c) PROVE OpenRowIsAnswered'
  <2>1. /\ UNCHANGED <<exe, call>> /\ run[c] = "book" /\ outcome[c] \in Final
        /\ \A d \in Call \ {c} : run'[d] = run[d]
        /\ \/ row' = row /\ run'[c] = "fail"
           \/ row' = [row EXCEPT ![exe[c]] = outcome[c]]
    BY <1>0, <1>7 DEF Book, RunTo, Row, requestVars, TypeInv, TypeOK, RowsAreStarted
  <2>2. \A e \in Call : row'[e] = "EM_EXECUCAO" =>
          row[e] = "EM_EXECUCAO" /\ (e # exe[c] \/ run'[c] = "fail")
    BY <1>0, <2>1 DEF TypeInv, TypeOK, Final
  <2>3. \A d, e \in Call : Answers(d, e) /\ (e # exe[c] \/ run'[c] = "fail") => Answers(d, e)'
    BY <2>1 DEF Answers, Running
  <2> QED
    BY <1>0, <2>2, <2>3, StillAnswered
<1>8. ASSUME NEW c \in Call, Touch(c) PROVE OpenRowIsAnswered'
  <2>1. /\ UNCHANGED <<row, exe, call>> /\ run[c] = "touch"
        /\ \A d \in Call \ {c} : run'[d] = run[d]
    BY <1>0, <1>8 DEF Touch, End, RunTo, requestVars, TypeInv, TypeOK
  <2>2. call[c] = "started"
    BY <1>0, <2>1 DEF TypeInv, RunsAreStarted
  <2>3. \A d, e \in Call : Answers(d, e) => Answers(d, e)'
    BY <2>1, <2>2 DEF Answers
  <2> QED
    BY <1>0, <2>1, <2>3, StillAnswered
<1>9. ASSUME NEW c \in Call, Fail(c) PROVE OpenRowIsAnswered'
  <2>1. CASE run[c] = "fail" /\ Row(exe[c], "ERRO") /\ End(c) /\ UNCHANGED requestVars
    <3>1. /\ UNCHANGED <<exe, call>> /\ \A d \in Call \ {c} : run'[d] = run[d]
          /\ \A e \in Call : row'[e] = "EM_EXECUCAO" => row[e] = "EM_EXECUCAO" /\ e # exe[c]
      BY <1>0, <2>1 DEF Row, End, RunTo, requestVars, TypeInv, TypeOK
    <3>2. \A d, e \in Call : Answers(d, e) /\ e # exe[c] => Answers(d, e)'
      BY <3>1 DEF Answers
    <3> QED
      BY <1>0, <3>1, <3>2, StillAnswered
  <2> QED
    BY <1>1, <1>9, <2>1 DEF Fail
<1>10. ASSUME NEW x \in Call, Cancel(x) \/ BulkCancel(x) \/ Delete(x) PROVE OpenRowIsAnswered'
  <2>1. /\ UNCHANGED <<exe, call, run>>
        /\ row' = row \/ \E status \in {"CANCELADO", "deleted"} : Row(x, status)
    BY <1>10 DEF Cancel, BulkCancel, Delete, requestVars
  <2>2. \A e \in Call : row'[e] = "EM_EXECUCAO" => row[e] = "EM_EXECUCAO"
    BY <1>0, <2>1 DEF Row, TypeInv, TypeOK
  <2> QED
    BY <1>0, <2>1, <2>2, StillAnswered DEF Answers
<1> QED
  BY <1>1, <1>2, <1>3, <1>4, <1>5, <1>6, <1>7, <1>8, <1>9, <1>10 DEF Next, RequestStep, RunStep, Crash

LEMMA OpenInvariant == Spec => []OpenInv
<1>1. Init => OpenInv
  BY InitTypes DEF Init, OpenInv, RowInv, RowsAreStarted, OpenRowIsAnswered
<1>2. OpenInv /\ [Next]_vars => OpenInv'
  <2>1. OpenInv /\ UNCHANGED vars => (Lost = {} => OpenRowIsAnswered)'
    BY DEF vars, requestVars, OpenInv, OpenRowIsAnswered, Answers, Lost
  <2>2. OpenInv /\ [Next]_vars => RowInv'
    BY StepKeepsRows, StepKeepsTypes DEF OpenInv, RowInv
  <2> QED
    BY <2>1, <2>2, StepAnswers DEF OpenInv
<1> QED
  BY <1>1, <1>2, PTL DEF Spec

\* Until the webapi falls, no row stays open that nobody will close: each has a run or
\* a request on its way, or was reopened by a reprocessing that was then refused.
THEOREM OpenRowsHaveRuns == Spec => []OpenRowHasRun
<1>1. OpenInv => OpenRowHasRun
  BY DEF OpenInv, OpenRowIsAnswered, Answers, OpenRowHasRun, InFlight
<1> QED
  BY <1>1, OpenInvariant, PTL

-----------------------------------------------------------------------------
(* What was cancelled.                                                      *)
\* The child that was killed tells; without an error of the database only the run of a
\* row that was deleted fails.
KillIsBooked == \A c \in killed : run[c] = "book" => outcome[c] = "CANCELADO"
FailsAreDeleted == \A c \in Call : run[c] = "fail" => row[exe[c]] = "deleted"

CancelInv == RowInv /\ KillIsBooked /\ (Without({"database"}) => FailsAreDeleted)

LEMMA StepKeepsKills == ASSUME CancelInv, Next PROVE KillIsBooked'
<1>0. TypeInv /\ KillIsBooked /\ \A c \in killed : run[c] # "none"
  BY DEF CancelInv, RowInv, TypeInv, TypeOK, InFlight, Running
<1>1. ASSUME Restart PROVE KillIsBooked'
  BY <1>1 DEF Restart, KillIsBooked
<1>2. ASSUME NEW c \in Call, Request(c) \/ Reset(c) \/ ChildSilent(c) \/ BulkCancel(c) \/ Delete(c)
                             \/ \E e \in Call : RequestReprocess(c, e)
      PROVE  KillIsBooked'
  BY <1>0, <1>2 DEF Request, Reset, ChildSilent, BulkCancel, Delete, RequestReprocess, processVars,
                    KillIsBooked
<1>3. ASSUME NEW c \in Call, Check(c) \/ Create(c) PROVE KillIsBooked'
  <2>1. UNCHANGED <<outcome, killed>> /\ (run' = run \/ RunTo(c, "context"))
    BY <1>3 DEF Check, Create, processVars
  <2> QED
    BY <1>0, <2>1 DEF RunTo, KillIsBooked, TypeInv, TypeOK
<1>4. ASSUME NEW c \in Call, BuildContext(c) \/ Book(c) PROVE KillIsBooked'
  BY <1>0, <1>4 DEF BuildContext, Book, RunTo, processVars, KillIsBooked, TypeInv, TypeOK
<1>5. ASSUME NEW c \in Call, ChildEnds(c) PROVE KillIsBooked'
  BY <1>0, <1>5 DEF ChildEnds, RunTo, KillIsBooked, TypeInv, TypeOK
<1>6. ASSUME NEW c \in Call, Touch(c) \/ Fail(c) PROVE KillIsBooked'
  <2>1. CASE End(c)
    BY <1>0, <2>1 DEF End, RunTo, KillIsBooked, TypeInv, TypeOK
  <2>2. CASE Restart \/ (RunTo(c, "fail") /\ UNCHANGED <<outcome, killed>>)
    BY <1>0, <1>1, <2>2 DEF RunTo, KillIsBooked, TypeInv, TypeOK
  <2> QED
    BY <1>6, <2>1, <2>2 DEF Touch, Fail
<1>7. ASSUME NEW e \in Call, Cancel(e) PROVE KillIsBooked'
  <2>1. UNCHANGED <<run, outcome>> /\ killed' \subseteq killed \cup active
    BY <1>7 DEF Cancel
  <2> QED
    BY <1>0, <2>1 DEF KillIsBooked, TypeInv, TypeOK
<1> QED
  BY <1>1, <1>2, <1>3, <1>4, <1>5, <1>6, <1>7 DEF Next, RequestStep, RunStep, Crash

LEMMA StepKeepsFails ==
  ASSUME CancelInv, Next, Without({"database"})' PROVE FailsAreDeleted'
<1>0. TypeInv /\ RowsAreStarted /\ FailsAreDeleted /\ ~Fault("database")
  BY NotYet DEF CancelInv, RowInv
<1>1. ASSUME Restart, UNCHANGED row PROVE FailsAreDeleted'
  BY <1>1 DEF Restart, FailsAreDeleted, InFlight, Running
<1>2. ASSUME NEW c \in Call, Request(c) \/ \E e \in Call : RequestReprocess(c, e) PROVE FailsAreDeleted'
  <2>1. /\ UNCHANGED <<row, run>> /\ run[c] = "none" /\ \A d \in Call \ {c} : exe'[d] = exe[d]
    BY <1>0, <1>2 DEF Request, RequestReprocess, Coming, TypeInv, TypeOK, RunsAreStarted
  <2> QED
    BY <1>0, <2>1 DEF FailsAreDeleted
<1>3. ASSUME NEW c \in Call, Reset(c) \/ Cancel(c) \/ BulkCancel(c) \/ Delete(c) PROVE FailsAreDeleted'
  <2>1. /\ UNCHANGED <<exe, run>>
        /\ \A e \in Call : row[e] = "deleted" => row'[e] = "deleted"
    BY <1>0, <1>3 DEF Reset, Cancel, BulkCancel, Delete, Row, requestVars, TypeInv, TypeOK
  <2> QED
    BY <1>0, <2>1 DEF FailsAreDeleted, TypeInv, TypeOK
<1>4. ASSUME NEW c \in Call, Check(c) \/ Create(c) PROVE FailsAreDeleted'
  <2>1. /\ UNCHANGED exe /\ (run' = run \/ RunTo(c, "context"))
        /\ \A e \in Call : row[e] = "deleted" => row'[e] = "deleted"
    <3>1. CASE Check(c)
      BY <3>1 DEF Check
    <3>2. CASE Create(c)
      <4>1. row[c] = "none"
        <5>1. run[c] = "none" /\ call[c] = "create"
          BY <1>0, <3>2 DEF Create, TypeInv, RunsAreStarted
        <5> QED
          BY <1>0, <5>1 DEF RowsAreStarted
      <4> QED
        BY <1>0, <3>2, <4>1 DEF Create, Row, TypeInv, TypeOK
    <3> QED
      BY <1>4, <3>1, <3>2
  <2> QED
    BY <1>0, <2>1 DEF RunTo, FailsAreDeleted, TypeInv, TypeOK
<1>5. ASSUME NEW c \in Call, BuildContext(c) \/ ChildEnds(c) \/ ChildSilent(c) \/ Book(c) \/ Touch(c)
      PROVE  FailsAreDeleted'
  <2>1. /\ UNCHANGED exe /\ \A d \in Call : run'[d] = "fail" => run[d] = "fail" \/ row'[exe[d]] = "deleted"
        /\ \A e \in Call : row[e] = "deleted" => row'[e] = "deleted"
    BY <1>0, <1>5 DEF BuildContext, ChildEnds, ChildSilent, Book, Touch, End, RunTo, Row, requestVars,
                      TypeInv, TypeOK
  <2> QED
    BY <1>0, <2>1 DEF FailsAreDeleted, TypeInv, TypeOK
<1>6. ASSUME NEW c \in Call, Fail(c) PROVE FailsAreDeleted'
  BY <1>0, <1>1, <1>6 DEF Fail, FailsAreDeleted
<1> QED
  BY <1>1, <1>2, <1>3, <1>4, <1>5, <1>6 DEF Next, RequestStep, RunStep, Crash

LEMMA CancelInvariant == Spec => []CancelInv
<1>1. Init => CancelInv
  BY InitTypes DEF Init, CancelInv, RowInv, RowsAreStarted, KillIsBooked, FailsAreDeleted
<1>2. CancelInv /\ [Next]_vars => CancelInv'
  <2>1. CancelInv /\ UNCHANGED vars => (KillIsBooked /\ (Without({"database"}) => FailsAreDeleted))'
    BY DEF vars, requestVars, processVars, CancelInv, KillIsBooked, FailsAreDeleted, Without
  <2>2. CancelInv /\ [Next]_vars => RowInv'
    BY StepKeepsRows, StepKeepsTypes DEF CancelInv, RowInv
  <2> QED
    BY <2>1, <2>2, StepKeepsKills, StepKeepsFails DEF CancelInv
<1> QED
  BY <1>1, <1>2, PTL DEF Spec

\* Who writes over a cancelled row: a user, or the run the cancel did not kill.
Overrules(c, e) == exe[c] = e /\ (call[c] = "reset" \/ (InFlight(c) /\ c \notin killed))

LEMMA CancelledRow ==
  ASSUME CancelInv, Next, Without({"database"})', NEW e \in Call, row[e] = "CANCELADO"
  PROVE  row'[e] \in {"CANCELADO", "deleted"} \/ \E c \in Call : Overrules(c, e)
<1>0. TypeInv /\ RowsAreStarted /\ KillIsBooked /\ FailsAreDeleted /\ ~Fault("database")
  BY NotYet DEF CancelInv, RowInv
<1> DEFINE Goal == row'[e] \in {"CANCELADO", "deleted"} \/ \E c \in Call : Overrules(c, e)
<1>1. ASSUME NEW c \in Call, Reset(c) PROVE Goal
  BY <1>0, <1>1 DEF Reset, Row, Overrules, TypeInv, TypeOK
<1>2. ASSUME NEW c \in Call, Create(c) PROVE Goal
  <2>1. call[c] = "create" /\ row[c] = "none"
    BY <1>0, <1>2 DEF Create, RowsAreStarted
  <2> QED
    BY <1>0, <1>2, <2>1 DEF Create, Row, TypeInv, TypeOK
<1>3. ASSUME NEW c \in Call, Book(c) PROVE Goal
  <2>1. run[c] = "book" /\ (row' = row \/ row' = [row EXCEPT ![exe[c]] = outcome[c]])
    BY <1>3 DEF Book, Row
  <2>2. CASE exe[c] = e /\ c \in killed
    BY <1>0, <2>1, <2>2 DEF KillIsBooked, TypeInv, TypeOK
  <2>3. CASE exe[c] = e /\ c \notin killed
    BY <2>1, <2>3 DEF Overrules, InFlight, Running
  <2>4. CASE exe[c] # e
    BY <1>0, <2>1, <2>4 DEF TypeInv, TypeOK
  <2> QED
    BY <2>2, <2>3, <2>4
<1>4. ASSUME NEW c \in Call, Fail(c) PROVE Goal
  BY <1>0, <1>4 DEF Fail, Row, FailsAreDeleted
<1>5. ASSUME NEW x \in Call, Cancel(x) \/ BulkCancel(x) \/ Delete(x) PROVE Goal
  <2>1. row' = row \/ \E status \in {"CANCELADO", "deleted"} : Row(x, status)
    BY <1>5 DEF Cancel, BulkCancel, Delete
  <2> QED
    BY <1>0, <2>1 DEF Row, TypeInv, TypeOK
<1>6. ASSUME \/ Crash
             \/ \E c \in Call : \/ Request(c) \/ Check(c) \/ BuildContext(c) \/ ChildEnds(c) \/ Touch(c)
                                \/ ChildSilent(c) \/ \E x \in Call : RequestReprocess(c, x)
      PROVE  row' = row
  BY <1>6 DEF Crash, Request, Check, BuildContext, ChildEnds, Touch, ChildSilent, RequestReprocess
<1> QED
  BY <1>1, <1>2, <1>3, <1>4, <1>5, <1>6 DEF Next, RequestStep, RunStep

\* A cancelled execution stays cancelled, for any interleaving of requests, runs and
\* faults other than an error of the database: only a reprocessing, or the run that
\* the cancel found no child of, writes over it.
THEOREM CancelsStand == Spec => CancelStands
<1>1. CancelInv /\ [Next]_vars =>
        [Without({"database"})' => \A e \in Call : row[e] = "CANCELADO" =>
           \/ row'[e] \in {"CANCELADO", "deleted"}
           \/ \E c \in Call : /\ exe[c] = e
                              /\ call[c] = "reset" \/ (InFlight(c) /\ c \notin killed)]_vars
  BY CancelledRow DEF Overrules
<1> QED
  BY <1>1, CancelInvariant, PTL DEF Spec, CancelStands
=============================================================================
