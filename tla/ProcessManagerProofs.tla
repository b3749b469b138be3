------------------------- MODULE ProcessManagerProofs -------------------------
(***************************************************************************)
(* Theorems about executeInProcess, for any number of calls, executions    *)
(* and faults of every kind.                                               *)
(***************************************************************************)
EXTENDS ProcessManager, TLAPS

\* A call not made yet has left no trace.
Fresh ==
  \A r \in Run : exe[r] = NoExe =>
    /\ result[r] = "none" /\ child[r] = "none" /\ pipe[r] = "none" /\ said[r] = "none"
    /\ r \notin listening /\ r \notin timedOut /\ r \notin asked
    /\ \A e \in Exe : active[e] # r

LEMMA FaultTypes ==
  ASSUME faults \in [left : 0..MaxFaults, seen : SUBSET FaultKinds], NEW kind, Fault(kind)
  PROVE  /\ faults' \in [left : 0..MaxFaults, seen : SUBSET FaultKinds]
         /\ faults'.seen = faults.seen \cup {kind}
<1>1. /\ faults.left \in 0..MaxFaults /\ faults.seen \subseteq FaultKinds
      /\ faults.left > 0 /\ kind \in FaultKinds
      /\ faults' = [left |-> faults.left - 1, seen |-> faults.seen \cup {kind}]
  BY DEF Fault
<1>2. faults.left - 1 \in 0..MaxFaults
  BY <1>1, FaultsAssumption
<1> QED
  BY <1>1, <1>2

\* The faults are never forgotten.
LEMMA SeenGrows ==
  ASSUME TypeOK, [Next]_vars
  PROVE  faults.seen \subseteq faults'.seen
<1>1. faults \in [left : 0..MaxFaults, seen : SUBSET FaultKinds]
  BY DEF TypeOK
<1>2. ASSUME NEW kind, Fault(kind) PROVE faults.seen \subseteq faults'.seen
  BY <1>1, <1>2, FaultTypes
<1>3. ASSUME NEW r \in Run, NEW e \in Exe, Start(r, e) PROVE faults.seen \subseteq faults'.seen
  BY <1>2, <1>3 DEF Start
<1>4. ASSUME NEW r \in Run, ChildFails(r) \/ OnExit(r) \/ OnError(r)
      PROVE  faults.seen \subseteq faults'.seen
  BY <1>2, <1>4 DEF ChildFails, OnExit, ExitNotified, OnError
<1> QED
  BY <1>3, <1>4
  DEF Next, ParentStep, vars, ChildReports, ChildExits, OnMessage, OnTimeout, Watchdog, KillProcess

-----------------------------------------------------------------------------
LEMMA SettleTypes ==
  ASSUME TypeOK, Fresh, NEW r \in Run, NEW res \in Result, Settle(r, res), UNCHANGED exe,
         exe[r] # NoExe
  PROVE  /\ result' \in [Run -> Result \cup {"none"}]
         /\ active' \in [Exe -> Run \cup {NoRun}]
         /\ listening' \subseteq listening
         /\ timer' \subseteq {s \in Run : Pending(s)'}
         /\ \A s \in Run : exe[s] = NoExe => result'[s] = "none"
         /\ \A e \in Exe, s \in Run : active'[e] = s => active[e] = s
BY NoRunAssumption DEF Settle, Cleanup, TypeOK, Pending, Result, Fresh

LEMMA StepKeepsTypes == TypeOK /\ Fresh /\ [Next]_vars => (TypeOK /\ Fresh)'
<1> SUFFICES ASSUME TypeOK, Fresh, [Next]_vars PROVE (TypeOK /\ Fresh)'
  OBVIOUS
<1> DEFINE Goal == (TypeOK /\ Fresh)'
<1>1. ASSUME NEW r \in Run, NEW e \in Exe, Start(r, e) PROVE Goal
  <2>1. faults' \in [left : 0..MaxFaults, seen : SUBSET FaultKinds]
    BY <1>1, FaultTypes DEF Start, TypeOK
  <2>2. hasty' \subseteq Run
    BY <1>1 DEF Start, TypeOK
  <2>3. \A s \in Run : Pending(s)' <=> Pending(s) \/ s = r
    BY <1>1, NoRunAssumption DEF Start, Pending, TypeOK, Fresh
  <2>4. TypeOK'
    BY <1>1, <2>1, <2>2, <2>3 DEF Start, TypeOK, Child
  <2> QED
    BY <1>1, <2>4, NoRunAssumption DEF Start, TypeOK, Fresh
<1>2. ASSUME NEW r \in Run, ChildReports(r) \/ ChildExits(r) \/ OnTimeout(r) PROVE Goal
  BY <1>2 DEF ChildReports, ChildExits, OnTimeout, Sigkill, TypeOK, Fresh, Pending, Child, Report
<1>3. ASSUME NEW r \in Run, ChildFails(r) PROVE Goal
  <2>1. faults' \in [left : 0..MaxFaults, seen : SUBSET FaultKinds]
    BY <1>3, FaultTypes DEF ChildFails, TypeOK
  <2> QED
    BY <1>3, <2>1 DEF ChildFails, TypeOK, Fresh, Pending, Child
<1>4. ASSUME NEW r \in Run, OnMessage(r) PROVE Goal
  <2>1. pipe[r] \in Result /\ exe[r] # NoExe
    BY <1>4 DEF OnMessage, TypeOK, Report, Result, Fresh
  <2> QED
    BY <1>4, <2>1, SettleTypes DEF OnMessage, TypeOK, Fresh, Pending, Report
<1>5. ASSUME NEW r \in Run, OnExit(r) PROVE Goal
  <2>1. ExitResult(r) \in Result /\ exe[r] # NoExe
    BY <1>5 DEF OnExit, ExitResult, Result, Fresh
  <2>2. faults' \in [left : 0..MaxFaults, seen : SUBSET FaultKinds]
    BY <1>5, FaultTypes DEF OnExit, ExitNotified, TypeOK
  <2>3. child' \in [Run -> Child]
    BY <1>5 DEF OnExit, TypeOK, Child
  <2>4. CASE Settle(r, ExitResult(r))
    BY <1>5, <2>1, <2>2, <2>3, <2>4, SettleTypes DEF OnExit, TypeOK, Fresh
  <2>5. CASE UNCHANGED <<result, active, listening>> /\ timer' \in {timer, timer \ {r}}
    BY <1>5, <2>1, <2>2, <2>3, <2>5 DEF OnExit, TypeOK, Pending, Fresh
  <2> QED
    BY <1>5, <2>4, <2>5 DEF OnExit
<1>6. ASSUME NEW r \in Run, OnError(r) PROVE Goal
  <2>1. "error" \in Result /\ faults' \in [left : 0..MaxFaults, seen : SUBSET FaultKinds] /\ exe[r] # NoExe
    BY <1>6, FaultTypes DEF OnError, Result, TypeOK, Fresh
  <2> QED
    BY <1>6, <2>1, SettleTypes DEF OnError, TypeOK, Fresh, Child
<1>7. ASSUME NEW r \in Run, Watchdog(r) PROVE Goal
  <2>1. "forced" \in Result /\ exe[r] # NoExe
    BY <1>7 DEF Result, Watchdog, Pending
  <2> QED
    BY <1>7, <2>1, SettleTypes DEF Watchdog, Sigkill, TypeOK, Fresh, Child
<1>8. ASSUME NEW e \in Exe, KillProcess(e) PROVE Goal
  BY <1>8 DEF KillProcess, Sigkill, TypeOK, Fresh, Pending, Child
<1>9. CASE UNCHANGED vars
  BY <1>9 DEF vars, TypeOK, Fresh, Pending
<1> QED
  BY <1>1, <1>2, <1>3, <1>4, <1>5, <1>6, <1>7, <1>8, <1>9 DEF Next, ParentStep

\* executeInProcess keeps the types of its state under every fault, and no timer
\* outlives its call.
THEOREM CallsTypeCorrect == Spec => []TypeOK
<1>1. Init => TypeOK /\ Fresh
  BY NoRunAssumption, FaultsAssumption DEF Init, TypeOK, Child, Fresh
<1> QED
  BY <1>1, StepKeepsTypes, PTL DEF Spec

-----------------------------------------------------------------------------
\* What was killed was killed by its timeout or by a killProcess, unless its call
\* is settled already.
KillHasAuthor ==
  Without({"oom"}) =>
    \A r \in Run : child[r] = "killed" => r \in timedOut \cup asked \/ result[r] # "none"

AuthorInv == TypeOK /\ Fresh /\ KillHasAuthor /\ CancelledByUser

\* What settling a call does to the results.
LEMMA SettleResult ==
  ASSUME TypeOK, NEW r \in Run, NEW res, Settle(r, res)
  PROVE  \A s \in Run : result'[s] = IF s = r /\ result[s] = "none" THEN res ELSE result[s]
BY DEF Settle, TypeOK

LEMMA StepKeepsAuthors ==
  ASSUME AuthorInv, [Next]_vars, Without({"oom"})'
  PROVE  /\ \A r \in Run : child'[r] = "killed" => r \in (timedOut \cup asked)' \/ result'[r] # "none"
         /\ \A r \in Run : result'[r] = "cancelled" => r \in asked'
<1>0. TypeOK /\ Fresh /\ Without({"oom"})
  BY SeenGrows DEF AuthorInv, Without
<1>1. /\ \A r \in Run : child[r] = "killed" => r \in timedOut \cup asked \/ result[r] # "none"
      /\ \A r \in Run : result[r] = "cancelled" => r \in asked
  BY <1>0 DEF AuthorInv, KillHasAuthor, CancelledByUser
<1> DEFINE Goal == /\ \A r \in Run : child'[r] = "killed" =>
                        r \in (timedOut \cup asked)' \/ result'[r] # "none"
                   /\ \A r \in Run : result'[r] = "cancelled" => r \in asked'
<1>2. ASSUME NEW r \in Run, NEW e \in Exe, Start(r, e) PROVE Goal
  BY <1>0, <1>1, <1>2 DEF Start, TypeOK
<1>3. ASSUME NEW r \in Run, ChildReports(r) \/ ChildExits(r) PROVE Goal
  BY <1>0, <1>1, <1>3 DEF ChildReports, ChildExits, TypeOK
<1>4. ASSUME NEW r \in Run, ChildFails(r) PROVE Goal
  <2>1. ~Fault("oom")
    BY <1>0, FaultTypes DEF Without, TypeOK
  <2> QED
    BY <1>0, <1>1, <1>4, <2>1 DEF ChildFails, TypeOK
<1>5. ASSUME NEW r \in Run, OnMessage(r) PROVE Goal
  <2>1. pipe[r] \in Report /\ UNCHANGED <<child, timedOut, asked>>
    BY <1>0, <1>5 DEF OnMessage, TypeOK
  <2>2. \A s \in Run : result'[s] = result[s] \/ result'[s] \in Report
    BY <1>0, <1>5, <2>1, SettleResult DEF OnMessage
  <2> QED
    BY <1>1, <2>1, <2>2 DEF Report
<1>6. ASSUME NEW r \in Run, OnExit(r) PROVE Goal
  <2>1. /\ child' = [child EXCEPT ![r] = "gone"] /\ UNCHANGED <<timedOut, asked>>
        /\ UNCHANGED result \/ Settle(r, ExitResult(r))
    BY <1>6 DEF OnExit
  <2>2. /\ ExitResult(r) \in {"cancelled", "timeout", "error"}
        /\ ExitResult(r) = "cancelled" => child[r] = "killed" /\ r \notin timedOut
    BY DEF ExitResult
  <2>3. \A s \in Run : \/ result'[s] = result[s]
                       \/ s = r /\ result[r] = "none" /\ result'[r] = ExitResult(r)
    BY <1>0, <2>1, SettleResult
  <2> QED
    BY <1>0, <1>1, <2>1, <2>2, <2>3 DEF TypeOK
<1>7. ASSUME NEW r \in Run, OnError(r) PROVE Goal
  <2>1. \A s \in Run : result'[s] = result[s] \/ result'[s] = "error"
    BY <1>0, <1>7, SettleResult DEF OnError
  <2> QED
    BY <1>0, <1>1, <1>7, <2>1 DEF OnError, TypeOK
<1>8. ASSUME NEW r \in Run, OnTimeout(r) PROVE Goal
  BY <1>0, <1>1, <1>8 DEF OnTimeout, Sigkill, TypeOK
<1>9. ASSUME NEW r \in Run, Watchdog(r) PROVE Goal
  <2>1. /\ Settle(r, "forced") /\ result[r] = "none" /\ UNCHANGED <<timedOut, asked>>
        /\ \A s \in Run : s # r => child'[s] = child[s]
    BY <1>0, <1>9 DEF Watchdog, Pending, Sigkill, TypeOK
  <2>2. \A s \in Run : result'[s] = IF s = r THEN "forced" ELSE result[s]
    BY <1>0, <2>1, SettleResult
  <2> QED
    BY <1>1, <2>1, <2>2
<1>10. ASSUME NEW e \in Exe, KillProcess(e) PROVE Goal
  <2>1. active[e] \in Run
    BY <1>0, <1>10 DEF KillProcess, TypeOK
  <2> QED
    BY <1>0, <1>1, <1>10, <2>1 DEF KillProcess, Sigkill, TypeOK
<1>11. CASE UNCHANGED vars
  BY <1>1, <1>11 DEF vars
<1> QED
  BY <1>2, <1>3, <1>4, <1>5, <1>6, <1>7, <1>8, <1>9, <1>10, <1>11 DEF Next, ParentStep

\* A call that settles as cancelled was cancelled by somebody (exit listener), also
\* when calls overlap: no kill is taken for that of another call.
THEOREM CancelHasAuthor == Spec => []CancelledByUser
<1>1. Init => AuthorInv
  <2> SUFFICES ASSUME Init PROVE AuthorInv
    OBVIOUS
  <2>1. TypeOK /\ Fresh
    BY NoRunAssumption, FaultsAssumption DEF Init, TypeOK, Child, Fresh
  <2> QED
    BY <2>1 DEF Init, AuthorInv, KillHasAuthor, CancelledByUser
<1>2. AuthorInv /\ [Next]_vars => AuthorInv'
  BY StepKeepsTypes, StepKeepsAuthors DEF AuthorInv, KillHasAuthor, CancelledByUser
<1>3. AuthorInv => CancelledByUser
  BY DEF AuthorInv
<1> QED
  BY <1>1, <1>2, <1>3, PTL DEF Spec

-----------------------------------------------------------------------------
\* The body of Tracked: the map, the listeners and the pending calls are one set.
MapExact ==
  /\ \A r \in Run : Pending(r) => active[exe[r]] = r
  /\ listening = {r \in Run : Pending(r)}
  /\ \A e \in Exe : active[e] # NoRun => exe[active[e]] = e /\ Pending(active[e])

\* The body of ForcedOnlyWhenStuck.
ForcedLast == \A r \in Run : result[r] = "forced" => child[r] = "stuck" \/ r \in hasty

\* A report of a pending call is still on its way.
ReportOnItsWay == \A r \in Run : Pending(r) /\ said[r] # "none" => pipe[r] = said[r]

\* What holds as long as no call overlaps another of its execution.
AloneInv ==
  /\ TypeOK /\ Fresh
  /\ Alone => MapExact /\ ForcedLast /\ (Without({"reorder"}) => ReportOnItsWay)

\* Settling a call takes it out of the map, the listeners and the pending calls.
LEMMA SettleKeepsMap ==
  ASSUME TypeOK, MapExact, NEW r \in Run, Pending(r), NEW res \in Result, Settle(r, res),
         UNCHANGED exe
  PROVE  /\ MapExact'
         /\ \A s \in Run : Pending(s)' <=> Pending(s) /\ s # r
<1>1. exe[r] \in Exe /\ active[exe[r]] = r
  BY DEF MapExact, TypeOK, Pending
<1>2. /\ result' = [result EXCEPT ![r] = res] /\ active' = [active EXCEPT ![exe[r]] = NoRun]
      /\ listening' = listening \ {r}
  BY <1>1 DEF Settle, Cleanup, Pending, TypeOK
<1>3. \A s \in Run : Pending(s)' <=> Pending(s) /\ s # r
  BY <1>2 DEF Pending, TypeOK, Result
<1>4. MapExact'
  BY <1>1, <1>2, <1>3, NoRunAssumption DEF MapExact, TypeOK, Pending
<1> QED
  BY <1>3, <1>4

LEMMA StepKeepsMap ==
  ASSUME TypeOK, Fresh, Alone, Alone', MapExact, [Next]_vars
  PROVE  MapExact'
<1> USE NoRunAssumption
<1>1. ASSUME NEW r \in Run, NEW e \in Exe, Start(r, e) PROVE MapExact'
  <2>1. ~Fault("overlap")
    BY FaultTypes DEF Alone, Without, TypeOK
  <2>2. active[e] = NoRun /\ exe[r] = NoExe
    BY <1>1, <2>1 DEF Start
  <2>3. \A s \in Run : Pending(s)' <=> Pending(s) \/ s = r
    BY <1>1, <2>2 DEF Start, Pending, TypeOK, Fresh
  <2> QED
    BY <1>1, <2>2, <2>3 DEF Start, TypeOK, MapExact, Pending
<1>2. ASSUME NEW r \in Run, ChildReports(r) \/ ChildExits(r) \/ ChildFails(r) \/ OnTimeout(r)
      PROVE  MapExact'
  BY <1>2 DEF ChildReports, ChildExits, ChildFails, OnTimeout, MapExact, Pending
<1>3. ASSUME NEW r \in Run, OnMessage(r) PROVE MapExact'
  <2>1. pipe[r] \in Result
    BY <1>3 DEF OnMessage, TypeOK, Report, Result
  <2>2. CASE r \in listening
    BY <1>3, <2>1, <2>2, SettleKeepsMap DEF OnMessage, MapExact
  <2>3. CASE r \notin listening
    BY <1>3, <2>3 DEF OnMessage, MapExact, Pending
  <2> QED
    BY <2>2, <2>3
<1>4. ASSUME NEW r \in Run, OnExit(r) PROVE MapExact'
  <2>1. ExitResult(r) \in Result
    BY DEF ExitResult, Result
  <2>2. CASE r \in listening /\ Settle(r, ExitResult(r))
    BY <1>4, <2>1, <2>2, SettleKeepsMap DEF OnExit, MapExact
  <2>3. CASE UNCHANGED <<result, active, listening>>
    BY <1>4, <2>3 DEF OnExit, MapExact, Pending
  <2> QED
    BY <1>4, <2>2, <2>3 DEF OnExit
<1>5. ASSUME NEW r \in Run, OnError(r) PROVE MapExact'
  BY <1>5, SettleKeepsMap DEF OnError, MapExact, Result
<1>6. ASSUME NEW r \in Run, Watchdog(r) PROVE MapExact'
  BY <1>6, SettleKeepsMap DEF Watchdog, Result
<1>7. ASSUME NEW e \in Exe, KillProcess(e) PROVE MapExact'
  BY <1>7 DEF KillProcess, MapExact, Pending
<1>8. CASE UNCHANGED vars
  BY <1>8 DEF vars, MapExact, Pending
<1> QED
  BY <1>1, <1>2, <1>3, <1>4, <1>5, <1>6, <1>7, <1>8 DEF Next, ParentStep

LEMMA StepKeepsForced ==
  ASSUME TypeOK, Fresh, MapExact, ForcedLast, [Next]_vars
  PROVE  ForcedLast'
<1>1. ASSUME NEW r \in Run, NEW e \in Exe, Start(r, e) PROVE ForcedLast'
  <2>1. result[r] = "none" /\ UNCHANGED result /\ hasty \subseteq hasty'
    BY <1>1 DEF Start, Fresh
  <2>2. \A s \in Run : s # r => child'[s] = child[s]
    BY <1>1 DEF Start, TypeOK
  <2> QED
    BY <2>1, <2>2 DEF ForcedLast
<1>2. ASSUME NEW r \in Run,
             ChildReports(r) \/ ChildExits(r) \/ ChildFails(r) \/ OnTimeout(r) PROVE ForcedLast'
  BY <1>2 DEF ChildReports, ChildExits, ChildFails, OnTimeout, Sigkill, ForcedLast, TypeOK
<1>3. ASSUME NEW r \in Run, OnMessage(r) PROVE ForcedLast'
  <2>1. pipe[r] # "forced" /\ UNCHANGED <<child, hasty>>
    BY <1>3 DEF OnMessage, TypeOK, Report
  <2> QED
    BY <1>3, <2>1, SettleResult DEF OnMessage, ForcedLast
<1>4. ASSUME NEW r \in Run, OnExit(r) PROVE ForcedLast'
  <2>1. /\ UNCHANGED hasty /\ child[r] # "stuck" /\ (UNCHANGED result \/ Settle(r, ExitResult(r)))
        /\ \A s \in Run : s # r => child'[s] = child[s]
    BY <1>4 DEF OnExit, TypeOK
  <2>2. ExitResult(r) # "forced"
    BY DEF ExitResult
  <2> QED
    BY <1>4, <2>1, <2>2, SettleResult DEF OnExit, ForcedLast
<1>5. ASSUME NEW r \in Run, OnError(r) PROVE ForcedLast'
  <2>1. /\ UNCHANGED hasty /\ child[r] # "stuck" /\ Settle(r, "error")
        /\ \A s \in Run : s # r => child'[s] = child[s]
    BY <1>5 DEF OnError, TypeOK
  <2> QED
    BY <2>1, SettleResult DEF ForcedLast
<1>6. ASSUME NEW r \in Run, Watchdog(r) PROVE ForcedLast'
  <2>1. /\ UNCHANGED hasty /\ Settle(r, "forced")
        /\ \A s \in Run : s # r => child'[s] = child[s]
        /\ child[r] = "stuck" => child'[r] = "stuck"
    BY <1>6 DEF Watchdog, Sigkill, TypeOK
  <2>2. child[r] = "stuck" \/ r \in hasty
    BY <1>6 DEF Watchdog, MapExact
  <2> QED
    BY <2>1, <2>2, SettleResult DEF ForcedLast
<1>7. ASSUME NEW e \in Exe, KillProcess(e) PROVE ForcedLast'
  <2>1. /\ UNCHANGED <<hasty, result>>
        /\ \A s \in Run : child[s] = "stuck" => child'[s] = "stuck"
    BY <1>7 DEF KillProcess, Sigkill, TypeOK
  <2> QED
    BY <2>1 DEF ForcedLast
<1>8. CASE UNCHANGED vars
  BY <1>8 DEF vars, ForcedLast
<1> QED
  BY <1>1, <1>2, <1>3, <1>4, <1>5, <1>6, <1>7, <1>8 DEF Next, ParentStep

LEMMA StepKeepsReports ==
  ASSUME TypeOK, Fresh, Alone', MapExact, ReportOnItsWay, [Next]_vars
  PROVE  ReportOnItsWay'
<1>1. ASSUME NEW r \in Run, NEW e \in Exe, Start(r, e) PROVE ReportOnItsWay'
  BY <1>1, NoRunAssumption DEF Start, ReportOnItsWay, Pending, TypeOK, Fresh
<1>2. ASSUME NEW r \in Run,
             ChildReports(r) \/ ChildExits(r) \/ ChildFails(r) \/ OnTimeout(r) PROVE ReportOnItsWay'
  BY <1>2 DEF ChildReports, ChildExits, ChildFails, OnTimeout, ReportOnItsWay, Pending, TypeOK
<1>3. ASSUME NEW r \in Run, OnMessage(r) PROVE ReportOnItsWay'
  <2>1. pipe[r] \in Result /\ pipe' = [pipe EXCEPT ![r] = "none"] /\ UNCHANGED <<exe, said>>
    BY <1>3 DEF OnMessage, TypeOK, Report, Result
  <2>2. \A s \in Run : Pending(s)' => Pending(s) /\ s # r
    <3>1. CASE r \in listening
      BY <1>3, <2>1, <3>1, SettleKeepsMap DEF OnMessage, MapExact
    <3>2. CASE r \notin listening
      BY <1>3, <2>1, <3>2 DEF OnMessage, MapExact, Pending
    <3> QED
      BY <3>1, <3>2
  <2> QED
    BY <2>1, <2>2 DEF ReportOnItsWay, TypeOK
<1>4. ASSUME NEW r \in Run, OnExit(r) \/ OnError(r) \/ Watchdog(r) PROVE ReportOnItsWay'
  <2>1. /\ UNCHANGED <<exe, said, pipe>>
        /\ UNCHANGED result \/ \E res : Settle(r, res)
    BY <1>4 DEF OnExit, OnError, Watchdog
  <2>2. \A s \in Run : Pending(s)' => Pending(s)
    BY <2>1, SettleResult DEF Pending
  <2> QED
    BY <2>1, <2>2 DEF ReportOnItsWay
<1>5. ASSUME NEW e \in Exe, KillProcess(e) PROVE ReportOnItsWay'
  BY <1>5 DEF KillProcess, ReportOnItsWay, Pending
<1>6. CASE UNCHANGED vars
  BY <1>6 DEF vars, ReportOnItsWay, Pending
<1> QED
  BY <1>1, <1>2, <1>3, <1>4, <1>5, <1>6 DEF Next, ParentStep

\* The inductive invariant: the map, the listeners and the pending calls are one
\* set, what was forced was stuck or hasty, every report of a pending call is on
\* its way.
THEOREM CallsInvariant == Spec => []AloneInv
<1>1. Init => AloneInv
  <2> SUFFICES ASSUME Init PROVE AloneInv
    OBVIOUS
  <2>1. TypeOK /\ Fresh
    BY NoRunAssumption, FaultsAssumption DEF Init, TypeOK, Child, Fresh
  <2> QED
    BY <2>1 DEF Init, AloneInv, MapExact, ForcedLast, ReportOnItsWay, Pending
<1>2. AloneInv /\ [Next]_vars => AloneInv'
  <2> SUFFICES ASSUME AloneInv, [Next]_vars PROVE AloneInv'
    OBVIOUS
  <2>1. TypeOK /\ Fresh /\ TypeOK' /\ Fresh'
    BY StepKeepsTypes DEF AloneInv
  <2>2. /\ Alone' => Alone
        /\ Without({"reorder"})' => Without({"reorder"})
    BY <2>1, SeenGrows DEF Alone, Without
  <2>3. ASSUME Alone' PROVE MapExact' /\ ForcedLast'
    BY <2>1, <2>2, <2>3, StepKeepsMap, StepKeepsForced DEF AloneInv
  <2>4. ASSUME Alone', Without({"reorder"})' PROVE ReportOnItsWay'
    BY <2>1, <2>2, <2>4, StepKeepsReports DEF AloneInv
  <2> QED
    BY <2>1, <2>3, <2>4 DEF AloneInv
<1> QED
  BY <1>1, <1>2, PTL DEF Spec

\* activeProcesses holds exactly the pending calls: killProcess reaches each.
THEOREM CallsAreTracked == Spec => []Tracked
<1>1. AloneInv => Tracked
  BY DEF AloneInv, MapExact, Tracked
<1> QED
  BY <1>1, CallsInvariant, PTL

\* The watchdog takes no result from an exit or a message, unless its delay
\* overflowed.
THEOREM WatchdogIsLast == Spec => []ForcedOnlyWhenStuck
<1>1. AloneInv => ForcedOnlyWhenStuck
  BY DEF AloneInv, ForcedLast, ForcedOnlyWhenStuck
<1> QED
  BY <1>1, CallsInvariant, PTL

\* Whatever settles a call whose child has reported, it is with that report, or it is
\* a watchdog whose delay overflowed.
THEOREM ReportsAreKept == Spec => ReportIsKept
<1> DEFINE Kept == \A r \in Run : result[r] = "none" /\ result'[r] # "none" /\ said[r] # "none"
                     => \/ result'[r] = said[r] \/ r \in hasty
                        \/ ~Without({"overlap", "reorder"})'
<1>1. ASSUME AloneInv, [Next]_vars PROVE [Kept]_vars
  <2> SUFFICES ASSUME NEW s \in Run, result[s] = "none", result'[s] # "none", said[s] # "none",
                      s \notin hasty, Without({"overlap", "reorder"})', Next
               PROVE  result'[s] = said[s]
    BY <1>1
  <2>1. /\ TypeOK /\ Fresh /\ MapExact /\ ReportOnItsWay
        /\ ~Fault("reorder")
    BY <1>1, SeenGrows, FaultTypes DEF AloneInv, Alone, Without, TypeOK
  <2>2. exe[s] # NoExe /\ Pending(s) /\ pipe[s] = said[s] /\ s \in listening
    BY <2>1 DEF Fresh, Pending, ReportOnItsWay, MapExact
  <2>3. ASSUME NEW r \in Run, NEW res, Settle(r, res) PROVE s = r /\ result'[r] = res
    BY <2>1, <2>3, SettleResult
  <2>4. ASSUME NEW r \in Run, OnMessage(r) PROVE result'[s] = said[s]
    BY <2>2, <2>3, <2>4 DEF OnMessage
  <2>5. ASSUME NEW r \in Run, OnExit(r) PROVE FALSE
    BY <2>1, <2>2, <2>3, <2>5 DEF OnExit, ExitNotified
  <2>6. ASSUME NEW r \in Run, OnError(r) PROVE FALSE
    BY <2>2, <2>3, <2>6 DEF OnError
  <2>7. ASSUME NEW r \in Run, Watchdog(r) PROVE FALSE
    BY <2>2, <2>3, <2>7 DEF Watchdog
  <2> QED
    BY <2>4, <2>5, <2>6, <2>7
    DEF Next, ParentStep, Start, ChildReports, ChildExits, ChildFails, OnTimeout, KillProcess
<1> QED
  BY <1>1, CallsInvariant, PTL DEF Spec, ReportIsKept
===============================================================================
