---------------------------- MODULE ProcessManager ----------------------------
(***************************************************************************)
(* executeInProcess: one child process per run of a routine, whose result  *)
(* comes from whichever speaks first: the child's message, its exit, a     *)
(* spawn error, or the watchdog that follows the timeout.  The worker      *)
(* (worker/src/engine/process-manager.ts) and the webapi                   *)
(* (webapi/src/rotina/engine/process-manager.ts) have the same code, except *)
(* that only the worker's has a watchdog and treats a silent exit(0).      *)
(***************************************************************************)
EXTENDS Naturals

CONSTANTS
  Run,        \* calls of executeInProcess, made in an order of their own
  NoRun,      \* no entry in activeProcesses
  Exe,        \* exeIds
  NoExe,      \* the exeId of a call not made yet
  Cadastro,   \* values of ROTTimeoutSeconds
  Hardened,   \* the exeIds of the worker; the others are the webapi's
  FaultKinds, \* which faults may happen
  MaxFaults   \* bound on how many

AllFaultKinds == {"spawn", "oom", "stuck", "overlap", "reorder"}

ASSUME NoRunAssumption == NoRun \notin Run /\ NoExe \notin Exe
ASSUME CadastroAssumption == Cadastro \subseteq Nat
ASSUME HardenedAssumption == Hardened \subseteq Exe
ASSUME FaultsAssumption == FaultKinds \subseteq AllFaultKinds /\ MaxFaults \in Nat

VARIABLES
  exe,       \* the exeId a call was made for
  result,    \* what its Promise resolved to
  active,    \* activeProcesses: the call whose child is registered for an exeId
  child,     \* the child process, to the exit that is not yet notified
  pipe,      \* its report, on the IPC channel
  listening, \* calls whose child still has its listeners
  timer,     \* calls whose timeoutHandle is armed
  timedOut,  \* calls whose timeout fired
  hasty,     \* calls whose watchdog is due before their timeout
  said,      \* (history) what the child reported
  asked,     \* (history) calls whose killProcess was called
  faults     \* how many may still happen, which kinds did

vars == <<exe, result, active, child, pipe, listening, timer, timedOut, hasty, said, asked, faults>>

Result == {"success", "error", "cancelled", "timeout", "forced"}
Report == {"success", "error"}
\* "stuck" does not react to SIGKILL any more; "gone": nothing left to notify.
Child == {"none", "alive", "stuck", "exit0", "exitBad", "killed", "gone"}

Pending(r) == exe[r] # NoExe /\ result[r] = "none"

\* No timer outlives its call: it would kill whoever has the pid by then.
TypeOK ==
  /\ exe \in [Run -> Exe \cup {NoExe}]
  /\ result \in [Run -> Result \cup {"none"}]
  /\ active \in [Exe -> Run \cup {NoRun}]
  /\ child \in [Run -> Child]
  /\ pipe \in [Run -> Report \cup {"none"}]
  /\ listening \subseteq Run
  /\ timer \subseteq {r \in Run : Pending(r)}
  /\ timedOut \subseteq Run
  /\ hasty \subseteq Run
  /\ said \in [Run -> Report \cup {"none"}]
  /\ asked \subseteq Run
  /\ faults \in [left : 0..MaxFaults, seen : SUBSET FaultKinds]

Init ==
  /\ exe = [r \in Run |-> NoExe]
  /\ result = [r \in Run |-> "none"]
  /\ active = [e \in Exe |-> NoRun]
  /\ child = [r \in Run |-> "none"]
  /\ pipe = [r \in Run |-> "none"]
  /\ listening = {}
  /\ timer = {}
  /\ timedOut = {}
  /\ hasty = {}
  /\ said = [r \in Run |-> "none"]
  /\ asked = {}
  /\ faults = [left |-> MaxFaults, seen |-> {}]

-----------------------------------------------------------------------------
Fault(kind) ==
  /\ kind \in FaultKinds /\ faults.left > 0
  /\ faults' = [left |-> faults.left - 1, seen |-> faults.seen \cup {kind}]

\* None of these faults has happened.
Without(kinds) == faults.seen \cap kinds = {}

(* (mutant) The entry stays in the map.                                     *)
MutCleanupKeepsEntry(e) ==
  /\ listening' = listening \ {active[e]}
  /\ UNCHANGED active

\* The map is asked by exeId: the entry may be that of another call.
Cleanup(e) ==
  /\ listening' = listening \ {active[e]}
  /\ active' = [active EXCEPT ![e] = NoRun]

\* publishExecutionEnd, cleanup and safeResolve, which keeps the first result.
Settle(r, res) ==
  /\ Cleanup(exe[r])
  /\ timer' = timer \ {r}
  /\ result' = [result EXCEPT ![r] = IF @ = "none" THEN res ELSE @]

\* routine-timeout.util.ts: the largest delay of a timer, the delays in ms.
ROUTINE_TIMEOUT_MS_CAP == 2147483647
WATCHDOG_GRACE_MS == 10000
RoutineTimeoutSeconds(value) ==
  LET maxSec == ROUTINE_TIMEOUT_MS_CAP \div 1000
      sec    == IF value < 1 THEN 1 ELSE value
  IN IF sec < maxSec THEN sec ELSE maxSec

\* A delay beyond the cap is one of 1 ms to Node.
WatchdogOverflows(value) ==
  RoutineTimeoutSeconds(value) * 1000 > ROUTINE_TIMEOUT_MS_CAP - WATCHDOG_GRACE_MS

(* A call for an exeId that still has a child comes only from a caller that *)
(* has given up waiting (withHardTimeout) and is delivered the job again.   *)
Start(r, e) ==
  /\ exe[r] = NoExe /\ r = CHOOSE s \in Run : exe[s] = NoExe
  /\ \/ active[e] = NoRun /\ UNCHANGED faults
     \/ active[e] # NoRun /\ Fault("overlap")
  /\ exe' = [exe EXCEPT ![r] = e]
  /\ active' = [active EXCEPT ![e] = r]
  /\ child' = [child EXCEPT ![r] = "alive"]
  /\ listening' = listening \cup {r}
  /\ timer' = timer \cup {r}
  /\ \E value \in Cadastro :
       hasty' = IF WatchdogOverflows(value) THEN hasty \cup {r} ELSE hasty
  /\ UNCHANGED <<result, pipe, timedOut, said, asked>>

(* routine-runner.ts in the child ------------------------------------------*)
ChildReports(r) ==
  /\ child[r] = "alive" /\ said[r] = "none"
  /\ \E report \in Report :
       /\ pipe' = [pipe EXCEPT ![r] = report]
       /\ said' = [said EXCEPT ![r] = report]
  /\ UNCHANGED <<exe, result, active, child, listening, timer, timedOut, hasty, asked, faults>>

\* exit(0) or exit(1) after the report, or an exit of the routine's own.
ChildExits(r) ==
  /\ child[r] = "alive"
  /\ \E how \in {"exit0", "exitBad"} :
       /\ said[r] = "success" => how = "exit0"
       /\ said[r] = "error" => how = "exitBad"
       /\ child' = [child EXCEPT ![r] = how]
  /\ UNCHANGED <<exe, result, active, pipe, listening, timer, timedOut, hasty, said, asked, faults>>

\* Killed by the system (out of memory), or no longer killable.
ChildFails(r) ==
  /\ child[r] = "alive"
  /\ \/ Fault("oom") /\ child' = [child EXCEPT ![r] = "killed"]
     \/ Fault("stuck") /\ child' = [child EXCEPT ![r] = "stuck"]
  /\ UNCHANGED <<exe, result, active, pipe, listening, timer, timedOut, hasty, said, asked>>

Sigkill(r) == child' = [child EXCEPT ![r] = IF @ = "alive" THEN "killed" ELSE @]

(* The listeners and timers of executeInProcess ----------------------------*)
OnMessage(r) ==
  /\ pipe[r] # "none"
  /\ pipe' = [pipe EXCEPT ![r] = "none"]
  /\ IF r \in listening THEN Settle(r, pipe[r])
                        ELSE UNCHANGED <<result, active, listening, timer>>
  /\ UNCHANGED <<exe, child, timedOut, hasty, said, asked, faults>>

\* Node normally drains the IPC channel before it notifies the exit.
ExitNotified(r) ==
  \/ pipe[r] = "none" /\ UNCHANGED faults
  \/ pipe[r] # "none" /\ Fault("reorder")

(* (mutant) The timeout is not told from a cancellation.                    *)
MutExitResult(r) == CASE child[r] = "killed" -> "cancelled"
                      [] OTHER -> "error"

ExitResult(r) == CASE child[r] = "killed" /\ r \notin timedOut -> "cancelled"
                   [] child[r] = "killed" /\ r \in timedOut -> "timeout"
                   [] OTHER -> "error"

(* (mutant) The exit is handled without waiting for the report.             *)
MutOnExitEager(r) ==
  /\ child[r] \in {"exit0", "exitBad", "killed"}
  /\ child' = [child EXCEPT ![r] = "gone"]
  /\ IF r \in listening THEN Settle(r, ExitResult(r))
                        ELSE UNCHANGED <<result, active, listening, timer>>
  /\ UNCHANGED <<exe, pipe, timedOut, hasty, said, asked, faults>>

OnExit(r) ==
  /\ child[r] \in {"exit0", "exitBad", "killed"}
  /\ ExitNotified(r)
  /\ child' = [child EXCEPT ![r] = "gone"]
  /\ \/ r \in listening /\ (child[r] # "exit0" \/ exe[r] \in Hardened) /\ Settle(r, ExitResult(r))
     \/ /\ r \in listening /\ child[r] = "exit0" /\ exe[r] \notin Hardened
        /\ timer' = timer \ {r}
        /\ UNCHANGED <<result, active, listening>>
     \/ r \notin listening /\ UNCHANGED <<result, active, listening, timer>>
  /\ UNCHANGED <<exe, pipe, timedOut, hasty, said, asked>>

\* The child could not be spawned: 'error'.
OnError(r) ==
  /\ child[r] = "alive" /\ said[r] = "none" /\ r \in listening
  /\ Fault("spawn")
  /\ child' = [child EXCEPT ![r] = "gone"]
  /\ Settle(r, "error")
  /\ UNCHANGED <<exe, pipe, timedOut, hasty, said, asked>>

OnTimeout(r) ==
  /\ r \in timer
  /\ timer' = timer \ {r}
  /\ timedOut' = timedOut \cup {r}
  /\ Sigkill(r)
  /\ UNCHANGED <<exe, result, active, pipe, listening, hasty, said, asked, faults>>

\* (mutant) No watchdog.
MutWatchdogNever(r) == FALSE /\ UNCHANGED vars

(* (mutant) No grace: an exit may still be on its way.                      *)
MutWatchdogNoGrace(r) ==
  /\ exe[r] \in Hardened /\ Pending(r) /\ r \in timedOut
  /\ Sigkill(r)
  /\ Settle(r, "forced")
  /\ UNCHANGED <<exe, pipe, timedOut, hasty, said, asked, faults>>

\* WATCHDOG_GRACE_MS after the timeout, time enough for an event that somebody
\* listens to, or at once; cleared when the call settles.
Watchdog(r) ==
  /\ exe[r] \in Hardened /\ Pending(r)
  /\ \/ r \in hasty
     \/ r \in timedOut /\ (r \in listening => pipe[r] = "none" /\ child[r] = "stuck")
  /\ Sigkill(r)
  /\ Settle(r, "forced")
  /\ UNCHANGED <<exe, pipe, timedOut, hasty, said, asked, faults>>

KillProcess(e) ==
  /\ active[e] # NoRun
  /\ Sigkill(active[e])
  /\ asked' = asked \cup {active[e]}
  /\ UNCHANGED <<exe, result, active, pipe, listening, timer, timedOut, hasty, said, faults>>

-----------------------------------------------------------------------------
ParentStep(r) == OnMessage(r) \/ OnExit(r) \/ OnTimeout(r) \/ Watchdog(r)

Next ==
  \/ \E r \in Run : \/ \E e \in Exe : Start(r, e)
                    \/ ChildReports(r) \/ ChildExits(r) \/ ChildFails(r)
                    \/ ParentStep(r) \/ OnError(r)
  \/ \E e \in Exe : KillProcess(e)

Spec == Init /\ [][Next]_vars

(* Node delivers events and timers fire; nothing is assumed of the child.   *)
FairSpec == Spec /\ \A r \in Run : WF_vars(OnMessage(r)) /\ WF_vars(OnExit(r))
                                     /\ WF_vars(OnTimeout(r)) /\ WF_vars(Watchdog(r))

-----------------------------------------------------------------------------
\* No call has begun beside another of its execution.
Alone == Without({"overlap"})

\* The map knows exactly the calls that are pending, so that killProcess
\* reaches each of them and getActiveCount counts them (activeProcesses), and
\* the listeners left are theirs.
Tracked ==
  Alone =>
    /\ \A r \in Run : Pending(r) => active[exe[r]] = r
    /\ listening = {r \in Run : Pending(r)}
    /\ \A e \in Exe : active[e] # NoRun => exe[active[e]] = e /\ Pending(active[e])

\* Execução cancelada pelo usuário: only a kill that somebody asked for, as
\* long as the system kills no child.
CancelledByUser ==
  Without({"oom"}) => \A r \in Run : result[r] = "cancelled" => r \in asked

\* A report the child managed to send is the result, whatever timer, kill or
\* exit comes between; only a watchdog that overflowed may be before it.
ReportIsKept ==
  [][\A r \in Run : result[r] = "none" /\ result'[r] # "none" /\ said[r] # "none"
       => \/ result'[r] = said[r] \/ r \in hasty
          \/ ~Without({"overlap", "reorder"})']_vars

\* The watchdog settles only what neither 'exit' nor a message settled, unless
\* its delay overflowed.
ForcedOnlyWhenStuck ==
  Alone => \A r \in Run : result[r] = "forced" => child[r] = "stuck" \/ r \in hasty

\* Every Promise of the worker is settled.
EverySettles == \A r \in Run : Pending(r) /\ exe[r] \in Hardened ~> ~Pending(r)
=============================================================================
