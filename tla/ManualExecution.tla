---------------------------- MODULE ManualExecution ----------------------------
(***************************************************************************)
(* The engine of the webapi (webapi/src/rotina/engine/execution.service.ts) *)
(* for the executions a user starts: startExecution and the reprocessing of *)
(* an old row take the in-memory lock of the routine and go on in the       *)
(* background, next to the cancel and delete operations on the same row.    *)
(***************************************************************************)
EXTENDS Naturals, FiniteSets

CONSTANTS
  Call,          \* requests; the row a start creates has the name of its call
  Routine,       \* ROTCodigo
  Targets,       \* for each request the routine it starts: what users may ask
  MaxConcurrent, \* ROTINA_MAX_CONCURRENT_MANUAL
  FaultKinds,    \* which faults may happen
  MaxFaults      \* bound on how many

AllFaultKinds == {"database", "silent", "crash", "race"}

ASSUME TargetsAssumption == Targets \subseteq [Call -> Routine]
ASSUME MaxConcurrentAssumption == MaxConcurrent \in Nat
ASSUME FaultsAssumption == FaultKinds \subseteq AllFaultKinds /\ MaxFaults \in Nat

VARIABLES
  row,     \* EXEStatus, "none" before create, "deleted" after delete
  routine, \* routine of a call, and of the row it created
  exe,     \* the row a call is for
  call,    \* step of a request
  lock,    \* rotinaLocks
  run,     \* step of runInBackground
  outcome, \* finalStatus of a run
  active,  \* activeProcesses: runs with the entry of their exeId
  killed,  \* runs whose child was sent SIGKILL, until they end
  deaf,    \* runs whose child lost its listeners to the cleanup of another
  faults   \* how many may still happen, which kinds did

vars == <<row, routine, exe, call, lock, run, outcome, active, killed, deaf, faults>>
requestVars == <<routine, exe, call>>
processVars == <<active, killed, deaf>>

Final == {"SUCESSO", "ERRO", "TIMEOUT", "CANCELADO"}
Running == {"context", "process", "book", "touch", "fail"}
InFlight(c) == run[c] \in Running
Starting(c) == call[c] = "create"

\* activeProcesses is a Map, whose entries go when their child does.
TypeOK ==
  /\ row \in [Call -> Final \cup {"none", "EM_EXECUCAO", "deleted"}]
  /\ routine \in [Call -> Routine]
  /\ exe \in [Call -> Call]
  /\ call \in [Call -> {"new", "reset", "find", "create", "started", "refused"}]
  /\ lock \subseteq Routine
  /\ run \in [Call -> Running \cup {"none", "ended", "lost"}]
  /\ outcome \in [Call -> Final \cup {"none"}]
  /\ active \subseteq {c \in Call : run[c] = "process"}
  /\ killed \subseteq {c \in Call : InFlight(c)}
  /\ \A c, d \in active : exe[c] = exe[d] => c = d
  /\ deaf \subseteq Call
  /\ faults \in [left : 0..MaxFaults, seen : SUBSET FaultKinds]

Init ==
  /\ row = [c \in Call |-> "none"]
  /\ routine \in Targets
  /\ exe = [c \in Call |-> c]
  /\ call = [c \in Call |-> "new"]
  /\ lock = {}
  /\ run = [c \in Call |-> "none"] /\ outcome = [c \in Call |-> "none"]
  /\ active = {} /\ killed = {} /\ deaf = {}
  /\ faults = [left |-> MaxFaults, seen |-> {}]

-----------------------------------------------------------------------------
Fault(kind) ==
  /\ kind \in FaultKinds /\ faults.left > 0
  /\ faults' = [left |-> faults.left - 1, seen |-> faults.seen \cup {kind}]

\* None of these faults has happened.
Without(kinds) == faults.seen \cap kinds = {}

NoFault == UNCHANGED faults
CallTo(c, step) == call' = [call EXCEPT ![c] = step]
RunTo(c, step) == run' = [run EXCEPT ![c] = step]
Row(e, status) == row' = [row EXCEPT ![e] = status]

(* The requests ------------------------------------------------------------*)
\* The next request; which one it is is no matter.
Coming(c) == call[c] = "new" /\ c = CHOOSE d \in Call : call[d] = "new"

Request(c) ==
  /\ Coming(c)
  /\ CallTo(c, "find")
  /\ UNCHANGED <<row, routine, exe, lock, run, outcome, processVars, faults>>

\* reprocess reads the row of an execution, whatever its status.
RequestReprocess(c, e) ==
  /\ Coming(c) /\ e # c
  /\ row[e] \notin {"none", "deleted"}
  /\ exe' = [exe EXCEPT ![c] = e] /\ routine' = [routine EXCEPT ![c] = routine[e]]
  /\ CallTo(c, "reset")
  /\ UNCHANGED <<row, lock, run, outcome, processVars, faults>>

\* ... and opens it again before it asks whether it may run.
Reset(c) ==
  /\ call[c] = "reset"
  /\ \/ row[exe[c]] # "deleted" /\ Row(exe[c], "EM_EXECUCAO") /\ CallTo(c, "find") /\ NoFault
     \/ row[exe[c]] = "deleted" /\ CallTo(c, "refused") /\ UNCHANGED row /\ NoFault
     \/ Fault("database") /\ CallTo(c, "refused") /\ UNCHANGED row
  /\ UNCHANGED <<routine, exe, lock, run, outcome, processVars>>

Busy(c) == routine[c] \in lock \/ Cardinality(active) >= MaxConcurrent
\* A start of the same routine has passed its check and not taken its lock yet.
Racing(c) == \E d \in Call : Starting(d) /\ routine[d] = routine[c]

\* After findFirst.  A reprocessing takes the lock here, a start after its create.
Check(c) ==
  /\ call[c] = "find"
  /\ \/ Busy(c) /\ CallTo(c, "refused") /\ UNCHANGED <<lock, run>> /\ NoFault
     \/ /\ ~Busy(c)
        /\ IF Racing(c) THEN Fault("race") ELSE NoFault
        /\ IF exe[c] = c THEN CallTo(c, "create") /\ UNCHANGED <<lock, run>>
                         ELSE /\ CallTo(c, "started")
                              /\ lock' = lock \cup {routine[c]}
                              /\ RunTo(c, "context")
     \/ Fault("database") /\ CallTo(c, "refused") /\ UNCHANGED <<lock, run>>
  /\ UNCHANGED <<row, routine, exe, outcome, processVars>>

Create(c) ==
  /\ call[c] = "create"
  /\ \/ /\ Row(c, "EM_EXECUCAO") /\ NoFault
        /\ lock' = lock \cup {routine[c]}
        /\ RunTo(c, "context") /\ CallTo(c, "started")
     \/ Fault("database") /\ CallTo(c, "refused") /\ UNCHANGED <<row, lock, run>>
  /\ UNCHANGED <<routine, exe, outcome, processVars>>

(* runInBackground ---------------------------------------------------------*)
\* buildContext, then the child: its entry replaces one of the same exeId.
BuildContext(c) ==
  /\ run[c] = "context"
  /\ \/ /\ RunTo(c, "process") /\ NoFault
        /\ active' = {d \in active : exe[d] # exe[c]} \cup {c}
     \/ Fault("database") /\ RunTo(c, "fail") /\ UNCHANGED active
  /\ UNCHANGED <<row, requestVars, lock, outcome, killed, deaf>>

\* (mutant) A child that was killed counts as one that failed.
MutChildEndsAsError(c) ==
  /\ run[c] = "process" /\ c \notin deaf
  /\ \E status \in IF c \in killed THEN {"ERRO"} ELSE {"SUCESSO", "ERRO", "TIMEOUT"} :
       outcome' = [outcome EXCEPT ![c] = status]
  /\ RunTo(c, "book")
  /\ active' = active \ {c}
  /\ UNCHANGED <<row, requestVars, lock, killed, deaf, faults>>

\* The call of the ProcessManager settles and cleans up the entry of its exeId.
ChildEnds(c) ==
  /\ run[c] = "process" /\ c \notin deaf
  /\ \E status \in IF c \in killed THEN {"CANCELADO"} ELSE {"SUCESSO", "ERRO", "TIMEOUT"} :
       outcome' = [outcome EXCEPT ![c] = status]
  /\ RunTo(c, "book")
  /\ deaf' = deaf \cup {d \in active \ {c} : exe[d] = exe[c]}
  /\ active' = {d \in active : exe[d] # exe[c]}
  /\ UNCHANGED <<row, requestVars, lock, killed, faults>>

\* exit(0) without a report: the Promise of the webapi's ProcessManager stays open.
ChildSilent(c) ==
  /\ run[c] = "process" /\ c \notin deaf /\ Fault("silent")
  /\ deaf' = deaf \cup {c}
  /\ UNCHANGED <<row, requestVars, lock, run, outcome, active, killed>>

\* (mutant) Takes what it cannot book for a reason to wait.
MutBook(c) ==
  /\ run[c] = "book" /\ row[exe[c]] # "deleted"
  /\ Row(exe[c], outcome[c]) /\ RunTo(c, "touch") /\ NoFault
  /\ UNCHANGED <<requestVars, lock, outcome, processVars>>

Book(c) ==
  /\ run[c] = "book"
  /\ \/ row[exe[c]] # "deleted" /\ Row(exe[c], outcome[c]) /\ RunTo(c, "touch") /\ NoFault
     \/ row[exe[c]] = "deleted" /\ RunTo(c, "fail") /\ UNCHANGED row /\ NoFault
     \/ Fault("database") /\ RunTo(c, "fail") /\ UNCHANGED row
  /\ UNCHANGED <<requestVars, lock, outcome, processVars>>

\* The run ends and gives its lock back.
End(c) ==
  /\ RunTo(c, "ended")
  /\ lock' = lock \ {routine[c]}
  /\ outcome' = [outcome EXCEPT ![c] = "none"]
  /\ killed' = killed \ {c}

\* (mutant) Gives the lock back when all went well only.
MutTouch(c) ==
  /\ run[c] = "touch"
  /\ RunTo(c, "ended")
  /\ UNCHANGED <<row, requestVars, lock, outcome, processVars, faults>>

\* ROTUltimaExecucao, and the finally.
Touch(c) ==
  /\ run[c] = "touch"
  /\ \/ End(c) /\ NoFault
     \/ Fault("database") /\ RunTo(c, "fail") /\ UNCHANGED <<lock, outcome, killed>>
  /\ UNCHANGED <<row, requestVars, active, deaf>>

\* What a restart of the webapi leaves: the rows.
Restart ==
  /\ lock' = {} /\ active' = {} /\ killed' = {} /\ deaf' = {}
  /\ call' = [c \in Call |-> IF call[c] \in {"reset", "find", "create"} THEN "refused" ELSE call[c]]
  /\ run' = [c \in Call |-> IF InFlight(c) THEN "lost" ELSE run[c]]
  /\ outcome' = [c \in Call |-> "none"]
  /\ UNCHANGED <<routine, exe>>

(* (mutant) Ends without booking the row.                                   *)
MutFail(c) ==
  /\ run[c] = "fail"
  /\ End(c)
  /\ UNCHANGED <<row, requestVars, active, deaf, faults>>

\* The catch, then the finally.  An error in the catch is nobody's: runInBackground
\* is not awaited, and Node ends on an unhandled rejection.
Fail(c) ==
  /\ run[c] = "fail"
  /\ \/ /\ row[exe[c]] # "deleted" /\ Row(exe[c], "ERRO") /\ NoFault
        /\ End(c)
        /\ UNCHANGED <<requestVars, active, deaf>>
     \/ row[exe[c]] = "deleted" /\ NoFault /\ Restart /\ UNCHANGED row
     \/ Fault("database") /\ Restart /\ UNCHANGED row

(* The other operations on a row -------------------------------------------*)
\* cancelExecution kills the child it finds, else marks the row.
Cancel(e) ==
  /\ row[e] = "EM_EXECUCAO"
  /\ LET entry == {c \in active : exe[c] = e} IN
     /\ killed' = killed \cup entry
     /\ IF entry = {} THEN Row(e, "CANCELADO") ELSE UNCHANGED row
  /\ UNCHANGED <<requestVars, lock, run, outcome, active, deaf, faults>>

\* bulkAction cancel: cancelJob, and a signal for the workers only.
BulkCancel(e) ==
  /\ row[e] = "EM_EXECUCAO"
  /\ Row(e, "CANCELADO")
  /\ UNCHANGED <<requestVars, lock, run, outcome, processVars, faults>>

Delete(e) ==
  /\ row[e] \notin {"none", "deleted"}
  /\ Row(e, "deleted")
  /\ UNCHANGED <<requestVars, lock, run, outcome, processVars, faults>>

Crash == Fault("crash") /\ Restart /\ UNCHANGED row

-----------------------------------------------------------------------------
RunStep(c) == BuildContext(c) \/ ChildEnds(c) \/ Book(c) \/ Touch(c) \/ Fail(c)
RequestStep(c) == Reset(c) \/ Check(c) \/ Create(c)

Next ==
  \/ Crash
  \/ \E c \in Call : Request(c) \/ RequestStep(c) \/ RunStep(c) \/ ChildSilent(c)
                     \/ Cancel(c) \/ BulkCancel(c) \/ Delete(c)
                     \/ \E e \in Call : RequestReprocess(c, e)

Spec == Init /\ [][Next]_vars

(* Awaits return, and every child ends or is killed by its timeout.         *)
FairSpec == Spec /\ \A c \in Call : WF_vars(RequestStep(c)) /\ WF_vars(RunStep(c))

-----------------------------------------------------------------------------
\* A routine is locked exactly while one run of it is on its way: no lock leaks or goes
\* early, no second run starts, as long as no two requests for it race.
LockMeansRun ==
  Without({"race"}) =>
    \A t \in Routine :
      Cardinality({c \in Call : InFlight(c) /\ routine[c] = t}) = IF t \in lock THEN 1 ELSE 0

Lost == {c \in Call : run[c] = "lost"}

\* As long as the webapi did not fall, a row the console shows as running has a run,
\* or a request that leads to one; a reprocessing that is refused leaves its row open.
OpenRowHasRun ==
  Lost = {} =>
    \A e \in Call : row[e] = "EM_EXECUCAO" =>
      \E c \in Call : /\ exe[c] = e
                      /\ InFlight(c) \/ call[c] = "find" \/ (c # e /\ call[c] = "refused")

\* What was cancelled stays so, until a user reprocesses or deletes it, or the run
\* the cancel did not kill books its own outcome over it; an error after the outcome
\* was booked makes an ERRO of it.
CancelStands ==
  [][Without({"database"})' => \A e \in Call : row[e] = "CANCELADO" =>
       \/ row'[e] \in {"CANCELADO", "deleted"}
       \/ \E c \in Call : /\ exe[c] = e
                          /\ call[c] = "reset" \/ (InFlight(c) /\ c \notin killed)]_vars

\* Every run comes to its end and the routine can be started again, but for the run
\* of a child that leaves in silence.
EveryRunEnds == \A c \in Call : InFlight(c) ~> ~InFlight(c) \/ ~Without({"silent", "race"})
=============================================================================
