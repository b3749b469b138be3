--------------------------- MODULE ControlidPassagem ---------------------------
(***************************************************************************)
(* How a passage through a ControlID turnstile gets registered              *)
(* (webapi/src/hardware/brands/controlid).  The device tells of a passage   *)
(* twice, in any order and at the same time: catra_event says that the arm  *)
(* turned, dao who was let through.  Each handler stores its notification   *)
(* and then looks for the other one, so that whichever comes second writes  *)
(* the passage; every query is a transaction of its own.  One device, whose *)
(* notifications carry their times, and users who are enrolled; the rows of *)
(* people are those of all institutions, the deleted ones included.         *)
(***************************************************************************)
EXTENDS Naturals, FiniteSets

CONSTANTS
  Passage,    \* passages through the turnstile
  Person,     \* PESPessoa: the rows of people
  IdExterno,  \* their PESIdExterno
  Passer,     \* who makes a passage; the notifications carry the id of the row
  Stamps,     \* what the device's clock may write on the notifications of all passages
  Known,      \* passages whose catra_event carries a user_id
  Call,       \* calls of the two endpoints: which notification, of whom, which attempt
  AtOnce,     \* bound on how many calls are at work at the same time
  None,       \* null
  FaultKinds, \* which faults may happen
  MaxFaults   \* bound on how many

AllFaultKinds == {"database", "crash"}
\* body.time of the catra_event, body.time of the dao, values.time in it.
Stamp == [turned : Nat, told : Nat, entered : Nat]

Registration == [turned : Passage, who : Person]

\* The arm turns in the second of the entry or in that of the dao.
ASSUME StampsAssumption ==
  /\ Stamps \subseteq [Passage -> Stamp]
  /\ \A s \in Stamps, p \in Passage : s[p].turned \in {s[p].told, s[p].entered}
ASSUME PersonAssumption == DOMAIN IdExterno = Person /\ Passer \in [Passage -> Person]
ASSUME KnownAssumption == Known \subseteq Passage
ASSUME CallAssumption == Call \subseteq [kind : {"catra", "dao"}, of : Passage, attempt : Nat]
ASSUME AtOnceAssumption == AtOnce \in Nat \ {0}
ASSUME NoneAssumption == None \notin Passage \cup Call \cup Registration
ASSUME FaultsAssumption == FaultKinds \subseteq AllFaultKinds /\ MaxFaults \in Nat

VARIABLES
  stamp,      \* the times of the passages
  row,        \* CTLControlidCatraEvent and CTLControlidDao: the row a call created
  next,       \* the next CTCCodigo and CTDCodigo
  at,         \* the query a call awaits
  local,      \* existingRows, the row of the catra_event a call goes by, the passage whose user_id it takes
  registered, \* REGRegistroPassagem: the row a call has written
  met,        \* passages two of whose calls were at work at the same time
  faults      \* how many may still happen

vars == <<stamp, row, next, at, local, registered, met, faults>>
given == <<stamp, met, faults>>
tables == <<row, next, registered>>

NoRow == [code |-> 0, processed |-> FALSE]
NoLocal == [rows |-> {}, event |-> None, user |-> None]

Storing == {"update", "create", "clean"}
PC == Storing \cup {"new", "match", "matchEntered", "user", "check", "lookUp", "lookUpEntered",
                    "register", "mark", "done", "failed"}

TypeOK ==
  /\ stamp \in Stamps
  /\ row \in [Call -> [code : Nat, processed : BOOLEAN]]
  /\ next \in [{"catra", "dao"} -> Nat \ {0}]
  /\ at \in [Call -> PC]
  /\ local \in [Call -> [rows : SUBSET Call, event : Call \cup {None}, user : Passage \cup {None}]]
  /\ registered \in [Call -> Registration \cup {None}]
  /\ met \subseteq Passage
  /\ faults \in 0..MaxFaults

Init ==
  /\ stamp \in Stamps
  /\ row = [c \in Call |-> NoRow] /\ next = [k \in {"catra", "dao"} |-> 1]
  /\ at = [c \in Call |-> "new"] /\ local = [c \in Call |-> NoLocal]
  /\ registered = [c \in Call |-> None]
  /\ met = {} /\ faults = MaxFaults

-----------------------------------------------------------------------------
Active == {c \in Call : at[c] \notin {"new", "done", "failed"}}

\* A call goes on with the next query; what it needs no more is forgotten.
Goto(c, label, loc) ==
  /\ at' = [at EXCEPT ![c] = label]
  /\ local' = [local EXCEPT ![c] = IF label \in {"done", "failed"} THEN NoLocal
                                   ELSE IF label \in Storing THEN loc ELSE [loc EXCEPT !.rows = {}]]

Continue(c, label) == Goto(c, label, local[c])

(* The tables --------------------------------------------------------------*)
Rows(kind) == {c \in Call : c.kind = kind /\ row[c].code # 0}

\* body.time of the notification, by which the rows of a table are keyed.
OriginTime(c) == IF c.kind = "catra" THEN stamp[c.of].turned ELSE stamp[c.of].told
ValuesTime(c) == stamp[c.of].entered

Batch(kind, time) == {r \in Rows(kind) : OriginTime(r) = time}

\* findFirst with orderBy the code.
IsOldest(r, rows) == r \in rows /\ \A s \in rows : row[r].code <= row[s].code
IsNewest(r, rows) == r \in rows /\ \A s \in rows : row[s].code <= row[r].code

(* Storing a notification --------------------------------------------------*)
SameEvent(c, d) == c.kind = d.kind /\ c.of = d.of

\* Rows of its own notification, and rows of others of the same second.
Same(c, rows) == {r \in rows : SameEvent(r, c)}
Orphans(c, rows) == rows \ Same(c, rows)
Stored(c) == IF c.kind = "catra" THEN "check" ELSE "match"

\* A call comes in; the device may send the notification again meanwhile or later.
\* persistControlidCatraEvent and persistControlidDao read the rows of its time.
Receive(c) ==
  LET rows == Batch(c.kind, OriginTime(c))
  IN /\ at[c] = "new" /\ \A d \in Call : SameEvent(c, d) /\ d.attempt < c.attempt => at[d] # "new"
     /\ Cardinality(Active) < AtOnce
     /\ Goto(c, IF Same(c, rows) # {} THEN "update"
                ELSE IF c.kind = "dao" /\ Orphans(c, rows) # {} THEN "clean" ELSE "create",
             [local[c] EXCEPT !.rows = rows])
     /\ met' = IF \E d \in Active : d.of = c.of THEN met \cup {c.of} ELSE met
     /\ UNCHANGED <<stamp, tables, faults>>

\* The row that was found, if it is still there, gets the values it has.
Update(c) ==
  /\ at[c] = "update"
  /\ \E r \in Same(c, local[c].rows) :
       Continue(c, IF row[r].code = 0 THEN "failed"
                   ELSE IF Orphans(c, local[c].rows) # {} THEN "clean" ELSE Stored(c))
  /\ UNCHANGED <<given, tables>>

Create(c) ==
  /\ at[c] = "create"
  /\ row' = [row EXCEPT ![c] = [code |-> next[c.kind], processed |-> FALSE]]
  /\ next' = [next EXCEPT ![c.kind] = @ + 1]
  /\ Continue(c, IF c.kind = "catra" /\ Orphans(c, local[c].rows) # {} THEN "clean" ELSE Stored(c))
  /\ UNCHANGED <<given, registered>>

Clean(c) ==
  /\ at[c] = "clean"
  /\ row' = [r \in Call |-> IF r \in Orphans(c, local[c].rows) THEN NoRow ELSE row[r]]
  /\ Continue(c, IF c.kind = "dao" /\ Same(c, local[c].rows) = {} THEN "create" ELSE Stored(c))
  /\ UNCHANGED <<given, next, registered>>

(* The call of dao looks for the catra_event -------------------------------*)
\* tryRegisterPassagemAfterControlidDao: the oldest row at the time that waits.
MatchAt(c, time, otherwise) ==
  LET open == {r \in Batch("catra", time) : ~row[r].processed}
  IN \/ open = {} /\ Continue(c, otherwise)
     \/ \E r \in open : IsOldest(r, open) /\ Goto(c, "user", [local[c] EXCEPT !.event = r])

\* (mutant) Only the time of the dao is tried.
MutMatchOnce(c) ==
  /\ at[c] = "match" /\ MatchAt(c, OriginTime(c), "done")
  /\ UNCHANGED <<given, tables>>

Match(c) ==
  /\ at[c] = "match"
  /\ MatchAt(c, OriginTime(c), IF ValuesTime(c) # OriginTime(c) THEN "matchEntered" ELSE "done")
  /\ UNCHANGED <<given, tables>>

MatchEntered(c) ==
  /\ at[c] = "matchEntered"
  /\ MatchAt(c, ValuesTime(c), "done")
  /\ UNCHANGED <<given, tables>>

\* The newest of these rows names the user.
TakeUser(c, rows, found) ==
  \E r \in rows : IsNewest(r, rows) /\ Goto(c, found, [local[c] EXCEPT !.user = r.of])

FindUser(c) ==
  LET time == OriginTime(local[c].event)
      rows == IF time = OriginTime(c) THEN Batch("dao", time)
                                      ELSE {r \in Rows("dao") : ValuesTime(r) = time}
  IN /\ at[c] = "user"
     /\ (rows = {} /\ Continue(c, "done")) \/ TakeUser(c, rows, "check")
     /\ UNCHANGED <<given, tables>>

(* registrarPassagemCore ---------------------------------------------------*)
\* The catra_event a call registers: its own, or the one it matched.
Event(c) == IF c.kind = "catra" THEN c ELSE local[c].event
EventBatch(c) == Batch("catra", OriginTime(Event(c)))

\* (mutant) Whether the passage is registered already is not asked.
MutCheckNothing(c) ==
  /\ at[c] = "check"
  /\ Continue(c, IF c.kind = "catra" THEN "lookUp" ELSE "register")
  /\ UNCHANGED <<given, tables>>

\* (mutant) The batch is marked before the user is known.
MutCheckMarks(c) ==
  LET done == EventBatch(c) # {} /\ \A r \in EventBatch(c) : row[r].processed
  IN /\ at[c] = "check"
     /\ Continue(c, IF done THEN "done" ELSE IF c.kind = "catra" THEN "lookUp" ELSE "register")
     /\ row' = [r \in Call |-> IF r \in EventBatch(c) THEN [row[r] EXCEPT !.processed = TRUE] ELSE row[r]]
     /\ UNCHANGED <<given, next, registered>>

\* isCatraBatchFullyProcessed.
Check(c) ==
  /\ at[c] = "check"
  /\ Continue(c, IF EventBatch(c) # {} /\ \A r \in EventBatch(c) : row[r].processed THEN "done"
                 ELSE IF c.kind = "catra" THEN "lookUp" ELSE "register")
  /\ UNCHANGED <<given, tables>>

\* A catra_event looks for its dao by body.time.
LookUp(c) ==
  LET rows == Batch("dao", OriginTime(c))
  IN /\ at[c] = "lookUp"
     /\ (rows = {} /\ Continue(c, "lookUpEntered")) \/ TakeUser(c, rows, "register")
     /\ UNCHANGED <<given, tables>>

\* (mutant) The newest dao will do.
MutLookUpNewest(c) ==
  LET rows == Rows("dao")
  IN /\ at[c] = "lookUpEntered"
     /\ \/ TakeUser(c, rows, "register")
        \/ rows = {} /\ c.of \in Known /\ Goto(c, "register", [local[c] EXCEPT !.user = c.of])
        \/ rows = {} /\ c.of \notin Known /\ Continue(c, "done")
     /\ UNCHANGED <<given, tables>>

\* Then by values.time; its own user_id is the last resort.
LookUpEntered(c) ==
  LET rows == {r \in Rows("dao") : ValuesTime(r) = OriginTime(c)}
  IN /\ at[c] = "lookUpEntered"
     /\ \/ TakeUser(c, rows, "register")
        \/ rows = {} /\ c.of \in Known /\ Goto(c, "register", [local[c] EXCEPT !.user = c.of])
        \/ rows = {} /\ c.of \notin Known /\ Continue(c, "done")
     /\ UNCHANGED <<given, tables>>

\* findFirst by PESIdExterno alone, in any order: whoever bears the user_id.
Bearers(p) == {x \in Person : IdExterno[x] = IdExterno[Passer[p]]}

Register(c) ==
  /\ at[c] = "register" /\ Continue(c, "mark")
  /\ \E x \in Bearers(local[c].user) :
       registered' = [registered EXCEPT ![c] = [turned |-> Event(c).of, who |-> x]]
  /\ UNCHANGED <<given, row, next>>

\* markCatraBatchProcessed.
Mark(c) ==
  /\ at[c] = "mark" /\ Continue(c, "done")
  /\ row' = [r \in Call |-> IF r \in EventBatch(c) THEN [row[r] EXCEPT !.processed = TRUE] ELSE row[r]]
  /\ UNCHANGED <<given, next, registered>>

(* Faults ------------------------------------------------------------------*)
Fault(kind) == kind \in FaultKinds /\ faults > 0 /\ faults' = faults - 1

\* A query is rejected, and the device gets an error for an answer.
Fail(c) ==
  /\ c \in Active /\ Fault("database") /\ Continue(c, "failed")
  /\ UNCHANGED <<stamp, tables, met>>

Crash ==
  /\ Fault("crash") /\ Active # {}
  /\ at' = [c \in Call |-> IF c \in Active THEN "failed" ELSE at[c]]
  /\ local' = [c \in Call |-> NoLocal]
  /\ UNCHANGED <<stamp, tables, met>>

-----------------------------------------------------------------------------
Store(c) == Receive(c) \/ Update(c) \/ Create(c) \/ Clean(c)
FindEvent(c) == Match(c) \/ MatchEntered(c) \/ FindUser(c)
RegisterPassage(c) == Check(c) \/ LookUp(c) \/ LookUpEntered(c) \/ Register(c) \/ Mark(c)

Next ==
  \/ \E c \in Call : Store(c) \/ FindEvent(c) \/ RegisterPassage(c) \/ Fail(c)
  \/ Crash

Spec == Init /\ [][Next]_vars

-----------------------------------------------------------------------------
Others(p) == Passage \ {p}
Registrations(p) == {c \in Call : registered[c] # None /\ registered[c].turned = p}
Answered(kind, p) == \E c \in Call : c.kind = kind /\ c.of = p /\ at[c] = "done"

\* The dao of q may be taken for that of p.
Confused(p, q) == stamp[p].turned \in {stamp[q].told, stamp[q].entered}

\* Both notifications of a passage were answered (or the one that names its
\* user): whatever their order, however their steps mixed and whichever calls
\* failed before, the passage is registered.  Without it both handlers have
\* looked for the other's row too early, and nobody looks again.  Excepted is a
\* passage that shares its second with another: storing the notifications of the
\* one deletes the rows of the other.
NothingMissed ==
  \A p \in Passage :
    /\ Answered("catra", p)
    /\ p \in Known \/ Answered("dao", p)
    /\ \A q \in Others(p) : stamp[q].told # stamp[p].told /\ ~Confused(q, p)
    => Registrations(p) # {}

\* A row that is marked as processed is never looked at again, so that its
\* passage has been registered, also if the marking call was cut off; but for
\* two turns of the arm in one second, which are one batch.
ProcessedIsRegistered ==
  \A c \in Rows("catra") :
    /\ row[c].processed
    /\ \A q \in Others(c.of) : stamp[q].turned # stamp[c.of].turned
    => Registrations(c.of) # {}

\* A passage is registered once, however often the device repeats itself,
\* unless two of its calls were at work at the same time, or a call ended
\* after it wrote the passage and before it marked the rows.
RegisteredOnce ==
  \A p \in Passage \ met :
    /\ \A q \in Others(p) : ~Confused(p, q)
    /\ \A c \in Registrations(p) : at[c] # "failed"
    => Cardinality(Registrations(p)) <= 1

\* Whoever is registered bears the PESIdExterno of who has passed, and is that
\* person if no other row of any institution bears it: no handler takes the dao of
\* another passage, unless that carries the second in which the arm turned.
RightPerson ==
  \A c \in Call :
    LET p == registered[c].turned
    IN registered[c] # None => \/ registered[c].who \in Bearers(p)
                               \/ \E q \in Others(p) : Confused(p, q)
=============================================================================
