----------------------- MODULE ControlidPassagemProofs -----------------------
(***************************************************************************)
(* Theorems about ControlidPassagem, for any number of passages and calls,  *)
(* whatever the device's clock writes, and under every fault.               *)
(***************************************************************************)
EXTENDS ControlidPassagem, FiniteSetTheorems, TLAPS

(* Types -------------------------------------------------------------------*)
Local == [rows : SUBSET Call, event : Call \cup {None}, user : Passage \cup {None}]

LEMMA GotoType ==
  ASSUME TypeOK, NEW c \in Call, NEW label \in PC, NEW loc \in Local, Goto(c, label, loc)
  PROVE  at' \in [Call -> PC] /\ local' \in [Call -> Local]
<1>1. NoLocal \in Local
  BY DEF NoLocal, Local
<1>2. [loc EXCEPT !.rows = {}] \in Local
  BY DEF Local
<1> QED
  BY <1>1, <1>2 DEF Goto, TypeOK, Local

LEMMA LocalType == ASSUME TypeOK, NEW c \in Call PROVE local[c] \in Local
BY DEF TypeOK, Local

LEMMA ContinueType ==
  ASSUME TypeOK, NEW c \in Call, NEW label \in PC, Continue(c, label)
  PROVE  at' \in [Call -> PC] /\ local' \in [Call -> Local]
BY GotoType, LocalType DEF Continue

LEMMA EventSet ==
  ASSUME TypeOK, NEW c \in Call, NEW r \in Call
  PROVE  [local[c] EXCEPT !.event = r] \in Local
BY LocalType DEF Local

LEMMA UserSet ==
  ASSUME TypeOK, NEW c \in Call, NEW p \in Passage
  PROVE  [local[c] EXCEPT !.user = p] \in Local
BY LocalType DEF Local

LEMMA TakeUserType ==
  ASSUME TypeOK, NEW c \in Call, NEW rows \in SUBSET Call, NEW found \in PC, TakeUser(c, rows, found)
  PROVE  at' \in [Call -> PC] /\ local' \in [Call -> Local]
<1>1. PICK r \in rows : Goto(c, found, [local[c] EXCEPT !.user = r.of])
  BY DEF TakeUser
<1>2. r.of \in Passage
  BY CallAssumption
<1> QED
  BY <1>1, <1>2, UserSet, GotoType

LEMMA PassageTypeInit == Init => TypeOK
<1> SUFFICES ASSUME Init PROVE TypeOK
  OBVIOUS
<1>1. NoLocal \in Local /\ NoRow \in [code : Nat, processed : BOOLEAN] /\ "new" \in PC
  BY DEF NoLocal, Local, NoRow, PC, Storing
<1>2. row \in [Call -> [code : Nat, processed : BOOLEAN]] /\ at \in [Call -> PC] /\ local \in [Call -> Local]
  BY <1>1 DEF Init
<1>3. next \in [{"catra", "dao"} -> Nat \ {0}] /\ faults \in 0..MaxFaults
  BY FaultsAssumption DEF Init
<1> QED
  BY <1>2, <1>3 DEF Init, TypeOK, Local

(* What a call knows -------------------------------------------------------*)
Fits(p, q) == q = p \/ Confused(p, q)

\* A call that will register knows a catra_event and a user, and the dao of
\* the one shares a second with the other.
KnowsAt(c, label, loc) ==
  /\ label \in {"match", "matchEntered", "user"} => c.kind = "dao"
  /\ label \in {"lookUp", "lookUpEntered"} => c.kind = "catra"
  /\ c.kind = "dao" /\ label \in {"user", "check", "register", "mark"} =>
       /\ loc.event \in Call /\ loc.event.kind = "catra"
       /\ stamp[loc.event.of].turned \in {stamp[c.of].told, stamp[c.of].entered}
  /\ label = "register" \/ (c.kind = "dao" /\ label = "check") =>
       loc.user \in Passage /\ Fits(IF c.kind = "catra" THEN c.of ELSE loc.event.of, loc.user)

Knows(c) == KnowsAt(c, at[c], local[c])

LEMMA PassageTypeNext == TypeOK /\ (\A c \in Call : Knows(c)) /\ [Next]_vars => TypeOK'
<1> SUFFICES ASSUME TypeOK, \A c \in Call : Knows(c), [Next]_vars PROVE TypeOK'
  OBVIOUS
<1> USE CallAssumption
<1>g. ASSUME UNCHANGED <<given, tables>>, at' \in [Call -> PC], local' \in [Call -> Local]
      PROVE  TypeOK'
  BY <1>g DEF TypeOK, Local, given, tables
<1>1. ASSUME NEW c \in Call, Receive(c) PROVE TypeOK'
  <2> DEFINE rows == Batch(c.kind, OriginTime(c))
  <2>1. [local[c] EXCEPT !.rows = rows] \in Local
    BY LocalType DEF Local, Batch, Rows
  <2>2. at' \in [Call -> PC] /\ local' \in [Call -> Local]
    BY <1>1, <2>1, GotoType DEF Receive, PC, Storing
  <2>3. met' \subseteq Passage
    BY <1>1 DEF Receive, TypeOK
  <2> QED
    BY <1>1, <2>2, <2>3 DEF Receive, TypeOK, Local, tables
<1>2. ASSUME NEW c \in Call, Update(c) PROVE TypeOK'
  BY <1>2, <1>g, ContinueType DEF Update, PC, Storing, Stored
<1>3. ASSUME NEW c \in Call, Create(c) PROVE TypeOK'
  <2>1. at' \in [Call -> PC] /\ local' \in [Call -> Local]
    BY <1>3, ContinueType DEF Create, PC, Storing, Stored
  <2>2. row' \in [Call -> [code : Nat, processed : BOOLEAN]] /\ next' \in [{"catra", "dao"} -> Nat \ {0}]
    BY <1>3 DEF Create, TypeOK
  <2> QED
    BY <1>3, <2>1, <2>2 DEF Create, TypeOK, Local, given
<1>4. ASSUME NEW c \in Call, Clean(c) PROVE TypeOK'
  <2>1. at' \in [Call -> PC] /\ local' \in [Call -> Local]
    BY <1>4, ContinueType DEF Clean, PC, Storing, Stored
  <2>2. row' \in [Call -> [code : Nat, processed : BOOLEAN]]
    BY <1>4 DEF Clean, TypeOK, NoRow
  <2> QED
    BY <1>4, <2>1, <2>2 DEF Clean, TypeOK, Local, given
<1>m. ASSUME NEW c \in Call, NEW time, NEW otherwise \in PC, MatchAt(c, time, otherwise)
      PROVE  at' \in [Call -> PC] /\ local' \in [Call -> Local]
  <2>1. CASE Continue(c, otherwise)
    BY <2>1, ContinueType
  <2>2. CASE \E r \in Call : Goto(c, "user", [local[c] EXCEPT !.event = r])
    BY <2>2, EventSet, GotoType DEF PC
  <2> QED
    BY <1>m, <2>1, <2>2 DEF MatchAt, Batch, Rows
<1>5. ASSUME NEW c \in Call, Match(c) PROVE TypeOK'
  <2>1. PICK otherwise \in {"matchEntered", "done"} : MatchAt(c, OriginTime(c), otherwise)
    BY <1>5 DEF Match
  <2> QED
    BY <1>5, <2>1, <1>m, <1>g DEF Match, PC
<1>6. ASSUME NEW c \in Call, MatchEntered(c) PROVE TypeOK'
  BY <1>6, <1>m, <1>g DEF MatchEntered, PC
<1>7. ASSUME NEW c \in Call, FindUser(c) PROVE TypeOK'
  <2>1. PICK rows \in SUBSET Call : Continue(c, "done") \/ TakeUser(c, rows, "check")
    BY <1>7 DEF FindUser, Batch, Rows
  <2> QED
    BY <1>7, <2>1, TakeUserType, ContinueType, <1>g DEF FindUser, PC
<1>8. ASSUME NEW c \in Call, Check(c) PROVE TypeOK'
  BY <1>8, <1>g, ContinueType DEF Check, PC
<1>9. ASSUME NEW c \in Call, LookUp(c) PROVE TypeOK'
  <2>1. PICK rows \in SUBSET Call : Continue(c, "lookUpEntered") \/ TakeUser(c, rows, "register")
    BY <1>9 DEF LookUp, Batch, Rows
  <2> QED
    BY <1>9, <2>1, TakeUserType, ContinueType, <1>g DEF LookUp, PC
<1>10. ASSUME NEW c \in Call, LookUpEntered(c) PROVE TypeOK'
  <2>1. PICK rows \in SUBSET Call :
          \/ TakeUser(c, rows, "register")
          \/ Goto(c, "register", [local[c] EXCEPT !.user = c.of])
          \/ Continue(c, "done")
    BY <1>10 DEF LookUpEntered, Rows
  <2> QED
    BY <1>10, <2>1, TakeUserType, UserSet, GotoType, ContinueType, <1>g DEF LookUpEntered, PC
<1>11. ASSUME NEW c \in Call, Register(c) PROVE TypeOK'
  <2>1. at' \in [Call -> PC] /\ local' \in [Call -> Local]
    BY <1>11, ContinueType DEF Register, PC
  <2>2. local[c].user \in Passage /\ Event(c) \in Call
    BY <1>11 DEF Register, Knows, KnowsAt, Event
  <2>3. registered' \in [Call -> Registration \cup {None}]
    BY <1>11, <2>2 DEF Register, Bearers, Registration, TypeOK
  <2> QED
    BY <1>11, <2>1, <2>3 DEF Register, TypeOK, Local, given
<1>12. ASSUME NEW c \in Call, Mark(c) PROVE TypeOK'
  <2>1. at' \in [Call -> PC] /\ local' \in [Call -> Local]
    BY <1>12, ContinueType DEF Mark, PC
  <2>2. row' \in [Call -> [code : Nat, processed : BOOLEAN]]
    BY <1>12 DEF Mark, TypeOK
  <2> QED
    BY <1>12, <2>1, <2>2 DEF Mark, TypeOK, Local, given
<1>13. ASSUME NEW c \in Call, Fail(c) PROVE TypeOK'
  <2>1. at' \in [Call -> PC] /\ local' \in [Call -> Local]
    BY <1>13, ContinueType DEF Fail, PC
  <2> QED
    BY <1>13, <2>1, FaultsAssumption DEF Fail, Fault, TypeOK, Local, tables
<1>14. CASE Crash
  <2>1. at' \in [Call -> PC] /\ local' \in [Call -> Local]
    BY <1>14 DEF Crash, TypeOK, PC, Local, NoLocal
  <2> QED
    BY <1>14, <2>1, FaultsAssumption DEF Crash, Fault, TypeOK, Local, tables
<1>15. CASE UNCHANGED vars
  BY <1>15 DEF TypeOK, vars
<1> QED
  BY <1>1, <1>2, <1>3, <1>4, <1>5, <1>6, <1>7, <1>8, <1>9, <1>10, <1>11, <1>12, <1>13, <1>14, <1>15
  DEF Next, Store, FindEvent, RegisterPassage

LEMMA GotoKeepsKnowledge ==
  ASSUME TypeOK, \A d \in Call : Knows(d), stamp' = stamp,
         NEW c \in Call, NEW label, NEW loc \in Local, Goto(c, label, loc), KnowsAt(c, label, loc)
  PROVE  \A d \in Call : Knows(d)'
<1> SUFFICES ASSUME NEW d \in Call PROVE Knows(d)'
  OBVIOUS
<1>1. CASE d # c
  <2>1. at'[d] = at[d] /\ local'[d] = local[d]
    BY <1>1 DEF Goto, TypeOK
  <2> QED
    BY <2>1 DEF Knows, KnowsAt, Fits, Confused
<1>2. CASE d = c
  <2>1. at'[c] = label
    BY DEF Goto, TypeOK
  <2>2. label \notin {"done", "failed"} => local'[c].event = loc.event /\ local'[c].user = loc.user
    BY DEF Goto, TypeOK, Local
  <2> QED
    BY <1>2, <2>1, <2>2 DEF Knows, KnowsAt, Fits, Confused
<1> QED
  BY <1>1, <1>2

\* A label that asks for no knowledge.
LEMMA ContinueKeepsKnowledge ==
  ASSUME TypeOK, \A d \in Call : Knows(d), stamp' = stamp, NEW c \in Call, NEW label, Continue(c, label),
         \/ label \in Storing \cup {"done", "failed"}
         \/ label = "match" /\ c.kind = "dao"
         \/ label \in {"check", "lookUp", "lookUpEntered"} /\ c.kind = "catra"
  PROVE  \A d \in Call : Knows(d)'
<1>1. KnowsAt(c, label, local[c])
  BY DEF KnowsAt, Storing
<1> QED
  BY <1>1, GotoKeepsKnowledge, LocalType DEF Continue

LEMMA KnowledgeNext ==
  ASSUME TypeOK, \A d \in Call : Knows(d), [Next]_vars
  PROVE  \A d \in Call : Knows(d)'
<1> DEFINE K == \A d \in Call : Knows(d)
<1> USE CallAssumption
<1>0. \A c \in Call : c.of \in Passage /\ c.kind \in {"catra", "dao"}
  OBVIOUS
<1>s. \A c \in Call : (Stored(c) = "match" /\ c.kind = "dao") \/ (Stored(c) = "check" /\ c.kind = "catra")
  BY DEF Stored
<1>1. ASSUME NEW c \in Call, Receive(c) PROVE K'
  <2> DEFINE rows == Batch(c.kind, OriginTime(c))
             loc == [local[c] EXCEPT !.rows = rows]
  <2>1. loc \in Local
    BY LocalType DEF Local, Batch, Rows
  <2>2. PICK label \in Storing : Goto(c, label, loc)
    BY <1>1 DEF Receive, Storing
  <2>3. KnowsAt(c, label, loc)
    BY <2>2 DEF KnowsAt, Storing
  <2>4. stamp' = stamp
    BY <1>1 DEF Receive
  <2> HIDE DEF loc
  <2> QED
    BY <2>1, <2>2, <2>3, <2>4, GotoKeepsKnowledge
<1>2. ASSUME NEW c \in Call, Update(c) PROVE K'
  <2>1. PICK label : Continue(c, label) /\ label \in {"failed", "clean", Stored(c)}
    BY <1>2 DEF Update
  <2> QED
    BY <1>2, <1>s, <2>1, ContinueKeepsKnowledge DEF Update, given, Storing
<1>3. ASSUME NEW c \in Call, Create(c) PROVE K'
  <2>1. PICK label : Continue(c, label) /\ label \in {"clean", Stored(c)}
    BY <1>3 DEF Create
  <2> QED
    BY <1>3, <1>s, <2>1, ContinueKeepsKnowledge DEF Create, given, Storing
<1>4. ASSUME NEW c \in Call, Clean(c) PROVE K'
  <2>1. PICK label : Continue(c, label) /\ label \in {"create", Stored(c)}
    BY <1>4 DEF Clean
  <2> QED
    BY <1>4, <1>s, <2>1, ContinueKeepsKnowledge DEF Clean, given, Storing
<1>m. ASSUME NEW c \in Call, c.kind = "dao", NEW time \in {stamp[c.of].told, stamp[c.of].entered},
             NEW otherwise \in {"matchEntered", "done"}, MatchAt(c, time, otherwise), stamp' = stamp
      PROVE  K'
  <2>1. CASE Continue(c, otherwise)
    <3>1. KnowsAt(c, otherwise, local[c])
      BY <1>m DEF KnowsAt
    <3> QED
      BY <1>m, <2>1, <3>1, GotoKeepsKnowledge, LocalType DEF Continue
  <2>2. CASE \E r \in Call : r.kind = "catra" /\ OriginTime(r) = time /\ Goto(c, "user", [local[c] EXCEPT !.event = r])
    <3>1. PICK r \in Call : r.kind = "catra" /\ OriginTime(r) = time /\ Goto(c, "user", [local[c] EXCEPT !.event = r])
      BY <2>2
    <3> DEFINE loc == [local[c] EXCEPT !.event = r]
    <3>2. loc \in Local /\ loc.event = r
      BY EventSet, LocalType DEF Local
    <3>3. KnowsAt(c, "user", loc)
      BY <1>m, <3>1, <3>2 DEF KnowsAt, OriginTime
    <3> HIDE DEF loc
    <3> QED
      BY <1>m, <3>1, <3>2, <3>3, GotoKeepsKnowledge DEF loc
  <2> QED
    BY <1>m, <2>1, <2>2 DEF MatchAt, Batch, Rows
<1>5. ASSUME NEW c \in Call, Match(c) PROVE K'
  <2>1. c.kind = "dao" /\ OriginTime(c) = stamp[c.of].told
    BY <1>5, <1>0 DEF Match, Knows, KnowsAt, OriginTime
  <2>2. PICK otherwise \in {"matchEntered", "done"} : MatchAt(c, stamp[c.of].told, otherwise)
    BY <1>5, <2>1 DEF Match
  <2> QED
    BY <1>5, <2>1, <2>2, <1>m DEF Match, given
<1>6. ASSUME NEW c \in Call, MatchEntered(c) PROVE K'
  BY <1>6, <1>m DEF MatchEntered, Knows, KnowsAt, ValuesTime, given
<1>t. ASSUME NEW c \in Call, NEW rows \in SUBSET Call, NEW found \in {"check", "register"}, TakeUser(c, rows, found),
             c.kind = "dao" => Knows(c) /\ at[c] = "user" /\ found = "check",
             \A r \in rows : Fits(IF c.kind = "catra" THEN c.of ELSE local[c].event.of, r.of), stamp' = stamp
      PROVE  K'
  <2>1. PICK r \in rows : Goto(c, found, [local[c] EXCEPT !.user = r.of])
    BY <1>t DEF TakeUser
  <2> DEFINE loc == [local[c] EXCEPT !.user = r.of]
  <2>2. loc \in Local /\ loc.event = local[c].event /\ loc.user = r.of
    BY <1>0, UserSet, LocalType DEF Local
  <2>3. KnowsAt(c, found, loc)
    BY <1>t, <1>0, <2>2 DEF Knows, KnowsAt
  <2> HIDE DEF loc
  <2> QED
    BY <1>t, <2>1, <2>2, <2>3, GotoKeepsKnowledge DEF loc
<1>7. ASSUME NEW c \in Call, FindUser(c) PROVE K'
  <2>1. /\ c.kind = "dao" /\ at[c] = "user" /\ Knows(c) /\ stamp' = stamp
        /\ local[c].event \in Call /\ local[c].event.kind = "catra"
    BY <1>7 DEF FindUser, Knows, KnowsAt, given
  <2>2. PICK rows \in SUBSET Call :
          /\ Continue(c, "done") \/ TakeUser(c, rows, "check")
          /\ \A r \in rows : r.kind = "dao" /\ (OriginTime(r) = OriginTime(local[c].event)
                                               \/ ValuesTime(r) = OriginTime(local[c].event))
    BY <1>7 DEF FindUser, Batch, Rows
  <2>3. \A r \in rows : Fits(local[c].event.of, r.of)
    BY <2>1, <2>2 DEF Fits, Confused, OriginTime, ValuesTime
  <2> QED
    BY <2>1, <2>2, <2>3, <1>t, ContinueKeepsKnowledge
<1>8. ASSUME NEW c \in Call, Check(c) PROVE K'
  <2>1. PICK label \in {"done", "lookUp", "register"} :
          /\ Continue(c, label)
          /\ label = "lookUp" => c.kind = "catra"
          /\ label = "register" => c.kind = "dao"
    BY <1>8, <1>0 DEF Check
  <2>2. KnowsAt(c, label, local[c])
    BY <1>8, <2>1 DEF Check, Knows, KnowsAt
  <2> QED
    BY <1>8, <2>1, <2>2, GotoKeepsKnowledge, LocalType DEF Check, Continue, given
<1>9. ASSUME NEW c \in Call, LookUp(c) PROVE K'
  <2>1. c.kind = "catra" /\ stamp' = stamp
    BY <1>9 DEF LookUp, Knows, KnowsAt, given
  <2>2. \A r \in Batch("dao", OriginTime(c)) : Fits(c.of, r.of)
    BY <2>1 DEF Batch, Rows, OriginTime, Fits, Confused
  <2>3. Batch("dao", OriginTime(c)) \in SUBSET Call
    BY DEF Batch, Rows
  <2> QED
    BY <1>9, <2>1, <2>2, <2>3, <1>t, ContinueKeepsKnowledge DEF LookUp
<1>10. ASSUME NEW c \in Call, LookUpEntered(c) PROVE K'
  <2> DEFINE rows == {r \in Rows("dao") : ValuesTime(r) = OriginTime(c)}
  <2>1. c.kind = "catra" /\ stamp' = stamp
    BY <1>10 DEF LookUpEntered, Knows, KnowsAt, given
  <2>2. \A r \in rows : Fits(c.of, r.of)
    BY <2>1 DEF Rows, OriginTime, ValuesTime, Fits, Confused
  <2>3. rows \in SUBSET Call
    BY DEF Rows
  <2>4. CASE TakeUser(c, rows, "register")
    BY <2>1, <2>2, <2>3, <2>4, <1>t
  <2>5. CASE Continue(c, "done")
    BY <2>1, <2>5, ContinueKeepsKnowledge
  <2>6. CASE Goto(c, "register", [local[c] EXCEPT !.user = c.of])
    <3> DEFINE loc == [local[c] EXCEPT !.user = c.of]
    <3>1. loc \in Local /\ loc.user = c.of
      BY <1>0, UserSet, LocalType DEF Local
    <3>2. KnowsAt(c, "register", loc)
      BY <2>1, <3>1, <1>0 DEF KnowsAt, Fits
    <3> HIDE DEF loc
    <3> QED
      BY <2>1, <2>6, <3>1, <3>2, GotoKeepsKnowledge DEF loc
  <2> QED
    BY <1>10, <2>4, <2>5, <2>6 DEF LookUpEntered
<1>11. ASSUME NEW c \in Call, Register(c) PROVE K'
  <2>1. KnowsAt(c, "mark", local[c])
    BY <1>11 DEF Register, Knows, KnowsAt
  <2> QED
    BY <1>11, <2>1, GotoKeepsKnowledge, LocalType DEF Register, Continue, given
<1>12. ASSUME NEW c \in Call, Mark(c) PROVE K'
  BY <1>12, ContinueKeepsKnowledge DEF Mark, given
<1>13. ASSUME NEW c \in Call, Fail(c) PROVE K'
  BY <1>13, ContinueKeepsKnowledge DEF Fail
<1>14. CASE Crash
  <2>1. \A d \in Call : at'[d] \in {"new", "done", "failed"}
    BY <1>14 DEF Crash, TypeOK, Active
  <2> QED
    BY <2>1 DEF Knows, KnowsAt
<1>15. CASE UNCHANGED vars
  BY <1>15 DEF vars, Knows, KnowsAt, Fits, Confused
<1> QED
  BY <1>1, <1>2, <1>3, <1>4, <1>5, <1>6, <1>7, <1>8, <1>9, <1>10, <1>11, <1>12, <1>13, <1>14, <1>15
  DEF Next, Store, FindEvent, RegisterPassage

TypeInv == TypeOK /\ \A c \in Call : Knows(c)

LEMMA TypeInvariant == Spec => []TypeInv
<1>1. Init => TypeInv
  BY PassageTypeInit DEF Init, TypeInv, Knows, KnowsAt
<1>2. TypeInv /\ [Next]_vars => TypeInv'
  BY PassageTypeNext, KnowledgeNext DEF TypeInv
<1> QED
  BY <1>1, <1>2, PTL DEF Spec

\* The tables, the calls and what they have read keep their types.
THEOREM PassageTypeCorrect == Spec => []TypeOK
BY TypeInvariant, PTL DEF TypeInv

(* What is registered ------------------------------------------------------*)
RegisteredAt(time) == \E c \in Call : registered[c] # None /\ stamp[registered[c].turned].turned = time

FitsPerson(reg) == \E q \in Passage : Fits(reg.turned, q) /\ reg.who \in Bearers(q)

Recorded ==
  /\ \A c \in Call : at[c] \notin {"mark", "done", "failed"} => registered[c] = None
  /\ \A c \in Call : at[c] = "mark" => registered[c] # None /\ registered[c].turned = Event(c).of
  /\ \A c \in Call : registered[c] # None => FitsPerson(registered[c])
  /\ \A r \in Call : r.kind = "catra" /\ row[r].processed => RegisteredAt(stamp[r.of].turned)

\* Where a step leads, for the conditions that look at no other label.
LEMMA GotoGoes ==
  ASSUME TypeOK, NEW c \in Call, NEW label, NEW loc, Goto(c, label, loc)
  PROVE  /\ at'[c] = label
         /\ \A d \in Call : d # c => at'[d] = at[d] /\ local'[d] = local[d]
BY DEF Goto, TypeOK

\* A step that goes on before the passage is registered.
LEMMA EarlyStep ==
  ASSUME TypeOK, Recorded, NEW c \in Call, NEW label, NEW loc, Goto(c, label, loc),
         at[c] # "mark" \/ label \in {"done", "failed"}, at[c] \notin {"done", "failed"}, label # "mark",
         UNCHANGED <<stamp, registered>>,
         \A r \in Call : r.kind = "catra" /\ row'[r].processed => RegisteredAt(stamp[r.of].turned)
  PROVE  Recorded'
<1>1. /\ at'[c] = label
      /\ \A d \in Call : d # c => at'[d] = at[d] /\ local'[d] = local[d]
  BY GotoGoes
<1>2. \A d \in Call : at'[d] \notin {"mark", "done", "failed"} => registered'[d] = None
  BY <1>1 DEF Recorded
<1>3. \A d \in Call : at'[d] = "mark" => registered'[d] # None /\ registered'[d].turned = Event(d)'.of
  BY <1>1 DEF Recorded, Event
<1>4. \A d \in Call : registered'[d] # None => FitsPerson(registered[d])'
  BY DEF Recorded, FitsPerson, Fits, Confused
<1>5. \A r \in Call : r.kind = "catra" /\ row'[r].processed => RegisteredAt(stamp[r.of].turned)'
  BY DEF RegisteredAt
<1> QED
  BY <1>2, <1>3, <1>4, <1>5 DEF Recorded

LEMMA RecordedNext == TypeInv /\ Recorded /\ [Next]_vars => Recorded'
<1> SUFFICES ASSUME TypeOK, \A c \in Call : Knows(c), Recorded, [Next]_vars PROVE Recorded'
  BY DEF TypeInv
<1> USE CallAssumption
<1>r. ASSUME row' = row
      PROVE  \A r \in Call : r.kind = "catra" /\ row'[r].processed => RegisteredAt(stamp[r.of].turned)
  BY <1>r DEF Recorded
<1>q. ASSUME NEW c \in Call, NEW label, NEW loc, Goto(c, label, loc), UNCHANGED <<given, tables>>,
             at[c] \notin {"mark", "done", "failed"}, label # "mark"
      PROVE  Recorded'
  BY <1>q, <1>r, EarlyStep DEF given, tables
<1>1. ASSUME NEW c \in Call, Receive(c) PROVE Recorded'
  <2>1. PICK label \in Storing : \E loc : Goto(c, label, loc)
    BY <1>1 DEF Receive, Storing
  <2> QED
    BY <1>1, <2>1, <1>r, EarlyStep DEF Receive, tables, Storing
<1>2. ASSUME NEW c \in Call, Update(c) PROVE Recorded'
  <2>1. PICK label \in {"failed", "clean", "check", "match"} : Continue(c, label)
    BY <1>2 DEF Update, Stored
  <2> QED
    BY <1>2, <2>1, <1>q DEF Update, Continue
<1>3. ASSUME NEW c \in Call, Create(c) PROVE Recorded'
  <2>1. PICK label \in {"clean", "check", "match"} : Continue(c, label)
    BY <1>3 DEF Create, Stored
  <2>2. \A r \in Call : row'[r].processed => row[r].processed
    BY <1>3 DEF Create, TypeOK
  <2> QED
    BY <1>3, <2>1, <2>2, EarlyStep DEF Create, Continue, given, Recorded
<1>4. ASSUME NEW c \in Call, Clean(c) PROVE Recorded'
  <2>1. PICK label \in {"create", "check", "match"} : Continue(c, label)
    BY <1>4 DEF Clean, Stored
  <2>2. \A r \in Call : row'[r].processed => row[r].processed
    BY <1>4 DEF Clean, TypeOK, NoRow
  <2> QED
    BY <1>4, <2>1, <2>2, EarlyStep DEF Clean, Continue, given, Recorded
<1>5. ASSUME NEW c \in Call, Match(c) PROVE Recorded'
  <2>1. PICK label \in {"matchEntered", "done", "user"} : \E loc : Goto(c, label, loc)
    BY <1>5 DEF Match, MatchAt, Continue
  <2> QED
    BY <1>5, <2>1, <1>q DEF Match
<1>6. ASSUME NEW c \in Call, MatchEntered(c) PROVE Recorded'
  <2>1. PICK label \in {"done", "user"} : \E loc : Goto(c, label, loc)
    BY <1>6 DEF MatchEntered, MatchAt, Continue
  <2> QED
    BY <1>6, <2>1, <1>q DEF MatchEntered
<1>7. ASSUME NEW c \in Call, FindUser(c) PROVE Recorded'
  <2>1. PICK label \in {"done", "check"} : \E loc : Goto(c, label, loc)
    BY <1>7 DEF FindUser, TakeUser, Continue
  <2> QED
    BY <1>7, <2>1, <1>q DEF FindUser
<1>8. ASSUME NEW c \in Call, Check(c) PROVE Recorded'
  <2>1. PICK label \in {"done", "lookUp", "register"} : Continue(c, label)
    BY <1>8 DEF Check
  <2> QED
    BY <1>8, <2>1, <1>q DEF Check, Continue
<1>9. ASSUME NEW c \in Call, LookUp(c) PROVE Recorded'
  <2>1. PICK label \in {"lookUpEntered", "register"} : \E loc : Goto(c, label, loc)
    BY <1>9 DEF LookUp, TakeUser, Continue
  <2> QED
    BY <1>9, <2>1, <1>q DEF LookUp
<1>10. ASSUME NEW c \in Call, LookUpEntered(c) PROVE Recorded'
  <2>1. PICK label \in {"done", "register"} : \E loc : Goto(c, label, loc)
    BY <1>10 DEF LookUpEntered, TakeUser, Continue
  <2> QED
    BY <1>10, <2>1, <1>q DEF LookUpEntered
<1>11. ASSUME NEW c \in Call, Register(c) PROVE Recorded'
  <2>0. PICK x \in Bearers(local[c].user) :
          registered' = [registered EXCEPT ![c] = [turned |-> Event(c).of, who |-> x]]
    BY <1>11 DEF Register
  <2> DEFINE new == [turned |-> Event(c).of, who |-> x]
  <2>1. /\ at'[c] = "mark" /\ local'[c].event = local[c].event
        /\ \A d \in Call : d # c => at'[d] = at[d] /\ local'[d] = local[d]
    BY <1>11, LocalType, GotoGoes DEF Register, Continue, Goto, TypeOK, Local, Storing
  <2>2. registered'[c] = new /\ \A d \in Call : d # c => registered'[d] = registered[d]
    BY <2>0 DEF TypeOK
  <2>3. registered[c] = None /\ stamp' = stamp /\ row' = row
    BY <1>11 DEF Register, Recorded, given
  <2>4. new # None /\ FitsPerson(new)
    <3>1. local[c].user \in Passage /\ Fits(Event(c).of, local[c].user) /\ Event(c).of \in Passage
      BY <1>11 DEF Register, Knows, KnowsAt, Event
    <3> QED
      BY <2>0, <3>1, NoneAssumption DEF Registration, Bearers, FitsPerson
  <2>5. \A d \in Call : at'[d] \notin {"mark", "done", "failed"} => registered'[d] = None
    BY <2>1, <2>2 DEF Recorded
  <2>6. \A d \in Call : at'[d] = "mark" => registered'[d] # None /\ registered'[d].turned = Event(d)'.of
    BY <2>1, <2>2, <2>4 DEF Recorded, Event
  <2>7. \A d \in Call : registered'[d] # None => FitsPerson(registered[d])'
    BY <2>2, <2>3, <2>4 DEF Recorded, FitsPerson, Fits, Confused
  <2>8. \A r \in Call : r.kind = "catra" /\ row'[r].processed => RegisteredAt(stamp[r.of].turned)'
    BY <2>2, <2>3 DEF Recorded, RegisteredAt
  <2> QED
    BY <2>5, <2>6, <2>7, <2>8 DEF Recorded
<1>12. ASSUME NEW c \in Call, Mark(c) PROVE Recorded'
  <2>1. registered[c] # None /\ registered[c].turned = Event(c).of
    BY <1>12 DEF Mark, Recorded
  <2>2. Event(c).kind = "catra"
    BY <1>12 DEF Mark, Event, Knows, KnowsAt
  <2>3. ASSUME NEW r \in Call, r.kind = "catra", row'[r].processed
        PROVE  RegisteredAt(stamp[r.of].turned)
    <3>1. CASE r \in EventBatch(c)
      BY <2>1, <2>2, <2>3, <3>1 DEF EventBatch, Batch, Rows, OriginTime, RegisteredAt
    <3>2. CASE r \notin EventBatch(c)
      BY <1>12, <2>3, <3>2 DEF Mark, Recorded
    <3> QED
      BY <3>1, <3>2
  <2> QED
    BY <1>12, <2>3, EarlyStep DEF Mark, Continue, given
<1>13. ASSUME NEW c \in Call, Fail(c) PROVE Recorded'
  BY <1>13, <1>r, EarlyStep DEF Fail, Continue, Active, tables
<1>14. CASE Crash
  <2>1. \A d \in Call : (at'[d] = at[d] /\ at[d] \in {"new", "done", "failed"}) \/ at'[d] = "failed"
    BY <1>14 DEF Crash, TypeOK, Active
  <2> QED
    BY <1>14, <2>1 DEF Crash, tables, Recorded, FitsPerson, Fits, Confused, RegisteredAt
<1>15. CASE UNCHANGED vars
  BY <1>15 DEF vars, Recorded, FitsPerson, Fits, Confused, RegisteredAt, Event
<1> QED
  BY <1>1, <1>2, <1>3, <1>4, <1>5, <1>6, <1>7, <1>8, <1>9, <1>10, <1>11, <1>12, <1>13, <1>14, <1>15
  DEF Next, Store, FindEvent, RegisterPassage

RecordInv == TypeInv /\ Recorded

LEMMA RecordInvariant == Spec => []RecordInv
<1>1. Init => RecordInv
  BY PassageTypeInit DEF Init, RecordInv, TypeInv, Knows, KnowsAt, Recorded, NoRow
<1>2. RecordInv /\ [Next]_vars => RecordInv'
  BY PassageTypeNext, KnowledgeNext, RecordedNext DEF RecordInv, TypeInv
<1> QED
  BY <1>1, <1>2, PTL DEF Spec

\* Whoever is registered bears the PESIdExterno of who has passed
\* (registrarPassagemCore finds a person by it alone), or somebody's dao shares a
\* second with the turn of the arm.
THEOREM RightPersonRegistered == Spec => []RightPerson
<1>1. RecordInv => RightPerson
  BY DEF RecordInv, TypeInv, TypeOK, Registration, Recorded, RightPerson, FitsPerson, Fits, Others
<1> QED
  BY <1>1, RecordInvariant, PTL

\* A passage whose row is marked has been registered.
THEOREM MarkedIsRegistered == Spec => []ProcessedIsRegistered
<1>1. ASSUME RecordInv, NEW c \in Rows("catra"), row[c].processed,
             \A q \in Others(c.of) : stamp[q].turned # stamp[c.of].turned
      PROVE  Registrations(c.of) # {}
  <2>1. PICK d \in Call : registered[d] # None /\ stamp[registered[d].turned].turned = stamp[c.of].turned
    BY <1>1 DEF RecordInv, Recorded, RegisteredAt, Rows
  <2>2. registered[d].turned \in Passage
    BY <1>1, <2>1 DEF RecordInv, TypeInv, TypeOK, Registration
  <2> QED
    BY <1>1, <2>1, <2>2 DEF Others, Registrations
<1>2. RecordInv => ProcessedIsRegistered
  BY <1>1 DEF ProcessedIsRegistered
<1> QED
  BY <1>2, RecordInvariant, PTL

(* Nothing is missed -------------------------------------------------------*)
\* Nobody's notifications stand between those of the passage.
Clear(p) == \A q \in Others(p) : stamp[q].told # stamp[p].told /\ ~Confused(q, p)

HasRow(kind, p) == \E r \in Call : r.kind = kind /\ r.of = p /\ row[r].code # 0

\* A call that has stored its notification finds it in the table: the rows of
\* a clear passage are deleted by nobody.
StoredInv(p) ==
  /\ \A c \in Call : at[c] \in Storing =>
       \A r \in local[c].rows : r.kind = c.kind /\ OriginTime(r) = OriginTime(c)
  /\ Clear(p) => \A c \in Call : c.of = p =>
       /\ at[c] # "clean"
       /\ at[c] \in {"update", "create"} => \A r \in local[c].rows : row[r].code # 0
       /\ at[c] \notin {"new", "update", "create", "failed"} => HasRow(c.kind, p)

LEMMA ClearTimes ==
  ASSUME TypeOK, NEW p \in Passage, Clear(p)
  PROVE  /\ stamp[p].turned \in {stamp[p].told, stamp[p].entered}
         /\ \A q \in Passage : q # p => /\ stamp[q].told # stamp[p].told
                                      /\ stamp[q].turned # stamp[p].turned
                                      /\ stamp[q].turned # stamp[p].told
                                      /\ stamp[q].turned # stamp[p].entered
BY StampsAssumption DEF TypeOK, Clear, Others, Confused

LEMMA ClearOrigin ==
  ASSUME TypeOK, NEW p \in Passage, Clear(p), NEW c \in Call, NEW d \in Call,
         c.kind = d.kind, OriginTime(c) = OriginTime(d), c.of = p
  PROVE  d.of = p
BY ClearTimes, CallAssumption DEF OriginTime

LEMMA RowsStay ==
  ASSUME TypeOK, NEW p \in Passage, StoredInv(p), Clear(p), [Next]_vars,
         NEW r \in Call, r.of = p, row[r].code # 0
  PROVE  row'[r].code # 0
<1>1. ASSUME NEW c \in Call, Create(c) PROVE row'[r].code # 0
  <2>1. next[c.kind] \in Nat \ {0}
    BY CallAssumption DEF TypeOK
  <2> QED
    BY <1>1, <2>1 DEF Create, TypeOK
<1>2. ASSUME NEW c \in Call, Clean(c) PROVE row'[r].code # 0
  <2>1. c.of # p
    BY <1>2 DEF Clean, StoredInv
  <2>2. r \notin local[c].rows
    BY <1>2, <2>1, ClearOrigin DEF Clean, StoredInv, Storing
  <2> QED
    BY <1>2, <2>2 DEF Clean, Orphans
<1>3. ASSUME NEW c \in Call, Mark(c) PROVE row'[r].code # 0
  BY <1>3 DEF Mark, TypeOK
<1>4. CASE row' = row
  BY <1>4
<1> QED
  BY <1>1, <1>2, <1>3, <1>4
  DEF Next, Store, FindEvent, RegisterPassage, Receive, Update, Match, MatchEntered, FindUser, Check, LookUp,
      LookUpEntered, Register, Fail, Crash, tables, vars

LEMMA StoredGoto ==
  ASSUME TypeOK, NEW p \in Passage, StoredInv(p), [Next]_vars, stamp' = stamp,
         NEW c \in Call, NEW label, NEW loc \in Local, Goto(c, label, loc),
         label \in Storing => \A r \in loc.rows : r.kind = c.kind /\ OriginTime(r) = OriginTime(c),
         Clear(p) /\ c.of = p =>
           /\ label # "clean"
           /\ label \in {"update", "create"} => \A r \in loc.rows : row[r].code # 0
           /\ label \notin {"new", "update", "create", "failed"} => HasRow(c.kind, p) \/ HasRow(c.kind, p)'
  PROVE  StoredInv(p)'
<1>1. /\ at'[c] = label
      /\ \A d \in Call : d # c => at'[d] = at[d] /\ local'[d] = local[d]
  BY GotoGoes
<1>2. label \in Storing => local'[c].rows = loc.rows
  BY DEF Goto, TypeOK, Local, Storing
<1>3. ASSUME NEW d \in Call, at'[d] \in Storing, NEW r \in local'[d].rows
      PROVE  r.kind = d.kind /\ OriginTime(r)' = OriginTime(d)'
  BY <1>1, <1>2, <1>3 DEF StoredInv, OriginTime
<1>4. ASSUME Clear(p)', NEW d \in Call, d.of = p
      PROVE  /\ at'[d] # "clean"
             /\ at'[d] \in {"update", "create"} => \A r \in local'[d].rows : row'[r].code # 0
             /\ at'[d] \notin {"new", "update", "create", "failed"} => HasRow(d.kind, p)'
  <2>1. Clear(p)
    BY <1>4 DEF Clear, Confused
  <2>2. ASSUME HasRow(d.kind, p) PROVE HasRow(d.kind, p)'
    BY <2>1, <2>2, RowsStay DEF HasRow
  <2>3. ASSUME at'[d] \in {"update", "create"}, NEW r \in local'[d].rows PROVE row'[r].code # 0
    <3>1. row[r].code # 0 /\ r.kind = d.kind /\ OriginTime(r) = OriginTime(d)
      BY <1>1, <1>2, <1>4, <2>1, <2>3 DEF StoredInv, Storing
    <3>2. r \in Call
      BY <1>1, <1>2, <2>3 DEF TypeOK, Local, Storing
    <3> QED
      BY <1>4, <2>1, <3>1, <3>2, ClearOrigin, RowsStay
  <2> QED
    BY <1>1, <1>4, <2>1, <2>2, <2>3 DEF StoredInv
<1> QED
  BY <1>3, <1>4 DEF StoredInv

\* All rows a call of a clear passage reads are of its own notification.
LEMMA OwnRows ==
  ASSUME TypeOK, NEW p \in Passage, Clear(p), NEW c \in Call, c.of = p, NEW rows \in SUBSET Call,
         \A r \in rows : r.kind = c.kind /\ OriginTime(r) = OriginTime(c)
  PROVE  Same(c, rows) = rows /\ Orphans(c, rows) = {}
<1>1. \A r \in rows : r.of = p
  BY ClearOrigin
<1> QED
  BY <1>1 DEF Same, Orphans, SameEvent

LEMMA StoredNext ==
  ASSUME TypeOK, \A c \in Call : Knows(c), NEW p \in Passage, StoredInv(p), [Next]_vars
  PROVE  StoredInv(p)'
<1> USE CallAssumption
<1>l. ASSUME NEW c \in Call, at[c] \in Storing, Clear(p), c.of = p
      PROVE  Same(c, local[c].rows) = local[c].rows /\ Orphans(c, local[c].rows) = {}
  <2>1. local[c].rows \in SUBSET Call
    BY DEF TypeOK
  <2> QED
    BY <1>l, <2>1, OwnRows DEF StoredInv
\* The steps after the notification was stored.
<1>a. ASSUME NEW c \in Call, at[c] \notin Storing \cup {"new", "failed"}, NEW label, label \notin Storing,
             NEW loc \in Local, Goto(c, label, loc), stamp' = stamp
      PROVE  StoredInv(p)'
  <2>1. Clear(p) /\ c.of = p => HasRow(c.kind, p)
    BY <1>a DEF StoredInv, Storing
  <2> QED
    BY <1>a, <2>1, StoredGoto DEF Storing
<1>1. ASSUME NEW c \in Call, Receive(c) PROVE StoredInv(p)'
  <2> DEFINE rows == Batch(c.kind, OriginTime(c))
             loc == [local[c] EXCEPT !.rows = rows]
  <2>1. loc \in Local /\ loc.rows = rows /\ rows \in SUBSET Call
    BY LocalType DEF Local, Batch, Rows
  <2>2. \A r \in rows : r.kind = c.kind /\ OriginTime(r) = OriginTime(c) /\ row[r].code # 0
    BY DEF Batch, Rows
  <2>3. PICK label \in Storing :
          /\ Goto(c, label, loc)
          /\ label = "clean" => Orphans(c, rows) # {}
    BY <1>1 DEF Receive, Storing
  <2>4. Clear(p) /\ c.of = p => label # "clean"
    BY <2>1, <2>2, <2>3, OwnRows
  <2>5. stamp' = stamp
    BY <1>1 DEF Receive
  <2> HIDE DEF loc, rows
  <2> QED
    BY <2>1, <2>2, <2>3, <2>4, <2>5, StoredGoto DEF Storing
<1>2. ASSUME NEW c \in Call, Update(c) PROVE StoredInv(p)'
  <2>1. PICK r \in Same(c, local[c].rows) :
          Continue(c, IF row[r].code = 0 THEN "failed"
                      ELSE IF Orphans(c, local[c].rows) # {} THEN "clean" ELSE Stored(c))
    BY <1>2 DEF Update
  <2>2. PICK label \in {"failed", "clean", "check", "match"} :
          /\ Continue(c, label)
          /\ label = "clean" => Orphans(c, local[c].rows) # {}
          /\ label # "failed" => row[r].code # 0
    BY <2>1 DEF Stored
  <2>3. r \in Call /\ r.kind = c.kind /\ r.of = c.of
    BY LocalType DEF Same, SameEvent, Local
  <2>4. label # "failed" => HasRow(c.kind, c.of)
    BY <2>2, <2>3 DEF HasRow
  <2>5. Clear(p) /\ c.of = p => label # "clean"
    BY <1>2, <2>2, <1>l DEF Update, Storing
  <2>6. \A s \in local[c].rows : s.kind = c.kind /\ OriginTime(s) = OriginTime(c)
    BY <1>2 DEF Update, StoredInv, Storing
  <2> QED
    BY <1>2, <2>2, <2>4, <2>5, <2>6, LocalType, StoredGoto DEF Update, Continue, given
<1>3. ASSUME NEW c \in Call, Create(c) PROVE StoredInv(p)'
  <2>1. PICK label \in {"clean", "check", "match"} :
          /\ Continue(c, label)
          /\ label = "clean" => Orphans(c, local[c].rows) # {}
    BY <1>3 DEF Create, Stored
  <2>2. row'[c].code # 0
    BY <1>3 DEF Create, TypeOK
  <2>3. HasRow(c.kind, c.of)'
    BY <2>2 DEF HasRow
  <2>4. Clear(p) /\ c.of = p => label # "clean"
    BY <1>3, <2>1, <1>l DEF Create, Storing
  <2>5. \A s \in local[c].rows : s.kind = c.kind /\ OriginTime(s) = OriginTime(c)
    BY <1>3 DEF Create, StoredInv, Storing
  <2> QED
    BY <1>3, <2>1, <2>3, <2>4, <2>5, LocalType, StoredGoto DEF Create, Continue, given
<1>4. ASSUME NEW c \in Call, Clean(c) PROVE StoredInv(p)'
  <2>1. PICK label \in {"create", "check", "match"} : Continue(c, label)
    BY <1>4 DEF Clean, Stored
  <2>2. ~(Clear(p) /\ c.of = p)
    BY <1>4 DEF Clean, StoredInv
  <2>3. \A s \in local[c].rows : s.kind = c.kind /\ OriginTime(s) = OriginTime(c)
    BY <1>4 DEF Clean, StoredInv, Storing
  <2> QED
    BY <1>4, <2>1, <2>2, <2>3, LocalType, StoredGoto DEF Clean, Continue, given
<1>m. ASSUME NEW c \in Call, at[c] \in {"match", "matchEntered"}, NEW time, NEW otherwise \in {"matchEntered", "done"},
             MatchAt(c, time, otherwise), stamp' = stamp
      PROVE  StoredInv(p)'
  <2>1. PICK label \in {"matchEntered", "done", "user"}, loc \in Local : Goto(c, label, loc)
    BY <1>m, LocalType, EventSet DEF MatchAt, Continue, Batch, Rows
  <2> QED
    BY <1>m, <2>1, <1>a DEF Storing
<1>5. ASSUME NEW c \in Call, Match(c) PROVE StoredInv(p)'
  <2>1. PICK otherwise \in {"matchEntered", "done"} : MatchAt(c, OriginTime(c), otherwise)
    BY <1>5 DEF Match
  <2> QED
    BY <1>5, <2>1, <1>m DEF Match, given
<1>6. ASSUME NEW c \in Call, MatchEntered(c) PROVE StoredInv(p)'
  BY <1>6, <1>m DEF MatchEntered, given
<1>t. ASSUME NEW c \in Call, at[c] \in {"user", "lookUp", "lookUpEntered"}, NEW rows \in SUBSET Call,
             NEW found \in {"check", "register"}, TakeUser(c, rows, found), stamp' = stamp
      PROVE  StoredInv(p)'
  <2>1. PICK loc \in Local : Goto(c, found, loc)
    BY <1>t, UserSet DEF TakeUser
  <2> QED
    BY <1>t, <2>1, <1>a DEF Storing
<1>c. ASSUME NEW c \in Call, at[c] \notin Storing \cup {"new", "failed"}, NEW label, label \notin Storing,
             Continue(c, label), stamp' = stamp
      PROVE  StoredInv(p)'
  BY <1>c, <1>a, LocalType DEF Continue
<1>7. ASSUME NEW c \in Call, FindUser(c) PROVE StoredInv(p)'
  <2>1. PICK rows \in SUBSET Call : Continue(c, "done") \/ TakeUser(c, rows, "check")
    BY <1>7 DEF FindUser, Batch, Rows
  <2> QED
    BY <1>7, <2>1, <1>c, <1>t DEF FindUser, given, Storing
<1>8. ASSUME NEW c \in Call, Check(c) PROVE StoredInv(p)'
  <2>1. PICK label \in {"done", "lookUp", "register"} : Continue(c, label)
    BY <1>8 DEF Check
  <2> QED
    BY <1>8, <2>1, <1>c DEF Check, given, Storing
<1>9. ASSUME NEW c \in Call, LookUp(c) PROVE StoredInv(p)'
  <2>1. PICK rows \in SUBSET Call : Continue(c, "lookUpEntered") \/ TakeUser(c, rows, "register")
    BY <1>9 DEF LookUp, Batch, Rows
  <2> QED
    BY <1>9, <2>1, <1>c, <1>t DEF LookUp, given, Storing
<1>10. ASSUME NEW c \in Call, LookUpEntered(c) PROVE StoredInv(p)'
  <2>1. PICK rows \in SUBSET Call :
          \/ TakeUser(c, rows, "register")
          \/ Goto(c, "register", [local[c] EXCEPT !.user = c.of])
          \/ Continue(c, "done")
    BY <1>10 DEF LookUpEntered, Rows
  <2> QED
    BY <1>10, <2>1, UserSet, <1>a, <1>c, <1>t DEF LookUpEntered, given, Storing
<1>11. ASSUME NEW c \in Call, Register(c) PROVE StoredInv(p)'
  BY <1>11, <1>c DEF Register, given, Storing
<1>12. ASSUME NEW c \in Call, Mark(c) PROVE StoredInv(p)'
  BY <1>12, <1>c DEF Mark, given, Storing
<1>13. ASSUME NEW c \in Call, Fail(c) PROVE StoredInv(p)'
  BY <1>13, LocalType, StoredGoto DEF Fail, Continue, Storing
<1>14. CASE Crash
  <2>1. \A d \in Call : (at'[d] = at[d] /\ at[d] \in {"new", "done", "failed"}) \/ at'[d] = "failed"
    BY <1>14 DEF Crash, TypeOK, Active
  <2>2. stamp' = stamp /\ row' = row
    BY <1>14 DEF Crash, tables
  <2> QED
    BY <2>1, <2>2 DEF StoredInv, Storing, Clear, Confused, HasRow
<1>15. CASE UNCHANGED vars
  BY <1>15 DEF vars, StoredInv, Clear, Confused, HasRow, OriginTime
<1> QED
  BY <1>1, <1>2, <1>3, <1>4, <1>5, <1>6, <1>7, <1>8, <1>9, <1>10, <1>11, <1>12, <1>13, <1>14, <1>15
  DEF Next, Store, FindEvent, RegisterPassage

\* A call that has looked at the second at which the other notification of
\* its passage is found, and did not find it.
Blind(c) ==
  \/ at[c] = "done"
  \/ at[c] \in {"lookUpEntered", "matchEntered"} /\ stamp[c.of].turned = stamp[c.of].told

CallOf(kind, p) == {c \in Call : c.kind = kind /\ c.of = p}

\* As long as the passage is not registered, not both of its handlers have
\* looked too early: each stores before it looks.
FoundInv(p) ==
  Clear(p) /\ Registrations(p) = {} =>
    /\ \A c \in CallOf("catra", p), d \in CallOf("dao", p) : ~(Blind(c) /\ Blind(d))
    /\ p \in Known => \A c \in CallOf("catra", p) : at[c] # "done"

\* A passage whose row is processed, or that has a processed row at its time.
LEMMA ProcessedOfClear ==
  ASSUME TypeOK, Recorded, NEW p \in Passage, Clear(p), NEW r \in Call, r.kind = "catra",
         stamp[r.of].turned = stamp[p].turned, row[r].processed
  PROVE  Registrations(p) # {}
<1>1. PICK c \in Call : registered[c] # None /\ stamp[registered[c].turned].turned = stamp[p].turned
  BY DEF Recorded, RegisteredAt
<1>2. registered[c].turned \in Passage
  BY <1>1 DEF TypeOK, Registration
<1>3. registered[c].turned = p
  BY <1>1, <1>2, ClearTimes
<1> QED
  BY <1>1, <1>3 DEF Registrations

\* A stored catra_event is found by who looks at its time, a stored dao too.
LEMMA OpenFound ==
  ASSUME TypeOK, Recorded, NEW p \in Passage, Clear(p), Registrations(p) = {}, HasRow("catra", p)
  PROVE  {r \in Batch("catra", stamp[p].turned) : ~row[r].processed} # {}
<1>1. PICK r \in Call : r.kind = "catra" /\ r.of = p /\ row[r].code # 0
  BY DEF HasRow
<1>2. ~row[r].processed
  BY <1>1, ProcessedOfClear
<1> QED
  BY <1>1, <1>2 DEF Batch, Rows, OriginTime

LEMMA DaoFound ==
  ASSUME NEW p \in Passage, HasRow("dao", p)
  PROVE  /\ Batch("dao", stamp[p].told) # {}
         /\ {r \in Rows("dao") : ValuesTime(r) = stamp[p].entered} # {}
<1>1. PICK r \in Call : r.kind = "dao" /\ r.of = p /\ row[r].code # 0
  BY DEF HasRow
<1>2. r \in Batch("dao", stamp[p].told)
  BY <1>1 DEF Batch, Rows, OriginTime
<1>3. r \in {s \in Rows("dao") : ValuesTime(s) = stamp[p].entered}
  BY <1>1 DEF Rows, ValuesTime
<1> QED
  BY <1>2, <1>3

\* Before a notification is stored its calls have not looked.
LEMMA NotStored ==
  ASSUME NEW p \in Passage, StoredInv(p), Clear(p), NEW kind, ~HasRow(kind, p), NEW c \in CallOf(kind, p)
  PROVE  ~Blind(c)
BY DEF StoredInv, Blind, CallOf

\* The step of a call leaves all as it is, unless it makes the call blind.
LEMMA FoundGoto ==
  ASSUME TypeOK, Recorded, NEW p \in Passage, FoundInv(p), stamp' = stamp,
         Registrations(p)' = {} => Registrations(p) = {},
         NEW c \in Call, NEW label, NEW loc, Goto(c, label, loc),
         Clear(p) /\ Registrations(p) = {} /\ Registrations(p)' = {} /\ c.of = p =>
           \/ label \notin {"done", "lookUpEntered", "matchEntered"}
           \/ label # "done" /\ stamp[p].turned # stamp[p].told
           \/ c.kind = "catra" /\ (Blind(c) \/ \A d \in CallOf("dao", p) : ~Blind(d))
                              /\ (label = "done" => p \notin Known)
           \/ c.kind = "dao" /\ (Blind(c) \/ \A d \in CallOf("catra", p) : ~Blind(d))
  PROVE  FoundInv(p)'
<1> SUFFICES ASSUME Clear(p)', Registrations(p)' = {}
             PROVE  /\ \A a \in CallOf("catra", p), d \in CallOf("dao", p) : ~(Blind(a)' /\ Blind(d)')
                    /\ p \in Known => \A a \in CallOf("catra", p) : at'[a] # "done"
  BY DEF FoundInv, CallOf
<1>1. Clear(p) /\ Registrations(p) = {}
  BY DEF Clear, Confused
<1>2. /\ at'[c] = label
      /\ \A d \in Call : d # c => at'[d] = at[d] /\ (Blind(d)' <=> Blind(d))
  BY GotoGoes DEF Blind
<1>3. /\ \A a \in CallOf("catra", p), d \in CallOf("dao", p) : ~(Blind(a) /\ Blind(d))
      /\ p \in Known => \A a \in CallOf("catra", p) : at[a] # "done"
  BY <1>1 DEF FoundInv
<1>4. CASE c.of # p
  BY <1>2, <1>3, <1>4 DEF CallOf
<1>5. CASE c.of = p /\ ~Blind(c)'
  BY <1>2, <1>3, <1>5 DEF CallOf, Blind
<1>6. CASE c.of = p /\ Blind(c)' /\ c.kind = "catra"
  <2>1. /\ Blind(c) \/ \A d \in CallOf("dao", p) : ~Blind(d)
        /\ label = "done" => p \notin Known
    BY <1>1, <1>2, <1>6 DEF Blind
  <2>2. \A d \in CallOf("dao", p) : Blind(d)' <=> Blind(d)
    BY <1>2, <1>6 DEF CallOf
  <2>3. \A d \in CallOf("dao", p) : ~Blind(d)
    BY <1>3, <1>6, <2>1 DEF CallOf
  <2> QED
    BY <1>2, <1>3, <1>6, <2>1, <2>2, <2>3 DEF CallOf
<1>7. CASE c.of = p /\ Blind(c)' /\ c.kind # "catra"
  <2>1. c.kind = "dao" /\ (Blind(c) \/ \A d \in CallOf("catra", p) : ~Blind(d))
    BY <1>1, <1>2, <1>7, CallAssumption DEF Blind
  <2>2. \A d \in CallOf("catra", p) : at'[d] = at[d] /\ (Blind(d)' <=> Blind(d))
    BY <1>2, <1>7 DEF CallOf
  <2>3. \A d \in CallOf("catra", p) : ~Blind(d)
    BY <1>3, <1>7, <2>1 DEF CallOf
  <2> QED
    BY <1>3, <2>2, <2>3
<1> QED
  BY <1>4, <1>5, <1>6, <1>7

\* The catra_event of a call of a clear passage is of that passage.
LEMMA OwnEvent ==
  ASSUME TypeOK, NEW p \in Passage, Clear(p), NEW c \in Call, c.of = p, Knows(c),
         c.kind = "catra" \/ at[c] \in {"user", "check", "register", "mark"}
  PROVE  Event(c) \in Call /\ Event(c).kind = "catra" /\ Event(c).of = p
<1>1. CASE c.kind = "catra"
  BY <1>1 DEF Event
<1>2. CASE c.kind # "catra"
  <2>1. /\ local[c].event \in Call /\ local[c].event.kind = "catra"
        /\ stamp[local[c].event.of].turned \in {stamp[p].told, stamp[p].entered}
    BY <1>2, CallAssumption DEF Knows, KnowsAt
  <2>2. local[c].event.of \in Passage
    BY <2>1, CallAssumption
  <2> QED
    BY <1>2, <2>1, <2>2, ClearTimes DEF Event
<1> QED
  BY <1>1, <1>2

LEMMA FoundNext ==
  ASSUME TypeOK, \A c \in Call : Knows(c), Recorded, NEW p \in Passage, StoredInv(p), FoundInv(p), [Next]_vars
  PROVE  FoundInv(p)'
<1> DEFINE Missing == Clear(p) /\ Registrations(p) = {}
<1>0. \A c \in Call : c.of \in Passage /\ c.kind \in {"catra", "dao"}
  BY CallAssumption
<1>k. registered' = registered => (Registrations(p)' = {} => Registrations(p) = {})
  BY DEF Registrations
\* Steps to a label that is not blind, or that a missing passage does not take.
<1>q. ASSUME NEW c \in Call, NEW label, NEW loc, Goto(c, label, loc), stamp' = stamp, registered' = registered,
             Missing /\ c.of = p => label \notin {"done", "lookUpEntered", "matchEntered"}
      PROVE  FoundInv(p)'
  BY <1>q, <1>k, FoundGoto
\* Looking for the rows of the other notification, and finding none.
<1>e. ASSUME NEW time, Missing, time = stamp[p].turned, {r \in Batch("catra", time) : ~row[r].processed} = {}
      PROVE  \A d \in CallOf("catra", p) : ~Blind(d)
  <2>1. ~HasRow("catra", p)
    BY <1>e, OpenFound
  <2> QED
    BY <1>e, <2>1, NotStored
<1>1. ASSUME NEW c \in Call, Receive(c) PROVE FoundInv(p)'
  <2>1. PICK label \in Storing : \E loc : Goto(c, label, loc)
    BY <1>1 DEF Receive, Storing
  <2> QED
    BY <1>1, <2>1, <1>q DEF Receive, tables, Storing
<1>2. ASSUME NEW c \in Call, Update(c) PROVE FoundInv(p)'
  <2>1. PICK label \in {"failed", "clean", "check", "match"} : Continue(c, label)
    BY <1>2 DEF Update, Stored
  <2> QED
    BY <1>2, <2>1, <1>q DEF Update, Continue, given, tables
<1>3. ASSUME NEW c \in Call, Create(c) PROVE FoundInv(p)'
  <2>1. PICK label \in {"clean", "check", "match"} : Continue(c, label)
    BY <1>3 DEF Create, Stored
  <2> QED
    BY <1>3, <2>1, <1>q DEF Create, Continue, given
<1>4. ASSUME NEW c \in Call, Clean(c) PROVE FoundInv(p)'
  <2>1. PICK label \in {"create", "check", "match"} : Continue(c, label)
    BY <1>4 DEF Clean, Stored
  <2> QED
    BY <1>4, <2>1, <1>q DEF Clean, Continue, given
<1>5. ASSUME NEW c \in Call, Match(c) PROVE FoundInv(p)'
  <2> DEFINE otherwise == IF ValuesTime(c) # OriginTime(c) THEN "matchEntered" ELSE "done"
             open == {r \in Batch("catra", OriginTime(c)) : ~row[r].processed}
  <2>1. c.kind = "dao" /\ OriginTime(c) = stamp[c.of].told /\ stamp' = stamp /\ registered' = registered
    BY <1>5, <1>0 DEF Match, Knows, KnowsAt, OriginTime, given, tables
  <2>2. CASE \E loc : Goto(c, "user", loc)
    BY <2>1, <2>2, <1>q
  <2>3. CASE open = {} /\ Continue(c, otherwise)
    <3>1. ASSUME Missing, c.of = p, stamp[p].turned = stamp[p].told
          PROVE  \A d \in CallOf("catra", p) : ~Blind(d)
      BY <2>1, <2>3, <3>1, <1>e
    <3>2. ASSUME c.of = p, Clear(p), otherwise = "done"
          PROVE  stamp[p].turned = stamp[p].told
      BY <2>1, <3>2, ClearTimes DEF ValuesTime
    <3>3. Missing /\ c.of = p => \/ otherwise # "done" /\ stamp[p].turned # stamp[p].told
                                 \/ \A d \in CallOf("catra", p) : ~Blind(d)
      BY <3>1, <3>2
    <3> HIDE DEF otherwise
    <3> QED
      BY <2>1, <2>3, <3>3, <1>k, FoundGoto DEF Continue
  <2> QED
    BY <1>5, <2>2, <2>3 DEF Match, MatchAt
<1>6. ASSUME NEW c \in Call, MatchEntered(c) PROVE FoundInv(p)'
  <2> DEFINE open == {r \in Batch("catra", ValuesTime(c)) : ~row[r].processed}
  <2>1. c.kind = "dao" /\ stamp' = stamp /\ registered' = registered /\ at[c] = "matchEntered"
    BY <1>6 DEF MatchEntered, Knows, KnowsAt, given, tables
  <2>2. CASE \E loc : Goto(c, "user", loc)
    BY <2>1, <2>2, <1>q
  <2>3. CASE open = {} /\ Continue(c, "done")
    <3>1. ASSUME Missing, c.of = p
          PROVE  Blind(c) \/ \A d \in CallOf("catra", p) : ~Blind(d)
      <4>1. CASE stamp[p].turned = stamp[p].told
        BY <2>1, <3>1, <4>1 DEF Blind
      <4>2. CASE stamp[p].turned = ValuesTime(c)
        BY <2>3, <3>1, <4>2, <1>e
      <4> QED
        BY <3>1, <4>1, <4>2, ClearTimes DEF ValuesTime
    <3> QED
      BY <2>1, <2>3, <3>1, <1>k, FoundGoto DEF Continue
  <2> QED
    BY <1>6, <2>2, <2>3 DEF MatchEntered, MatchAt
<1>7. ASSUME NEW c \in Call, FindUser(c) PROVE FoundInv(p)'
  <2> DEFINE time == OriginTime(local[c].event)
             rows == IF time = OriginTime(c) THEN Batch("dao", time)
                                             ELSE {r \in Rows("dao") : ValuesTime(r) = time}
  <2>1. c.kind = "dao" /\ stamp' = stamp /\ registered' = registered /\ at[c] = "user"
    BY <1>7 DEF FindUser, Knows, KnowsAt, given, tables
  <2>2. CASE \E loc : Goto(c, "check", loc)
    BY <2>1, <2>2, <1>q
  <2>3. CASE rows = {} /\ Continue(c, "done")
    <3>1. ASSUME Missing, c.of = p PROVE FALSE
      <4>1. Event(c).kind = "catra" /\ Event(c).of = p
        BY <2>1, <3>1, OwnEvent
      <4>2. time = stamp[p].turned /\ OriginTime(c) = stamp[p].told
        BY <2>1, <3>1, <4>1 DEF Event, OriginTime
      <4>3. HasRow("dao", p)
        BY <2>1, <3>1 DEF StoredInv
      <4>4. stamp[p].turned \in {stamp[p].told, stamp[p].entered}
        BY <3>1, ClearTimes
      <4> HIDE DEF time
      <4>5. rows # {}
        BY <4>2, <4>3, <4>4, DaoFound
      <4> QED
        BY <2>3, <4>5
    <3> QED
      BY <2>1, <2>3, <3>1, <1>q DEF Continue
  <2> QED
    BY <1>7, <2>2, <2>3 DEF FindUser, TakeUser
<1>8. ASSUME NEW c \in Call, Check(c) PROVE FoundInv(p)'
  <2>1. PICK label \in {"done", "lookUp", "register"} :
          /\ Continue(c, label)
          /\ label = "done" => EventBatch(c) # {} /\ \A r \in EventBatch(c) : row[r].processed
    BY <1>8 DEF Check
  <2>2. ASSUME Missing, c.of = p, label = "done" PROVE FALSE
    <3>1. Event(c).kind = "catra" /\ Event(c).of = p
      BY <1>8, <2>2, OwnEvent DEF Check
    <3>2. PICK r \in EventBatch(c) : row[r].processed
      BY <2>1, <2>2
    <3>3. r \in Call /\ r.kind = "catra" /\ stamp[r.of].turned = stamp[p].turned
      BY <3>1, <3>2 DEF EventBatch, Batch, Rows, OriginTime
    <3> QED
      BY <2>2, <3>2, <3>3, ProcessedOfClear
  <2> QED
    BY <1>8, <2>1, <2>2, <1>q DEF Check, Continue, given, tables
<1>9. ASSUME NEW c \in Call, LookUp(c) PROVE FoundInv(p)'
  <2>1. c.kind = "catra" /\ stamp' = stamp /\ registered' = registered /\ at[c] = "lookUp"
    BY <1>9 DEF LookUp, Knows, KnowsAt, given, tables
  <2>2. CASE \E loc : Goto(c, "register", loc)
    BY <2>1, <2>2, <1>q
  <2>3. CASE Batch("dao", OriginTime(c)) = {} /\ Continue(c, "lookUpEntered")
    <3>1. ASSUME Missing, c.of = p, stamp[p].turned = stamp[p].told
          PROVE  \A d \in CallOf("dao", p) : ~Blind(d)
      <4>1. ~HasRow("dao", p)
        BY <2>1, <2>3, <3>1, DaoFound DEF OriginTime
      <4> QED
        BY <3>1, <4>1, NotStored
    <3> QED
      BY <2>1, <2>3, <3>1, <1>k, FoundGoto DEF Continue
  <2> QED
    BY <1>9, <2>2, <2>3 DEF LookUp, TakeUser
<1>10. ASSUME NEW c \in Call, LookUpEntered(c) PROVE FoundInv(p)'
  <2> DEFINE rows == {r \in Rows("dao") : ValuesTime(r) = OriginTime(c)}
  <2>1. c.kind = "catra" /\ stamp' = stamp /\ registered' = registered /\ at[c] = "lookUpEntered"
    BY <1>10 DEF LookUpEntered, Knows, KnowsAt, given, tables
  <2>2. CASE \E loc : Goto(c, "register", loc)
    BY <2>1, <2>2, <1>q
  <2>3. CASE rows = {} /\ c.of \notin Known /\ Continue(c, "done")
    <3>1. ASSUME Missing, c.of = p
          PROVE  Blind(c) \/ \A d \in CallOf("dao", p) : ~Blind(d)
      <4>1. CASE stamp[p].turned = stamp[p].told
        BY <2>1, <3>1, <4>1 DEF Blind
      <4>2. CASE stamp[p].turned = stamp[p].entered
        <5>1. ~HasRow("dao", p)
          BY <2>1, <2>3, <3>1, <4>2, DaoFound DEF OriginTime
        <5> QED
          BY <3>1, <5>1, NotStored
      <4> QED
        BY <3>1, <4>1, <4>2, ClearTimes
    <3> QED
      BY <2>1, <2>3, <3>1, <1>k, FoundGoto DEF Continue
  <2> QED
    BY <1>10, <2>2, <2>3 DEF LookUpEntered, TakeUser
<1>11. ASSUME NEW c \in Call, Register(c) PROVE FoundInv(p)'
  <2>1. registered[c] = None /\ \A d \in Call : d # c => registered'[d] = registered[d]
    BY <1>11 DEF Register, Recorded, TypeOK
  <2>2. Registrations(p)' = {} => Registrations(p) = {}
    BY <2>1 DEF Registrations
  <2> QED
    BY <1>11, <2>2, FoundGoto DEF Register, Continue, given
<1>12. ASSUME NEW c \in Call, Mark(c) PROVE FoundInv(p)'
  <2>1. ASSUME Missing, c.of = p PROVE FALSE
    <3>1. Event(c).of = p
      BY <1>12, <2>1, OwnEvent DEF Mark
    <3>2. registered[c] # None /\ registered[c].turned = p
      BY <1>12, <3>1 DEF Mark, Recorded
    <3> QED
      BY <2>1, <3>2 DEF Registrations
  <2> QED
    BY <1>12, <2>1, <1>q DEF Mark, Continue, given
<1>13. ASSUME NEW c \in Call, Fail(c) PROVE FoundInv(p)'
  BY <1>13, <1>q DEF Fail, Continue, tables
<1>14. CASE Crash
  <2>1. \A d \in Call : (at'[d] = at[d] /\ at[d] \in {"new", "done", "failed"}) \/ at'[d] = "failed"
    BY <1>14 DEF Crash, TypeOK, Active
  <2>2. stamp' = stamp /\ registered' = registered
    BY <1>14 DEF Crash, tables
  <2> QED
    BY <2>1, <2>2 DEF FoundInv, Clear, Confused, Registrations, CallOf, Blind
<1>15. CASE UNCHANGED vars
  BY <1>15 DEF vars, FoundInv, Clear, Confused, Registrations, CallOf, Blind
<1> QED
  BY <1>1, <1>2, <1>3, <1>4, <1>5, <1>6, <1>7, <1>8, <1>9, <1>10, <1>11, <1>12, <1>13, <1>14, <1>15
  DEF Next, Store, FindEvent, RegisterPassage

PassageInv == RecordInv /\ \A p \in Passage : StoredInv(p) /\ FoundInv(p)

\* Whichever of the two notifications is handled last, and however the steps
\* of their handlers mix, one of them finds the row of the other.
THEOREM NothingIsMissed == Spec => []NothingMissed
<1>1. Init => PassageInv
  <2> SUFFICES ASSUME Init PROVE PassageInv
    OBVIOUS
  <2>1. RecordInv
    BY PassageTypeInit DEF Init, RecordInv, TypeInv, Knows, KnowsAt, Recorded, NoRow
  <2>2. \A p \in Passage : StoredInv(p) /\ FoundInv(p)
    BY DEF Init, StoredInv, FoundInv, Storing, CallOf, Blind
  <2> QED
    BY <2>1, <2>2 DEF PassageInv
<1>2. PassageInv /\ [Next]_vars => PassageInv'
  <2> SUFFICES ASSUME PassageInv, [Next]_vars PROVE PassageInv'
    OBVIOUS
  <2>1. TypeOK /\ (\A c \in Call : Knows(c)) /\ Recorded
    BY DEF PassageInv, RecordInv, TypeInv
  <2>2. RecordInv'
    BY <2>1, PassageTypeNext, KnowledgeNext, RecordedNext DEF RecordInv, TypeInv
  <2>3. \A p \in Passage : StoredInv(p)' /\ FoundInv(p)'
    BY <2>1, StoredNext, FoundNext DEF PassageInv
  <2> QED
    BY <2>2, <2>3 DEF PassageInv
<1>3. PassageInv => NothingMissed
  <2> SUFFICES ASSUME PassageInv, NEW p \in Passage, Answered("catra", p), p \in Known \/ Answered("dao", p),
                      Clear(p), Registrations(p) = {}
               PROVE  FALSE
    BY DEF NothingMissed, Clear
  <2>1. PICK c \in CallOf("catra", p) : at[c] = "done"
    BY DEF Answered, CallOf
  <2>2. FoundInv(p)
    BY DEF PassageInv
  <2>3. CASE p \in Known
    BY <2>1, <2>2, <2>3 DEF FoundInv
  <2>4. CASE Answered("dao", p)
    <3>1. PICK d \in CallOf("dao", p) : at[d] = "done"
      BY <2>4 DEF Answered, CallOf
    <3> QED
      BY <2>1, <2>2, <3>1 DEF FoundInv, Blind
  <2> QED
    BY <2>3, <2>4
<1> QED
  BY <1>1, <1>2, <1>3, PTL DEF Spec

(* A passage is registered once --------------------------------------------*)
\* No other passage has a dao that fits the turn of the arm.
Apart(p) == \A q \in Others(p) : ~Confused(p, q)

LEMMA ApartTimes ==
  ASSUME TypeOK, NEW p \in Passage, Apart(p), NEW q \in Passage
  PROVE  /\ stamp[p].turned \in {stamp[q].told, stamp[q].entered} => q = p
         /\ stamp[q].turned = stamp[p].turned => q = p
<1>1. stamp[q].turned \in {stamp[q].told, stamp[q].entered}
  BY StampsAssumption DEF TypeOK
<1> QED
  BY <1>1 DEF Apart, Others, Confused

\* Calls that have found the catra_event of p and may register it.
Heading(p) ==
  {c \in Call : \/ c \in CallOf("catra", p) /\ at[c] \in {"lookUp", "lookUpEntered", "register", "mark"}
                \/ c.kind = "dao" /\ at[c] \in {"user", "check", "register", "mark"} /\ local[c].event.of = p}

LEMMA HeadingOwn ==
  ASSUME TypeOK, NEW p \in Passage, Apart(p), NEW c \in Heading(p), Knows(c)
  PROVE  c \in Call /\ c \in Active /\ c.of = p
BY ApartTimes, CallAssumption DEF Heading, CallOf, Knows, KnowsAt, Active

\* Whoever is about to register p goes there.
LEMMA HeadingEvent ==
  ASSUME NEW p \in Passage, NEW c \in Call, at[c] \in {"register", "mark"}
  PROVE  c \in Heading(p) <=> Event(c).of = p
BY CallAssumption DEF Heading, CallOf, Event

\* Only the step of a call leads it there.
LEMMA HeadingGoto ==
  ASSUME TypeOK, NEW p \in Passage, NEW c \in Call, NEW label, NEW loc \in Local, Goto(c, label, loc)
  PROVE  /\ \A d \in Heading(p)' : d = c \/ d \in Heading(p)
         /\ c \in Heading(p)' =>
              \/ c \in CallOf("catra", p) /\ label \in {"lookUp", "lookUpEntered", "register", "mark"}
              \/ c.kind = "dao" /\ label \in {"user", "check", "register", "mark"} /\ loc.event.of = p
<1>1. /\ at'[c] = label
      /\ \A d \in Call : d # c => at'[d] = at[d] /\ local'[d] = local[d]
  BY GotoGoes
<1>2. label \notin {"done", "failed"} => local'[c].event = loc.event
  BY DEF Goto, TypeOK, Local
<1> QED
  BY <1>1, <1>2 DEF Heading, CallOf

\* The rows of the catra_event are deleted by nobody.
KeptInv(p) ==
  Apart(p) =>
    /\ \A c \in CallOf("catra", p) :
         at[c] # "clean" /\ (at[c] \notin {"new", "update", "create", "failed"} => HasRow("catra", p))
    /\ Heading(p) # {} => HasRow("catra", p)

LEMMA CatraRowsStay ==
  ASSUME TypeOK, NEW p \in Passage, StoredInv(p), KeptInv(p), Apart(p), [Next]_vars,
         NEW r \in CallOf("catra", p), row[r].code # 0
  PROVE  row'[r].code # 0
<1>0. r \in Call /\ r.kind = "catra" /\ r.of = p
  BY DEF CallOf
<1>1. ASSUME NEW c \in Call, Create(c) PROVE row'[r].code # 0
  <2>1. next[c.kind] \in Nat \ {0}
    BY CallAssumption DEF TypeOK
  <2> QED
    BY <1>0, <1>1, <2>1 DEF Create, TypeOK
<1>2. ASSUME NEW c \in Call, Clean(c) PROVE row'[r].code # 0
  <2>1. c \notin CallOf("catra", p)
    BY <1>2 DEF Clean, KeptInv
  <2>2. r \notin local[c].rows
    BY <1>0, <1>2, <2>1, ApartTimes, CallAssumption DEF Clean, StoredInv, Storing, OriginTime, CallOf
  <2> QED
    BY <1>0, <1>2, <2>2 DEF Clean, Orphans
<1>3. ASSUME NEW c \in Call, Mark(c) PROVE row'[r].code # 0
  BY <1>0, <1>3 DEF Mark, TypeOK
<1>4. CASE row' = row
  BY <1>4
<1> QED
  BY <1>1, <1>2, <1>3, <1>4
  DEF Next, Store, FindEvent, RegisterPassage, Receive, Update, Match, MatchEntered, FindUser, Check, LookUp,
      LookUpEntered, Register, Fail, Crash, tables, vars

LEMMA KeptGoto ==
  ASSUME TypeOK, NEW p \in Passage, StoredInv(p), KeptInv(p), [Next]_vars, stamp' = stamp,
         NEW c \in Call, NEW label, NEW loc \in Local, Goto(c, label, loc),
         Apart(p) /\ c \in CallOf("catra", p) =>
           /\ label # "clean"
           /\ label \notin {"new", "update", "create", "failed"} => HasRow("catra", p) \/ HasRow("catra", p)',
         Apart(p) /\ c.kind = "dao" /\ label \in {"user", "check", "register", "mark"} /\ loc.event.of = p
           => HasRow("catra", p)
  PROVE  KeptInv(p)'
<1> SUFFICES ASSUME Apart(p)' PROVE KeptInv(p)'
  BY DEF KeptInv
<1>0. Apart(p)
  BY DEF Apart, Confused
<1>1. /\ at'[c] = label
      /\ \A d \in Call : d # c => at'[d] = at[d] /\ local'[d] = local[d]
  BY GotoGoes
<1>2. HasRow("catra", p) => HasRow("catra", p)'
  BY <1>0, CatraRowsStay DEF HasRow, CallOf
<1>3. ASSUME NEW d \in CallOf("catra", p)
      PROVE  at'[d] # "clean" /\ (at'[d] \notin {"new", "update", "create", "failed"} => HasRow("catra", p)')
  <2>1. CASE d = c
    BY <1>0, <1>1, <1>2, <1>3, <2>1
  <2>2. CASE d # c
    BY <1>0, <1>1, <1>2, <1>3, <2>2 DEF KeptInv, CallOf
  <2> QED
    BY <2>1, <2>2
<1>4. ASSUME NEW d \in Heading(p)' PROVE HasRow("catra", p)'
  <2>1. CASE d \in Heading(p)
    BY <1>0, <1>2, <2>1 DEF KeptInv
  <2>2. CASE d = c
    BY <1>0, <1>1, <1>2, <1>3, <1>4, <2>2, HeadingGoto DEF CallOf
  <2> QED
    BY <1>4, <2>1, <2>2, HeadingGoto
<1> QED
  BY <1>3, <1>4 DEF KeptInv, CallOf

LEMMA NoOrphans ==
  ASSUME TypeOK, NEW p \in Passage, StoredInv(p), Apart(p), NEW c \in CallOf("catra", p), at[c] \in Storing
  PROVE  Orphans(c, local[c].rows) = {}
<1>1. \A r \in local[c].rows : r \in Call /\ r.kind = c.kind /\ OriginTime(r) = OriginTime(c)
  BY DEF StoredInv, TypeOK, CallOf
<1>2. \A r \in local[c].rows : SameEvent(r, c)
  BY <1>1, ApartTimes, CallAssumption DEF OriginTime, SameEvent, CallOf
<1> QED
  BY <1>2 DEF Orphans, Same

LEMMA KeptNext ==
  ASSUME TypeOK, \A c \in Call : Knows(c), NEW p \in Passage, StoredInv(p), KeptInv(p), [Next]_vars
  PROVE  KeptInv(p)'
<1> USE CallAssumption
\* The steps after the notification was stored.
<1>a. ASSUME NEW c \in Call, at[c] \notin Storing \cup {"new", "failed"}, NEW label \in PC \ (Storing \cup {"new"}),
             NEW loc \in Local, Goto(c, label, loc), stamp' = stamp,
             c.kind = "dao" /\ label \in {"user", "check", "register", "mark"} =>
               \/ at[c] \in {"user", "check", "register", "mark"} /\ loc.event = local[c].event
               \/ Apart(p) /\ loc.event.of = p => HasRow("catra", p)
      PROVE  KeptInv(p)'
  <2>1. Apart(p) /\ c \in CallOf("catra", p) => HasRow("catra", p)
    BY <1>a DEF KeptInv, Storing
  <2>2. Apart(p) /\ c.kind = "dao" /\ label \in {"user", "check", "register", "mark"} /\ loc.event.of = p
          => HasRow("catra", p)
    BY <1>a DEF KeptInv, Heading
  <2>3. label # "clean"
    BY <1>a DEF Storing
  <2> QED
    BY <1>a, <2>1, <2>2, <2>3, KeptGoto
<1>1. ASSUME NEW c \in Call, Receive(c) PROVE KeptInv(p)'
  <2> DEFINE rows == Batch(c.kind, OriginTime(c))
             loc == [local[c] EXCEPT !.rows = rows]
  <2>1. loc \in Local
    BY LocalType DEF Local, Batch, Rows
  <2>2. PICK label \in Storing : Goto(c, label, loc) /\ (label = "clean" => c.kind = "dao")
    BY <1>1 DEF Receive, Storing
  <2>3. stamp' = stamp
    BY <1>1 DEF Receive
  <2> HIDE DEF loc
  <2> QED
    BY <2>1, <2>2, <2>3, KeptGoto DEF Storing, CallOf
<1>2. ASSUME NEW c \in Call, Update(c) PROVE KeptInv(p)'
  <2>1. PICK r \in Same(c, local[c].rows) :
          Continue(c, IF row[r].code = 0 THEN "failed"
                      ELSE IF Orphans(c, local[c].rows) # {} THEN "clean" ELSE Stored(c))
    BY <1>2 DEF Update
  <2>2. PICK label \in {"failed", "clean", "check", "match"} :
          /\ Continue(c, label)
          /\ label = "clean" => Orphans(c, local[c].rows) # {}
          /\ label # "failed" => row[r].code # 0
          /\ label = "check" => c.kind = "catra"
    BY <2>1 DEF Stored
  <2>3. r \in Call /\ r.kind = c.kind /\ r.of = c.of
    BY LocalType DEF Same, SameEvent, Local
  <2>4. label # "failed" => HasRow(c.kind, c.of)
    BY <2>2, <2>3 DEF HasRow
  <2>5. Apart(p) /\ c \in CallOf("catra", p) => label # "clean"
    BY <1>2, <2>2, NoOrphans DEF Update, Storing
  <2> QED
    BY <1>2, <2>2, <2>4, <2>5, LocalType, KeptGoto DEF Update, Continue, given, CallOf
<1>3. ASSUME NEW c \in Call, Create(c) PROVE KeptInv(p)'
  <2>1. PICK label \in {"clean", "check", "match"} :
          /\ Continue(c, label)
          /\ label = "clean" => c.kind = "catra" /\ Orphans(c, local[c].rows) # {}
          /\ label = "check" => c.kind = "catra"
    BY <1>3 DEF Create, Stored
  <2>2. row'[c].code # 0
    BY <1>3 DEF Create, TypeOK
  <2>3. HasRow(c.kind, c.of)'
    BY <2>2 DEF HasRow
  <2>4. Apart(p) /\ c \in CallOf("catra", p) => label # "clean"
    BY <1>3, <2>1, NoOrphans DEF Create, Storing
  <2> QED
    BY <1>3, <2>1, <2>3, <2>4, LocalType, KeptGoto DEF Create, Continue, given, CallOf
<1>4. ASSUME NEW c \in Call, Clean(c) PROVE KeptInv(p)'
  <2>1. PICK label \in {"create", "check", "match"} : Continue(c, label) /\ (label = "check" => c.kind = "catra")
    BY <1>4 DEF Clean, Stored
  <2>2. Apart(p) => c \notin CallOf("catra", p)
    BY <1>4 DEF Clean, KeptInv
  <2> QED
    BY <1>4, <2>1, <2>2, LocalType, KeptGoto DEF Clean, Continue, given
<1>m. ASSUME NEW c \in Call, at[c] \in {"match", "matchEntered"}, NEW time, NEW otherwise \in {"matchEntered", "done"},
             MatchAt(c, time, otherwise), stamp' = stamp
      PROVE  KeptInv(p)'
  <2>1. CASE Continue(c, otherwise)
    BY <1>m, <2>1, <1>a, LocalType DEF Continue, Storing, PC
  <2>2. CASE \E r \in Rows("catra") : Goto(c, "user", [local[c] EXCEPT !.event = r])
    <3>1. PICK r \in Rows("catra") : Goto(c, "user", [local[c] EXCEPT !.event = r])
      BY <2>2
    <3> DEFINE loc == [local[c] EXCEPT !.event = r]
    <3>2. loc \in Local /\ loc.event = r
      BY EventSet, LocalType DEF Local, Rows
    <3>3. r.of = p => HasRow("catra", p)
      BY DEF Rows, HasRow
    <3> HIDE DEF loc
    <3> QED
      BY <1>m, <3>1, <3>2, <3>3, <1>a DEF loc, Storing, PC
  <2> QED
    BY <1>m, <2>1, <2>2 DEF MatchAt, Batch
<1>5. ASSUME NEW c \in Call, Match(c) PROVE KeptInv(p)'
  <2>1. PICK otherwise \in {"matchEntered", "done"} : MatchAt(c, OriginTime(c), otherwise)
    BY <1>5 DEF Match
  <2> QED
    BY <1>5, <2>1, <1>m DEF Match, given
<1>6. ASSUME NEW c \in Call, MatchEntered(c) PROVE KeptInv(p)'
  BY <1>6, <1>m DEF MatchEntered, given
<1>t. ASSUME NEW c \in Call, at[c] = "user" \/ (c.kind = "catra" /\ at[c] \in {"lookUp", "lookUpEntered"}),
             NEW rows \in SUBSET Call, NEW found \in {"check", "register"}, TakeUser(c, rows, found), stamp' = stamp
      PROVE  KeptInv(p)'
  <2>1. PICK r \in rows : Goto(c, found, [local[c] EXCEPT !.user = r.of])
    BY <1>t DEF TakeUser
  <2> DEFINE loc == [local[c] EXCEPT !.user = r.of]
  <2>2. loc \in Local /\ loc.event = local[c].event
    BY UserSet, LocalType DEF Local
  <2> HIDE DEF loc
  <2> QED
    BY <1>t, <2>1, <2>2, <1>a DEF loc, Storing, PC
<1>c. ASSUME NEW c \in Call, at[c] \notin Storing \cup {"new", "failed"}, NEW label \in PC \ (Storing \cup {"new"}),
             Continue(c, label), stamp' = stamp,
             c.kind = "dao" /\ label \in {"user", "check", "register", "mark"} =>
               at[c] \in {"user", "check", "register", "mark"}
      PROVE  KeptInv(p)'
  BY <1>c, <1>a, LocalType DEF Continue
<1>7. ASSUME NEW c \in Call, FindUser(c) PROVE KeptInv(p)'
  <2>1. PICK rows \in SUBSET Call : Continue(c, "done") \/ TakeUser(c, rows, "check")
    BY <1>7 DEF FindUser, Batch, Rows
  <2> QED
    BY <1>7, <2>1, <1>c, <1>t DEF FindUser, given, Storing, PC
<1>8. ASSUME NEW c \in Call, Check(c) PROVE KeptInv(p)'
  <2>1. PICK label \in {"done", "lookUp", "register"} : Continue(c, label)
    BY <1>8 DEF Check
  <2> QED
    BY <1>8, <2>1, <1>c DEF Check, given, Storing, PC
<1>9. ASSUME NEW c \in Call, LookUp(c) PROVE KeptInv(p)'
  <2>1. PICK rows \in SUBSET Call : Continue(c, "lookUpEntered") \/ TakeUser(c, rows, "register")
    BY <1>9 DEF LookUp, Batch, Rows
  <2> QED
    BY <1>9, <2>1, <1>c, <1>t DEF LookUp, given, Storing, PC, Knows, KnowsAt
<1>10. ASSUME NEW c \in Call, LookUpEntered(c) PROVE KeptInv(p)'
  <2>1. PICK rows \in SUBSET Call :
          \/ TakeUser(c, rows, "register")
          \/ Goto(c, "register", [local[c] EXCEPT !.user = c.of])
          \/ Continue(c, "done")
    BY <1>10 DEF LookUpEntered, Rows
  <2>2. c.kind = "catra" /\ c.of \in Passage
    BY <1>10 DEF LookUpEntered, Knows, KnowsAt
  <2> QED
    BY <1>10, <2>1, <2>2, UserSet, <1>a, <1>c, <1>t DEF LookUpEntered, given, Storing, PC
<1>11. ASSUME NEW c \in Call, Register(c) PROVE KeptInv(p)'
  BY <1>11, <1>c DEF Register, given, Storing, PC
<1>12. ASSUME NEW c \in Call, Mark(c) PROVE KeptInv(p)'
  BY <1>12, <1>c DEF Mark, given, Storing, PC
<1>13. ASSUME NEW c \in Call, Fail(c) PROVE KeptInv(p)'
  BY <1>13, LocalType, KeptGoto DEF Fail, Continue
<1>14. CASE Crash
  <2>1. \A d \in Call : (at'[d] = at[d] /\ at[d] \in {"new", "done", "failed"}) \/ at'[d] = "failed"
    BY <1>14 DEF Crash, TypeOK, Active
  <2>2. stamp' = stamp /\ row' = row
    BY <1>14 DEF Crash, tables
  <2> QED
    BY <2>1, <2>2 DEF KeptInv, Apart, Confused, HasRow, CallOf, Heading
<1>15. CASE UNCHANGED vars
  BY <1>15 DEF vars, KeptInv, Apart, Confused, HasRow, CallOf, Heading
<1> QED
  BY <1>1, <1>2, <1>3, <1>4, <1>5, <1>6, <1>7, <1>8, <1>9, <1>10, <1>11, <1>12, <1>13, <1>14, <1>15
  DEF Next, Store, FindEvent, RegisterPassage

\* One call of p at a time.
Alone(p) == p \notin met => \A c, d \in Active : c.of = p /\ d.of = p => c = d

LEMMA GotoActive ==
  ASSUME TypeOK, NEW c \in Active, NEW label, NEW loc, Goto(c, label, loc)
  PROVE  Active' \subseteq Active
<1>1. c \in Call
  BY DEF Active
<1>2. \A d \in Call : d # c => at'[d] = at[d]
  BY <1>1, GotoGoes
<1> QED
  BY <1>2 DEF Active

LEMMA OthersReceiveNothing ==
  ASSUME TypeOK, [Next]_vars, \A c \in Call : ~Receive(c)
  PROVE  Active' \subseteq Active /\ met' = met
<1> DEFINE Fine == Active' \subseteq Active /\ met' = met
<1>2. ASSUME NEW c \in Call, Update(c) PROVE Fine
  BY <1>2, GotoActive DEF Update, Continue, given, Active
<1>3. ASSUME NEW c \in Call, Create(c) PROVE Fine
  BY <1>3, GotoActive DEF Create, Continue, given, Active
<1>4. ASSUME NEW c \in Call, Clean(c) PROVE Fine
  BY <1>4, GotoActive DEF Clean, Continue, given, Active
<1>5. ASSUME NEW c \in Call, Match(c) PROVE Fine
  <2>1. \E label, loc : Goto(c, label, loc)
    BY <1>5 DEF Match, MatchAt, Continue
  <2> QED
    BY <1>5, <2>1, GotoActive DEF Match, given, Active
<1>6. ASSUME NEW c \in Call, MatchEntered(c) PROVE Fine
  <2>1. \E label, loc : Goto(c, label, loc)
    BY <1>6 DEF MatchEntered, MatchAt, Continue
  <2> QED
    BY <1>6, <2>1, GotoActive DEF MatchEntered, given, Active
<1>7. ASSUME NEW c \in Call, FindUser(c) PROVE Fine
  <2>1. \E label, loc : Goto(c, label, loc)
    BY <1>7 DEF FindUser, TakeUser, Continue
  <2> QED
    BY <1>7, <2>1, GotoActive DEF FindUser, given, Active
<1>8. ASSUME NEW c \in Call, Check(c) PROVE Fine
  BY <1>8, GotoActive DEF Check, Continue, given, Active
<1>9. ASSUME NEW c \in Call, LookUp(c) PROVE Fine
  <2>1. \E label, loc : Goto(c, label, loc)
    BY <1>9 DEF LookUp, TakeUser, Continue
  <2> QED
    BY <1>9, <2>1, GotoActive DEF LookUp, given, Active
<1>10. ASSUME NEW c \in Call, LookUpEntered(c) PROVE Fine
  <2>1. \E label, loc : Goto(c, label, loc)
    BY <1>10 DEF LookUpEntered, TakeUser, Continue
  <2> QED
    BY <1>10, <2>1, GotoActive DEF LookUpEntered, given, Active
<1>11. ASSUME NEW c \in Call, Register(c) PROVE Fine
  BY <1>11, GotoActive DEF Register, Continue, given, Active
<1>12. ASSUME NEW c \in Call, Mark(c) PROVE Fine
  BY <1>12, GotoActive DEF Mark, Continue, given, Active
<1>13. ASSUME NEW c \in Call, Fail(c) PROVE Fine
  BY <1>13, GotoActive DEF Fail, Continue
<1>14. CASE Crash
  BY <1>14 DEF Crash, TypeOK, Active
<1>15. CASE UNCHANGED vars
  BY <1>15 DEF vars, Active
<1> QED
  BY <1>2, <1>3, <1>4, <1>5, <1>6, <1>7, <1>8, <1>9, <1>10, <1>11, <1>12, <1>13, <1>14, <1>15
  DEF Next, Store, FindEvent, RegisterPassage

LEMMA AloneNext ==
  ASSUME TypeOK, NEW p \in Passage, Alone(p), [Next]_vars
  PROVE  Alone(p)' /\ (p \notin met' => p \notin met)
<1>1. ASSUME NEW c \in Call, Receive(c) PROVE Alone(p)' /\ (p \notin met' => p \notin met)
  <2>1. PICK label, loc : Goto(c, label, loc)
    BY <1>1 DEF Receive
  <2>2. Active' \subseteq Active \cup {c}
    BY <1>1, <2>1, GotoGoes DEF Active
  <2>3. p \notin met' => p \notin met /\ (c.of = p => \A d \in Active : d.of # p)
    BY <1>1 DEF Receive
  <2> QED
    BY <2>2, <2>3 DEF Alone
<1>2. CASE \A c \in Call : ~Receive(c)
  BY <1>2, OthersReceiveNothing DEF Alone
<1> QED
  BY <1>1, <1>2

\* What is registered of p, a call of p has registered.
OwnInv(p) == Apart(p) => \A c \in Registrations(p) : c.of = p

LEMMA OwnNext ==
  ASSUME TypeOK, \A c \in Call : Knows(c), Recorded, NEW p \in Passage, OwnInv(p), [Next]_vars
  PROVE  OwnInv(p)'
<1>0. stamp' = stamp
  BY DEF Next, Store, FindEvent, RegisterPassage, Receive, Update, Create, Clean, Match, MatchEntered, FindUser, Check,
         LookUp, LookUpEntered, Register, Mark, Fail, Crash, given, vars
<1>1. CASE registered' = registered
  BY <1>0, <1>1 DEF OwnInv, Apart, Confused, Registrations
<1>2. ASSUME NEW c \in Call, Register(c) PROVE OwnInv(p)'
  <2>1. /\ registered'[c].turned = Event(c).of
        /\ \A d \in Call : d # c => registered'[d] = registered[d]
    BY <1>2 DEF Register, TypeOK
  <2>2. Apart(p) /\ Event(c).of = p => c.of = p
    BY <1>2, HeadingOwn, HeadingEvent DEF Register
  <2> QED
    BY <1>0, <2>1, <2>2 DEF OwnInv, Apart, Confused, Registrations
<1> QED
  BY <1>1, <1>2
  DEF Next, Store, FindEvent, RegisterPassage, Receive, Update, Create, Clean, Match, MatchEntered, FindUser, Check,
      LookUp, LookUpEntered, Mark, Fail, Crash, tables, vars

\* The row of a catra_event is created once.
FreshInv(p) ==
  Apart(p) /\ p \notin met => \A c \in CallOf("catra", p) : at[c] = "create" => ~HasRow("catra", p)

LEMMA FreshGoto ==
  ASSUME TypeOK, NEW p \in Passage, FreshInv(p), stamp' = stamp, p \notin met' => p \notin met,
         NEW c \in Call, NEW label, NEW loc, Goto(c, label, loc),
         HasRow("catra", p)' => HasRow("catra", p),
         label = "create" /\ c.kind = "catra" /\ c.of = p => ~HasRow("catra", p)
  PROVE  FreshInv(p)'
<1>1. /\ at'[c] = label
      /\ \A d \in Call : d # c => at'[d] = at[d] /\ local'[d] = local[d]
  BY GotoGoes
<1>2. Apart(p)' => Apart(p)
  BY DEF Apart, Confused
<1> QED
  BY <1>1, <1>2 DEF FreshInv, CallOf

LEMMA FreshNext ==
  ASSUME TypeOK, \A c \in Call : Knows(c), NEW p \in Passage, Alone(p), FreshInv(p), [Next]_vars
  PROVE  FreshInv(p)'
<1> USE CallAssumption
<1>0. p \notin met' => p \notin met
  BY AloneNext
<1>r. row' = row => (HasRow("catra", p)' => HasRow("catra", p))
  BY DEF HasRow
<1>q. ASSUME NEW c \in Call, NEW label, NEW loc, Goto(c, label, loc), label # "create", UNCHANGED <<stamp, row>>
      PROVE  FreshInv(p)'
  BY <1>q, <1>0, <1>r, FreshGoto
<1>1. ASSUME NEW c \in Call, Receive(c) PROVE FreshInv(p)'
  <2> DEFINE rows == Batch(c.kind, OriginTime(c))
  <2>1. PICK label \in Storing : (\E loc : Goto(c, label, loc)) /\ (label = "create" => Same(c, rows) = {})
    BY <1>1 DEF Receive, Storing
  <2>2. ASSUME label = "create", c.kind = "catra", c.of = p PROVE ~HasRow("catra", p)
    <3>1. ASSUME NEW r \in Call, r.kind = "catra", r.of = p, row[r].code # 0 PROVE r \in Same(c, rows)
      BY <2>2, <3>1 DEF Same, SameEvent, Batch, Rows, OriginTime
    <3> QED
      BY <2>1, <2>2, <3>1 DEF HasRow
  <2> QED
    BY <1>0, <1>1, <1>r, <2>1, <2>2, FreshGoto DEF Receive, tables
<1>2. ASSUME NEW c \in Call, Update(c) PROVE FreshInv(p)'
  <2>1. PICK label \in {"failed", "clean", "check", "match"} : Continue(c, label)
    BY <1>2 DEF Update, Stored
  <2> QED
    BY <1>2, <2>1, <1>q DEF Update, Continue, given, tables
<1>3. ASSUME NEW c \in Call, Create(c) PROVE FreshInv(p)'
  <2>1. PICK label \in {"clean", "check", "match"} : Continue(c, label)
    BY <1>3 DEF Create, Stored
  <2>2. stamp' = stamp
    BY <1>3 DEF Create, given
  <2>3. CASE c \in CallOf("catra", p)
    <3>1. \A d \in CallOf("catra", p) : p \notin met /\ at[d] = "create" => d = c
      BY <1>3, <2>3 DEF Create, Alone, Active, CallOf
    <3>2. /\ at'[c] = label
          /\ \A d \in Call : d # c => at'[d] = at[d]
      BY <2>1, GotoGoes DEF Continue
    <3> QED
      BY <1>0, <2>1, <2>3, <3>1, <3>2 DEF FreshInv, CallOf
  <2>4. CASE c \notin CallOf("catra", p)
    <3>1. \A r \in Call : r # c => row'[r] = row[r]
      BY <1>3 DEF Create, TypeOK
    <3>2. HasRow("catra", p)' => HasRow("catra", p)
      BY <2>4, <3>1 DEF HasRow, CallOf
    <3> QED
      BY <1>0, <2>1, <2>2, <3>2, FreshGoto DEF Continue
  <2> QED
    BY <2>3, <2>4
<1>4. ASSUME NEW c \in Call, Clean(c) PROVE FreshInv(p)'
  <2>1. PICK label \in {"create", "check", "match"} : Continue(c, label) /\ (label = "create" => c.kind = "dao")
    BY <1>4 DEF Clean, Stored
  <2>2. \A r \in Call : row'[r].code # 0 => row[r].code # 0
    BY <1>4 DEF Clean, NoRow
  <2>3. HasRow("catra", p)' => HasRow("catra", p)
    BY <2>2 DEF HasRow
  <2> QED
    BY <1>0, <1>4, <2>1, <2>3, FreshGoto DEF Clean, Continue, given
<1>5. ASSUME NEW c \in Call, Match(c) PROVE FreshInv(p)'
  <2>1. PICK label \in {"matchEntered", "done", "user"} : \E loc : Goto(c, label, loc)
    BY <1>5 DEF Match, MatchAt, Continue
  <2> QED
    BY <1>5, <2>1, <1>q DEF Match, given, tables
<1>6. ASSUME NEW c \in Call, MatchEntered(c) PROVE FreshInv(p)'
  <2>1. PICK label \in {"done", "user"} : \E loc : Goto(c, label, loc)
    BY <1>6 DEF MatchEntered, MatchAt, Continue
  <2> QED
    BY <1>6, <2>1, <1>q DEF MatchEntered, given, tables
<1>7. ASSUME NEW c \in Call, FindUser(c) PROVE FreshInv(p)'
  <2>1. PICK label \in {"done", "check"} : \E loc : Goto(c, label, loc)
    BY <1>7 DEF FindUser, TakeUser, Continue
  <2> QED
    BY <1>7, <2>1, <1>q DEF FindUser, given, tables
<1>8. ASSUME NEW c \in Call, Check(c) PROVE FreshInv(p)'
  <2>1. PICK label \in {"done", "lookUp", "register"} : Continue(c, label)
    BY <1>8 DEF Check
  <2> QED
    BY <1>8, <2>1, <1>q DEF Check, Continue, given, tables
<1>9. ASSUME NEW c \in Call, LookUp(c) PROVE FreshInv(p)'
  <2>1. PICK label \in {"lookUpEntered", "register"} : \E loc : Goto(c, label, loc)
    BY <1>9 DEF LookUp, TakeUser, Continue
  <2> QED
    BY <1>9, <2>1, <1>q DEF LookUp, given, tables
<1>10. ASSUME NEW c \in Call, LookUpEntered(c) PROVE FreshInv(p)'
  <2>1. PICK label \in {"done", "register"} : \E loc : Goto(c, label, loc)
    BY <1>10 DEF LookUpEntered, TakeUser, Continue
  <2> QED
    BY <1>10, <2>1, <1>q DEF LookUpEntered, given, tables
<1>11. ASSUME NEW c \in Call, Register(c) PROVE FreshInv(p)'
  BY <1>11, <1>q DEF Register, Continue, given
<1>12. ASSUME NEW c \in Call, Mark(c) PROVE FreshInv(p)'
  <2>1. \A r \in Call : row'[r].code = row[r].code
    BY <1>12 DEF Mark, TypeOK
  <2>2. HasRow("catra", p)' => HasRow("catra", p)
    BY <2>1 DEF HasRow
  <2> QED
    BY <1>0, <1>12, <2>2, FreshGoto DEF Mark, Continue, given
<1>13. ASSUME NEW c \in Call, Fail(c) PROVE FreshInv(p)'
  BY <1>13, <1>q DEF Fail, Continue, tables
<1>14. CASE Crash
  <2>1. \A d \in Call : (at'[d] = at[d] /\ at[d] \in {"new", "done", "failed"}) \/ at'[d] = "failed"
    BY <1>14 DEF Crash, TypeOK, Active
  <2>2. stamp' = stamp /\ row' = row /\ met' = met
    BY <1>14 DEF Crash, tables
  <2> QED
    BY <2>1, <2>2 DEF FreshInv, CallOf, Apart, Confused, HasRow
<1>15. CASE UNCHANGED vars
  BY <1>15 DEF vars, FreshInv, Apart, Confused, HasRow, CallOf
<1> QED
  BY <1>1, <1>2, <1>3, <1>4, <1>5, <1>6, <1>7, <1>8, <1>9, <1>10, <1>11, <1>12, <1>13, <1>14, <1>15
  DEF Next, Store, FindEvent, RegisterPassage

\* All rows of the catra_event are marked.
Settled(p) == HasRow("catra", p) /\ \A r \in CallOf("catra", p) : row[r].code # 0 => row[r].processed

NoneFailed(p) == \A c \in Registrations(p) : at[c] # "failed"

\* Once a call has registered p and marked its rows, no call goes there again.
OnceInv(p) ==
  Apart(p) /\ p \notin met =>
    /\ Settled(p) => Heading(p) = {}
    /\ NoneFailed(p) => /\ \A c \in Registrations(p) : at[c] = "done" => Settled(p)
                        /\ \A c, d \in Registrations(p) : c = d

LEMMA OpenIsUnsettled ==
  ASSUME NEW p \in Passage, NEW r \in Rows("catra"), r.of = p, ~row[r].processed
  PROVE  ~Settled(p)
BY DEF Rows, Settled, CallOf

LEMMA SettledStays ==
  ASSUME TypeOK, NEW p \in Passage, \A r \in CallOf("catra", p) : row'[r] = row[r]
  PROVE  Settled(p)' <=> Settled(p)
BY DEF Settled, HasRow, CallOf

\* A step that registers nothing and marks nothing.
LEMMA OnceGoto ==
  ASSUME TypeOK, Recorded, NEW p \in Passage, OnceInv(p), stamp' = stamp, p \notin met' => p \notin met,
         registered' = registered, Settled(p)' <=> Settled(p),
         NEW c \in Call, NEW label, NEW loc \in Local, Goto(c, label, loc),
         at[c] \notin {"done", "failed"}, at[c] = "mark" => label = "failed" \/ c \notin Registrations(p),
         c \in Heading(p)' => c \in Heading(p) \/ ~(Apart(p) /\ Settled(p))
  PROVE  OnceInv(p)'
<1> SUFFICES ASSUME Apart(p)', p \notin met' PROVE OnceInv(p)'
  BY DEF OnceInv
<1>0. Apart(p) /\ p \notin met
  BY DEF Apart, Confused
<1>1. /\ at'[c] = label
      /\ \A d \in Call : d # c => at'[d] = at[d] /\ local'[d] = local[d]
  BY GotoGoes
<1>2. Registrations(p)' = Registrations(p) /\ Registrations(p) \subseteq Call
  BY DEF Registrations
<1>3. Settled(p)' => Heading(p)' = {}
  BY <1>0, HeadingGoto DEF OnceInv
<1>4. NoneFailed(p)' => NoneFailed(p)
  BY <1>1, <1>2 DEF NoneFailed
<1>5. ASSUME NoneFailed(p)', NEW d \in Registrations(p), at'[d] = "done" PROVE Settled(p)
  <2>1. d # c
    BY <1>1, <1>2, <1>5 DEF Recorded, Registrations
  <2> QED
    BY <1>0, <1>1, <1>2, <1>4, <1>5, <2>1 DEF OnceInv
<1> QED
  BY <1>0, <1>2, <1>3, <1>4, <1>5 DEF OnceInv

LEMMA OnceNext ==
  ASSUME TypeOK, \A c \in Call : Knows(c), Recorded, [Next]_vars,
         NEW p \in Passage, StoredInv(p), KeptInv(p), Alone(p), OwnInv(p), FreshInv(p), OnceInv(p)
  PROVE  OnceInv(p)'
<1> USE CallAssumption
<1>0. p \notin met' => p \notin met
  BY AloneNext
\* The steps between storing the notification and registering the passage.
<1>a. ASSUME NEW c \in Call, NEW label, NEW loc \in Local, Goto(c, label, loc), UNCHANGED <<given, tables>>,
             at[c] \notin {"mark", "done", "failed"},
             c \in Heading(p)' => c \in Heading(p) \/ ~(Apart(p) /\ Settled(p))
      PROVE  OnceInv(p)'
  BY <1>0, <1>a, OnceGoto, SettledStays DEF given, tables
<1>1. ASSUME NEW c \in Call, Receive(c) PROVE OnceInv(p)'
  <2> DEFINE loc == [local[c] EXCEPT !.rows = Batch(c.kind, OriginTime(c))]
  <2>1. loc \in Local
    BY LocalType DEF Local, Batch, Rows
  <2>2. PICK label \in Storing : Goto(c, label, loc)
    BY <1>1 DEF Receive, Storing
  <2>3. c \notin Heading(p)'
    BY <2>1, <2>2, HeadingGoto DEF Storing
  <2>4. UNCHANGED <<stamp, tables>> /\ at[c] = "new"
    BY <1>1 DEF Receive
  <2> HIDE DEF loc
  <2> QED
    BY <1>0, <2>1, <2>2, <2>3, <2>4, OnceGoto, SettledStays DEF tables
\* Storing leads a catra_event to its check, and a dao to its search.
<1>s. ASSUME NEW c \in Call, NEW label \in {"failed", "create", "clean", Stored(c)}, Continue(c, label)
      PROVE  c \notin Heading(p)' /\ local[c] \in Local
  BY <1>s, HeadingGoto, LocalType DEF Continue, Stored
<1>2. ASSUME NEW c \in Call, Update(c) PROVE OnceInv(p)'
  <2>1. PICK label \in {"failed", "clean", Stored(c)} : Continue(c, label)
    BY <1>2 DEF Update
  <2> QED
    BY <1>2, <2>1, <1>s, <1>a DEF Update, Continue
<1>3. ASSUME NEW c \in Call, Create(c) PROVE OnceInv(p)'
  <2>1. PICK label \in {"clean", Stored(c)} : Continue(c, label)
    BY <1>3 DEF Create
  <2>2. c \notin Heading(p)' /\ local[c] \in Local
    BY <2>1, <1>s
  <2>3. stamp' = stamp /\ registered' = registered /\ at[c] = "create"
    BY <1>3 DEF Create, given
  <2>4. row'[c].code # 0 /\ ~row'[c].processed /\ \A r \in Call : r # c => row'[r] = row[r]
    BY <1>3 DEF Create, TypeOK
  <2>5. CASE c \in CallOf("catra", p) /\ Apart(p) /\ p \notin met
    <3>1. ~Settled(p)
      BY <2>3, <2>5 DEF FreshInv, Settled
    <3>2. ~Settled(p)'
      BY <2>4, <2>5 DEF Settled, CallOf
    <3> QED
      BY <1>0, <2>1, <2>2, <2>3, <3>1, <3>2, OnceGoto DEF Continue
  <2>6. CASE c \notin CallOf("catra", p)
    BY <1>0, <2>1, <2>2, <2>3, <2>4, <2>6, OnceGoto, SettledStays DEF Continue, CallOf
  <2>7. CASE ~(Apart(p) /\ p \notin met)
    BY <1>0, <2>3, <2>7 DEF OnceInv, Apart, Confused
  <2> QED
    BY <2>5, <2>6, <2>7
<1>4. ASSUME NEW c \in Call, Clean(c) PROVE OnceInv(p)'
  <2>1. PICK label \in {"create", Stored(c)} : Continue(c, label)
    BY <1>4 DEF Clean
  <2>2. c \notin Heading(p)' /\ local[c] \in Local
    BY <2>1, <1>s
  <2>3. stamp' = stamp /\ registered' = registered /\ at[c] = "clean"
    BY <1>4 DEF Clean, given
  <2>4. CASE Apart(p)
    <3>1. c \notin CallOf("catra", p)
      BY <2>3, <2>4 DEF KeptInv
    <3>2. ASSUME NEW r \in CallOf("catra", p) PROVE row'[r] = row[r]
      <4>1. r \notin local[c].rows
        BY <2>3, <2>4, <3>1, <3>2, ApartTimes DEF StoredInv, Storing, OriginTime, CallOf
      <4> QED
        BY <1>4, <3>2, <4>1 DEF Clean, Orphans, CallOf
    <3> QED
      BY <1>0, <2>1, <2>2, <2>3, <3>2, OnceGoto, SettledStays DEF Continue
  <2>5. CASE ~Apart(p)
    BY <2>3, <2>5 DEF OnceInv, Apart, Confused
  <2> QED
    BY <2>4, <2>5
<1>m. ASSUME NEW c \in Call, at[c] \in {"match", "matchEntered"}, NEW time, NEW otherwise \in {"matchEntered", "done"},
             MatchAt(c, time, otherwise), UNCHANGED <<given, tables>>
      PROVE  OnceInv(p)'
  <2>1. CASE Continue(c, otherwise)
    <3>1. local[c] \in Local /\ c \notin Heading(p)'
      BY <2>1, HeadingGoto, LocalType DEF Continue
    <3> QED
      BY <1>m, <2>1, <3>1, <1>a DEF Continue
  <2>2. CASE \E r \in Rows("catra") : ~row[r].processed /\ Goto(c, "user", [local[c] EXCEPT !.event = r])
    <3>1. PICK r \in Rows("catra") : ~row[r].processed /\ Goto(c, "user", [local[c] EXCEPT !.event = r])
      BY <2>2
    <3> DEFINE loc == [local[c] EXCEPT !.event = r]
    <3>2. loc \in Local /\ loc.event = r
      BY EventSet, LocalType DEF Local, Rows
    <3>3. Goto(c, "user", loc)
      BY <3>1
    <3> HIDE DEF loc
    <3>4. c \in Heading(p)' => loc.event.of = p
      BY <3>2, <3>3, HeadingGoto
    <3>5. c \in Heading(p)' => ~Settled(p)
      BY <3>1, <3>2, <3>4, OpenIsUnsettled
    <3> QED
      BY <1>m, <3>2, <3>3, <3>5, <1>a
  <2> QED
    BY <1>m, <2>1, <2>2 DEF MatchAt, Batch
<1>5. ASSUME NEW c \in Call, Match(c) PROVE OnceInv(p)'
  <2>1. PICK otherwise \in {"matchEntered", "done"} : MatchAt(c, OriginTime(c), otherwise)
    BY <1>5 DEF Match
  <2> QED
    BY <1>5, <2>1, <1>m DEF Match
<1>6. ASSUME NEW c \in Call, MatchEntered(c) PROVE OnceInv(p)'
  BY <1>6, <1>m DEF MatchEntered
\* Whoever has found the row of p goes on to register it.
<1>h. ASSUME NEW c \in Call, NEW label \in {"lookUpEntered", "register", "done", "check"}, NEW loc \in Local,
             Goto(c, label, loc), loc.event = local[c].event, UNCHANGED <<given, tables>>,
             \/ c.kind = "catra" /\ label # "check" /\ at[c] \in {"lookUp", "lookUpEntered"}
             \/ c.kind = "dao" /\ label # "lookUpEntered" /\ at[c] \in {"user", "check"}
      PROVE  OnceInv(p)'
  <2>1. c \in Heading(p)' => c \in Heading(p)
    BY <1>h, HeadingGoto DEF Heading, CallOf
  <2> QED
    BY <1>h, <2>1, <1>a
<1>t. ASSUME NEW c \in Call, NEW rows \in SUBSET Call, NEW found \in {"check", "register"}, TakeUser(c, rows, found),
             UNCHANGED <<given, tables>>,
             \/ c.kind = "catra" /\ found = "register" /\ at[c] \in {"lookUp", "lookUpEntered"}
             \/ c.kind = "dao" /\ at[c] = "user"
      PROVE  OnceInv(p)'
  <2>1. PICK r \in rows : Goto(c, found, [local[c] EXCEPT !.user = r.of])
    BY <1>t DEF TakeUser
  <2> DEFINE loc == [local[c] EXCEPT !.user = r.of]
  <2>2. loc \in Local /\ loc.event = local[c].event
    BY UserSet, LocalType DEF Local
  <2> HIDE DEF loc
  <2> QED
    BY <1>t, <2>1, <2>2, <1>h DEF loc
<1>7. ASSUME NEW c \in Call, FindUser(c) PROVE OnceInv(p)'
  <2>1. PICK rows \in SUBSET Call : Continue(c, "done") \/ TakeUser(c, rows, "check")
    BY <1>7 DEF FindUser, Batch, Rows
  <2>2. c.kind = "dao" /\ at[c] = "user" /\ UNCHANGED <<given, tables>>
    BY <1>7 DEF FindUser, Knows, KnowsAt
  <2> QED
    BY <2>1, <2>2, <1>h, <1>t, LocalType DEF Continue
<1>8. ASSUME NEW c \in Call, Check(c) PROVE OnceInv(p)'
  <2>1. at[c] = "check" /\ UNCHANGED <<given, tables>>
    BY <1>8 DEF Check
  <2>2. PICK label \in {"done", "lookUp", "register"} :
          /\ Continue(c, label)
          /\ label # "done" => EventBatch(c) = {} \/ \E r \in EventBatch(c) : ~row[r].processed
          /\ label = "lookUp" => c.kind = "catra"
          /\ label = "register" => c.kind = "dao"
    BY <1>8 DEF Check
  <2>3. CASE c.kind = "dao"
    BY <2>1, <2>2, <2>3, <1>h, LocalType DEF Continue
  <2>4. CASE c.kind = "catra" /\ label = "lookUp"
    <3>1. ASSUME c \in CallOf("catra", p), Apart(p) PROVE ~Settled(p)
      <4>1. CASE EventBatch(c) = {}
        <5>1. ASSUME NEW r \in CallOf("catra", p) PROVE row[r].code = 0
          BY <3>1, <4>1, <5>1 DEF EventBatch, Batch, Rows, OriginTime, Event, CallOf
        <5> QED
          BY <5>1 DEF Settled, HasRow, CallOf
      <4>2. CASE \E r \in EventBatch(c) : ~row[r].processed
        <5>1. PICK r \in EventBatch(c) : ~row[r].processed
          BY <4>2
        <5>2. r \in Rows("catra") /\ r.of = p
          BY <3>1, <5>1, ApartTimes DEF EventBatch, Batch, Rows, OriginTime, Event, CallOf
        <5> QED
          BY <5>1, <5>2, OpenIsUnsettled
      <4> QED
        BY <2>2, <2>4, <4>1, <4>2
    <3>2. local[c] \in Local /\ (c \in Heading(p)' => c \in CallOf("catra", p))
      BY <2>2, <2>4, HeadingGoto, LocalType DEF Continue
    <3> QED
      BY <2>1, <2>2, <3>1, <3>2, <1>a DEF Continue
  <2>5. CASE c.kind = "catra" /\ label = "done"
    <3>1. local[c] \in Local /\ c \notin Heading(p)'
      BY <2>2, <2>5, HeadingGoto, LocalType DEF Continue
    <3> QED
      BY <2>1, <2>2, <3>1, <1>a DEF Continue
  <2> QED
    BY <2>2, <2>3, <2>4, <2>5
<1>9. ASSUME NEW c \in Call, LookUp(c) PROVE OnceInv(p)'
  <2>1. PICK rows \in SUBSET Call : Continue(c, "lookUpEntered") \/ TakeUser(c, rows, "register")
    BY <1>9 DEF LookUp, Batch, Rows
  <2>2. c.kind = "catra" /\ at[c] = "lookUp" /\ UNCHANGED <<given, tables>>
    BY <1>9 DEF LookUp, Knows, KnowsAt
  <2> QED
    BY <2>1, <2>2, <1>h, <1>t, LocalType DEF Continue
<1>10. ASSUME NEW c \in Call, LookUpEntered(c) PROVE OnceInv(p)'
  <2>1. PICK rows \in SUBSET Call :
          \/ TakeUser(c, rows, "register")
          \/ Goto(c, "register", [local[c] EXCEPT !.user = c.of])
          \/ Continue(c, "done")
    BY <1>10 DEF LookUpEntered, Rows
  <2>2. c.kind = "catra" /\ at[c] = "lookUpEntered" /\ UNCHANGED <<given, tables>>
    BY <1>10 DEF LookUpEntered, Knows, KnowsAt
  <2>3. [local[c] EXCEPT !.user = c.of] \in Local /\ [local[c] EXCEPT !.user = c.of].event = local[c].event
    BY UserSet, LocalType DEF Local
  <2> QED
    BY <2>1, <2>2, <2>3, <1>h, <1>t, LocalType DEF Continue
<1>11. ASSUME NEW c \in Call, Register(c) PROVE OnceInv(p)'
  <2> SUFFICES ASSUME Apart(p)', p \notin met' PROVE OnceInv(p)'
    BY DEF OnceInv
  <2>0. /\ Apart(p) /\ p \notin met
        /\ at[c] = "register" /\ c \in Active /\ registered[c] = None
        /\ stamp' = stamp /\ row' = row
    BY <1>0, <1>11 DEF Register, given, Apart, Confused, Recorded, Active
  <2>1. at'[c] = "mark" /\ \A d \in Call : d # c => at'[d] = at[d]
    BY <1>11, GotoGoes DEF Register, Continue
  <2>2. /\ registered'[c] # None /\ registered'[c].turned = Event(c).of
        /\ \A d \in Call : d # c => registered'[d] = registered[d]
    <3>1. Event(c).of \in Passage /\ local[c].user \in Passage
      BY <1>11 DEF Register, Knows, KnowsAt, Event
    <3>2. PICK x \in Bearers(local[c].user) :
            registered' = [registered EXCEPT ![c] = [turned |-> Event(c).of, who |-> x]]
      BY <1>11 DEF Register
    <3>3. [turned |-> Event(c).of, who |-> x] # None
      BY <3>1, <3>2, NoneAssumption DEF Registration, Bearers
    <3> QED
      BY <3>2, <3>3 DEF TypeOK
  <2>3. Heading(p)' \subseteq Heading(p)
    <3>1. c \in Heading(p)' => c \in Heading(p)
      BY <1>11, LocalType, HeadingGoto DEF Register, Continue, Heading, CallOf
    <3> QED
      BY <1>11, <3>1, LocalType, HeadingGoto DEF Register, Continue
  <2>4. Settled(p)' <=> Settled(p)
    BY <2>0, SettledStays
  <2>5. CASE Event(c).of # p
    <3>1. Registrations(p)' = Registrations(p) /\ c \notin Registrations(p)
      BY <2>0, <2>2, <2>5 DEF Registrations
    <3>2. NoneFailed(p)' => NoneFailed(p)
      BY <2>1, <3>1 DEF NoneFailed, Registrations
    <3> QED
      BY <2>0, <2>1, <2>3, <2>4, <3>1, <3>2 DEF OnceInv, Registrations
  <2>6. CASE Event(c).of = p
    <3>1. c \in Heading(p) /\ c.of = p
      BY <2>0, <2>6, HeadingEvent, HeadingOwn
    <3>2. ~Settled(p)
      BY <2>0, <3>1 DEF OnceInv
    <3>3. Registrations(p)' = Registrations(p) \cup {c}
      BY <2>0, <2>2, <2>6 DEF Registrations
    <3>4. ASSUME NoneFailed(p)', NEW d \in Registrations(p) PROVE FALSE
      <4>1. d \in Call /\ d # c /\ d.of = p /\ at[d] \in {"mark", "done", "failed"}
        BY <2>0, <3>4 DEF Registrations, Recorded, OwnInv
      <4>2. \A e \in Registrations(p) : at[e] # "failed"
        BY <2>0, <2>1, <3>3, <3>4 DEF NoneFailed, Registrations
      <4>3. at[d] = "mark"
        BY <2>0, <3>2, <3>4, <4>1, <4>2 DEF OnceInv, NoneFailed
      <4> QED
        BY <2>0, <3>1, <4>1, <4>3 DEF Alone, Active
    <3>5. NoneFailed(p)' => Registrations(p)' = {c}
      BY <3>3, <3>4
    <3> QED
      BY <2>1, <2>4, <3>2, <3>5 DEF OnceInv
  <2> QED
    BY <2>5, <2>6
<1>12. ASSUME NEW c \in Call, Mark(c) PROVE OnceInv(p)'
  <2> SUFFICES ASSUME Apart(p)', p \notin met' PROVE OnceInv(p)'
    BY DEF OnceInv
  <2>0. /\ Apart(p) /\ p \notin met
        /\ at[c] = "mark" /\ c \in Active
        /\ stamp' = stamp /\ registered' = registered
    BY <1>0, <1>12 DEF Mark, given, Apart, Confused, Active
  <2>1. at'[c] = "done" /\ \A d \in Call : d # c => at'[d] = at[d]
    BY <1>12, GotoGoes DEF Mark, Continue
  <2>2. Event(c) \in Call /\ Event(c).kind = "catra" /\ Event(c).of \in Passage
    BY <2>0 DEF Event, Knows, KnowsAt
  <2>3. c \notin Heading(p)' /\ Heading(p)' \subseteq Heading(p)
    BY <1>12, LocalType, HeadingGoto DEF Mark, Continue
  <2>4. \A r \in Call : row'[r] = IF r \in EventBatch(c) THEN [row[r] EXCEPT !.processed = TRUE] ELSE row[r]
    BY <1>12 DEF Mark
  <2>5. CASE Event(c).of # p
    <3>1. c \notin Registrations(p)
      BY <2>0, <2>5 DEF Recorded, Registrations
    <3>2. \A r \in CallOf("catra", p) : r \notin EventBatch(c)
      BY <2>0, <2>2, <2>5, ApartTimes DEF EventBatch, Batch, Rows, OriginTime, CallOf
    <3>3. Settled(p)' <=> Settled(p)
      BY <2>4, <3>2, SettledStays DEF CallOf
    <3>4. local[c] \in Local
      BY LocalType
    <3> QED
      BY <1>0, <1>12, <2>0, <2>3, <3>1, <3>3, <3>4, OnceGoto DEF Mark, Continue
  <2>6. CASE Event(c).of = p
    <3>1. c \in Heading(p) /\ c.of = p
      BY <2>0, <2>6, HeadingEvent, HeadingOwn
    <3>2. Heading(p)' = {}
      <4>1. ASSUME NEW d \in Heading(p) PROVE d = c
        <5>1. d \in Call
          BY DEF Heading
        <5>2. d \in Active /\ d.of = p
          BY <2>0, <5>1, HeadingOwn
        <5> QED
          BY <2>0, <3>1, <5>2 DEF Alone
      <4> QED
        BY <2>3, <4>1
    <3>3. \A r \in CallOf("catra", p) : row[r].code # 0 => r \in EventBatch(c)
      BY <2>2, <2>6 DEF EventBatch, Batch, Rows, OriginTime, CallOf
    <3>4. \A r \in Call : row'[r].code = row[r].code /\ (r \in EventBatch(c) => row'[r].processed)
      <4>1. ASSUME NEW r \in Call PROVE row'[r].code = row[r].code /\ (r \in EventBatch(c) => row'[r].processed)
        <5>1. row[r] \in [code : Nat, processed : BOOLEAN]
          BY DEF TypeOK
        <5>2. CASE r \in EventBatch(c)
          BY <2>4, <5>1, <5>2
        <5>3. CASE r \notin EventBatch(c)
          BY <2>4, <5>3
        <5> QED
          BY <5>2, <5>3
      <4> QED
        BY <4>1
    <3>5. HasRow("catra", p)
      BY <2>0, <3>1 DEF KeptInv
    <3>6. HasRow("catra", p)'
      BY <3>4, <3>5 DEF HasRow
    <3>7. Settled(p)'
      BY <3>3, <3>4, <3>6 DEF Settled, CallOf
    <3>8. Registrations(p)' = Registrations(p)
      BY <2>0 DEF Registrations
    <3>9. NoneFailed(p)' => NoneFailed(p)
      BY <2>0, <2>1, <3>8 DEF NoneFailed, Registrations
    <3> QED
      BY <2>0, <3>2, <3>7, <3>8, <3>9 DEF OnceInv
  <2> QED
    BY <2>5, <2>6
<1>13. ASSUME NEW c \in Call, Fail(c) PROVE OnceInv(p)'
  <2>1. local[c] \in Local /\ c \notin Heading(p)'
    BY <1>13, HeadingGoto, LocalType DEF Fail, Continue
  <2> QED
    BY <1>0, <1>13, <2>1, OnceGoto, SettledStays DEF Fail, Continue, Active, tables
<1>14. CASE Crash
  <2>1. \A d \in Call : (at'[d] = at[d] /\ at[d] \in {"new", "done", "failed"}) \/ at'[d] = "failed"
    BY <1>14 DEF Crash, TypeOK, Active
  <2>2. stamp' = stamp /\ row' = row /\ met' = met /\ registered' = registered
    BY <1>14 DEF Crash, tables
  <2>3. Heading(p)' = {}
    BY <2>1 DEF Heading, CallOf
  <2>4. Registrations(p)' = Registrations(p) /\ (Settled(p)' <=> Settled(p))
    BY <2>2, SettledStays DEF Registrations
  <2>5. NoneFailed(p)' => NoneFailed(p) /\ \A d \in Registrations(p) : at'[d] = at[d]
    BY <2>1, <2>4 DEF NoneFailed, Registrations
  <2> QED
    BY <2>2, <2>3, <2>4, <2>5 DEF OnceInv, Apart, Confused
<1>15. CASE UNCHANGED vars
  BY <1>15 DEF vars, OnceInv, Apart, Confused, Settled, HasRow, CallOf, Heading, NoneFailed, Registrations
<1> QED
  BY <1>1, <1>2, <1>3, <1>4, <1>5, <1>6, <1>7, <1>8, <1>9, <1>10, <1>11, <1>12, <1>13, <1>14, <1>15
  DEF Next, Store, FindEvent, RegisterPassage

OnceAll == RecordInv /\ \A p \in Passage :
                          StoredInv(p) /\ KeptInv(p) /\ Alone(p) /\ OwnInv(p) /\ FreshInv(p) /\ OnceInv(p)

\* However often the device repeats itself, a passage whose calls do not
\* overlap and do not end between the write and the mark is registered once.
THEOREM RegisteredOnlyOnce == Spec => []RegisteredOnce
<1>1. Init => OnceAll
  <2> SUFFICES ASSUME Init PROVE OnceAll
    OBVIOUS
  <2>1. RecordInv
    BY PassageTypeInit DEF Init, RecordInv, TypeInv, Knows, KnowsAt, Recorded, NoRow
  <2>2. /\ \A c \in Call : at[c] = "new" /\ registered[c] = None
        /\ Active = {} /\ \A p \in Passage : Registrations(p) = {} /\ Heading(p) = {}
    BY DEF Init, Active, Registrations, Heading, CallOf
  <2>3. \A p \in Passage : StoredInv(p) /\ KeptInv(p) /\ Alone(p) /\ OwnInv(p) /\ FreshInv(p) /\ OnceInv(p)
    BY <2>2 DEF StoredInv, KeptInv, Alone, OwnInv, FreshInv, OnceInv, Storing, CallOf
  <2> QED
    BY <2>1, <2>3 DEF OnceAll
<1>2. OnceAll /\ [Next]_vars => OnceAll'
  <2> SUFFICES ASSUME OnceAll, [Next]_vars PROVE OnceAll'
    OBVIOUS
  <2>1. TypeOK /\ (\A c \in Call : Knows(c)) /\ Recorded
    BY DEF OnceAll, RecordInv, TypeInv
  <2>2. RecordInv'
    BY <2>1, PassageTypeNext, KnowledgeNext, RecordedNext DEF RecordInv, TypeInv
  <2>3. ASSUME NEW p \in Passage
        PROVE  StoredInv(p)' /\ KeptInv(p)' /\ Alone(p)' /\ OwnInv(p)' /\ FreshInv(p)' /\ OnceInv(p)'
    <3>1. StoredInv(p) /\ KeptInv(p) /\ Alone(p) /\ OwnInv(p) /\ FreshInv(p) /\ OnceInv(p)
      BY DEF OnceAll
    <3> QED
      BY <2>1, <3>1, StoredNext, KeptNext, AloneNext, OwnNext, FreshNext, OnceNext
  <2> QED
    BY <2>2, <2>3 DEF OnceAll
<1>3. OnceAll => RegisteredOnce
  <2> SUFFICES ASSUME OnceAll, NEW p \in Passage \ met, Apart(p), NoneFailed(p)
               PROVE  Cardinality(Registrations(p)) <= 1
    BY DEF RegisteredOnce, Apart, NoneFailed
  <2>1. \A c, d \in Registrations(p) : c = d
    BY DEF OnceAll, OnceInv
  <2>2. CASE Registrations(p) = {}
    BY <2>2, FS_EmptySet
  <2>3. CASE \E c : Registrations(p) = {c}
    BY <2>3, FS_Singleton
  <2> QED
    BY <2>1, <2>2, <2>3
<1> QED
  BY <1>1, <1>2, <1>3, PTL DEF Spec
=============================================================================
