----------------------------- MODULE RedisList -----------------------------
(***************************************************************************)
(* The Redis list commands that the Lua scripts of the serial lock are     *)
(* built from (LPOS, LPUSH, RPUSH, LREM, LMOVE).  Redis is external to the *)
(* repository: each operator is the effect of the command as the scripts   *)
(* in worker/src/serial-wait-lock.ts use it.  The head of a list is its    *)
(* first element.                                                          *)
(***************************************************************************)
EXTENDS Integers, Sequences, FiniteSets

\* LPOS list e ~= false: e occurs in the list.
Members(list) == {list[i] : i \in DOMAIN list}

LPush(list, e) == <<e>> \o list
RPush(list, e) == Append(list, e)

\* The positions of a list that LREM leaves, and the number of them that
\* come before position i.
Kept(list, e) == {i \in DOMAIN list : list[i] # e}
KeptBefore(list, e, i) == Cardinality({k \in Kept(list, e) : k < i})

\* LREM list 0 e: the list without any occurrence of e, order preserved.
LRem(list, e) ==
  [j \in 1..Cardinality(Kept(list, e)) |->
     list[CHOOSE i \in Kept(list, e) : KeptBefore(list, e, i) = j - 1]]

\* (mutant) Pushes whether the list has it or not.
MutPushAnyway(list, e) == LPush(list, e)

\* if LPOS list e == false then LPUSH list e.
LPushIfAbsent(list, e) == IF e \in Members(list) THEN list ELSE LPush(list, e)

\* No element occurs twice.
Distinct(list) == \A i, j \in DOMAIN list : list[i] = list[j] => i = j

=============================================================================
