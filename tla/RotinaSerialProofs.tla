------------------------- MODULE RotinaSerialProofs -------------------------
(***************************************************************************)
(* Theorems about serial executions, for every number of executions,       *)
(* workers, attempts and faults.                                           *)
(*                                                                         *)
(* First the Lua scripts of worker/src/serial-wait-lock.ts on their own.   *)
(* LockInv is inductive as it stands: the scripts are strong enough to     *)
(* keep it whoever calls them.  The scripts that end in ClaimNext prepare  *)
(* its arguments so that they satisfy Ready; lemma ClaimKeeps does the     *)
(* rest for all of them.                                                   *)
(*                                                                         *)
(* Then the life of the executions.  TypeOK is inductive.  One execution   *)
(* at a time follows from SlotInv: a slot has at most one owner among the  *)
(* tasks, and the slot an owner believes in is alive in Redis.  It needs   *)
(* that leases do not lapse under a living owner, the assumption that a    *)
(* stall breaks.  That a running lock has a task, and that no execution is *)
(* forgotten, follow from Remembered: each undecided execution has a task  *)
(* that will decide it or a place from which one is made.                  *)
(*                                                                         *)
(* Then the consumer keeps the discipline that the refinement of           *)
(* SerialFifo asks of the callers of the scripts, as long as no call is    *)
(* lost and nothing breaks: CalmInv says which tasks of one execution may  *)
(* be alive together.  At the end, what the lock keeps under every fault.  *)
(***************************************************************************)
EXTENDS RotinaSerial, FiniteSetTheorems, SequenceTheorems, TLAPS

(* The lists ----------------------------------------------------------------*)
(* What the commands of RedisList return, for every list.  LREM is the      *)
(* interesting one: its definition picks, for each position of the result,  *)
(* the kept position of that rank, so the lemmas show that the rank is a    *)
(* bijection of the kept positions with the positions of the result -       *)
(* injective because a later kept position has a larger rank, hence onto    *)
(* because both sets have the same size.                                    *)

\* The kept positions are finitely many.
LEMMA KeptFinite ==
  ASSUME NEW S, NEW s \in Seq(S), NEW e
  PROVE  /\ IsFiniteSet(Kept(s, e))
         /\ Kept(s, e) \subseteq 1..Len(s)
         /\ Cardinality(Kept(s, e)) \in Nat
<1>1. DOMAIN s = 1..Len(s) /\ Len(s) \in Nat
  BY LenProperties
<1>2. IsFiniteSet(1..Len(s))
  BY <1>1, FS_Interval
<1>3. Kept(s, e) \subseteq 1..Len(s)
  BY <1>1 DEF Kept
<1>4. IsFiniteSet(Kept(s, e))
  BY <1>2, <1>3, FS_Subset
<1> QED
  BY <1>3, <1>4, FS_CardinalityType

\* A kept position has fewer kept positions before it than there are in all.
LEMMA RankType ==
  ASSUME NEW S, NEW s \in Seq(S), NEW e, NEW i \in Kept(s, e)
  PROVE  KeptBefore(s, e, i) + 1 \in 1..Cardinality(Kept(s, e))
<1> DEFINE K == Kept(s, e)
           B == {k \in K : k < i}
<1>1. IsFiniteSet(K) /\ K \subseteq 1..Len(s) /\ Cardinality(K) \in Nat
  BY KeptFinite
<1>2. i \in Int
  BY <1>1
<1>3. B \subseteq K \ {i}
  BY <1>2
<1>4. IsFiniteSet(K \ {i}) /\ Cardinality(K \ {i}) = Cardinality(K) - 1
  BY <1>1, FS_RemoveElement
<1>5. IsFiniteSet(B) /\ Cardinality(B) <= Cardinality(K \ {i})
  BY <1>3, <1>4, FS_Subset
<1>6. Cardinality(B) \in Nat
  BY <1>5, FS_CardinalityType
<1>7. Cardinality(B) + 1 \in 1..Cardinality(K)
  BY <1>1, <1>4, <1>5, <1>6
<1> QED
  BY <1>7 DEF KeptBefore

\* Of two kept positions the later one has the larger rank.
LEMMA RankIncreases ==
  ASSUME NEW S, NEW s \in Seq(S), NEW e,
         NEW i \in Kept(s, e), NEW j \in Kept(s, e), i < j
  PROVE  KeptBefore(s, e, i) < KeptBefore(s, e, j)
<1> DEFINE K == Kept(s, e)
           B(n) == {k \in K : k < n}
<1>1. IsFiniteSet(K) /\ K \subseteq 1..Len(s) /\ Len(s) \in Nat
  BY KeptFinite, LenProperties
<1>2. IsFiniteSet(B(i)) /\ IsFiniteSet(B(j))
  BY <1>1, FS_Subset, B(i) \in SUBSET K, B(j) \in SUBSET K
<1>3. i \notin B(i) /\ B(i) \cup {i} \subseteq B(j)
  BY <1>1
<1>4. Cardinality(B(i) \cup {i}) = Cardinality(B(i)) + 1
  BY <1>2, <1>3, FS_AddElement
<1>5. Cardinality(B(i) \cup {i}) <= Cardinality(B(j))
  BY <1>2, <1>3, FS_Subset
<1>6. Cardinality(B(i)) \in Nat /\ Cardinality(B(j)) \in Nat
  BY <1>2, FS_CardinalityType
<1> HIDE DEF B
<1>7. Cardinality(B(i)) < Cardinality(B(j))
  BY <1>4, <1>5, <1>6
<1> QED
  BY <1>7 DEF KeptBefore, B

\* Every position of the result is the rank of exactly one kept position.
LEMMA RankIsBijection ==
  ASSUME NEW S, NEW s \in Seq(S), NEW e
  PROVE  /\ \A j \in 1..Cardinality(Kept(s, e)) :
              \E i \in Kept(s, e) : KeptBefore(s, e, i) = j - 1
         /\ \A i, k \in Kept(s, e) :
              KeptBefore(s, e, i) = KeptBefore(s, e, k) => i = k
<1> DEFINE K == Kept(s, e)
           P == 1..Cardinality(K)
           rank == [i \in K |-> KeptBefore(s, e, i) + 1]
<1>1. IsFiniteSet(K) /\ K \subseteq 1..Len(s) /\ Cardinality(K) \in Nat
      /\ Len(s) \in Nat
  BY KeptFinite, LenProperties
<1>2. \A i \in K : KeptBefore(s, e, i) + 1 \in P
  BY RankType
<1>3. \A i \in K : KeptBefore(s, e, i) \in Nat
  <2> TAKE i \in K
  <2>1. IsFiniteSet({k \in K : k < i})
    BY <1>1, FS_Subset, {k \in K : k < i} \in SUBSET K
  <2> QED
    BY <2>1, FS_CardinalityType DEF KeptBefore
<1>4. ASSUME NEW i \in K, NEW k \in K,
             KeptBefore(s, e, i) = KeptBefore(s, e, k)
      PROVE  i = k
  <2>1. i \in Int /\ k \in Int
    BY <1>1
  <2>2. ~ (i < k)
    BY <1>3, <1>4, RankIncreases
  <2>3. ~ (k < i)
    BY <1>3, <1>4, RankIncreases
  <2> QED
    BY <2>1, <2>2, <2>3
<1>5. rank \in [K -> P]
  BY <1>2
<1>6. \A i, k \in K : rank[i] = rank[k] => i = k
  <2> TAKE i, k \in K
  <2> HAVE rank[i] = rank[k]
  <2>1. KeptBefore(s, e, i) = KeptBefore(s, e, k)
    BY <1>3
  <2> QED
    BY <1>4, <2>1
<1>7. rank \in Injection(K, P)
  BY <1>5, <1>6 DEF Injection, IsInjective
<1>8. IsFiniteSet(P) /\ Cardinality(P) = Cardinality(K)
  <2> DEFINE c == Cardinality(K)
  <2>1. c \in Nat
    BY <1>1
  <2> HIDE DEF c
  <2>2. IsFiniteSet(1..c) /\ Cardinality(1..c) = IF 1 > c THEN 0 ELSE c - 1 + 1
    BY <2>1, FS_Interval
  <2>3. IsFiniteSet(1..c) /\ Cardinality(1..c) = c
    BY <2>1, <2>2
  <2> QED
    BY <2>3 DEF c
<1>9. rank \in Surjection(K, P)
  BY <1>7, <1>8, FS_Injection
<1>10. \A j \in P : \E i \in K : rank[i] = j
  BY <1>9 DEF Surjection
<1>11. ASSUME NEW j \in P PROVE \E i \in K : KeptBefore(s, e, i) = j - 1
  <2>1. PICK i \in K : rank[i] = j
    BY <1>10
  <2>2. KeptBefore(s, e, i) + 1 = j
    BY <2>1
  <2> QED
    BY <1>3, <2>2
<1> QED
  BY <1>4, <1>11

\* LREM: the members of the list but e, each as often as before.
LEMMA LRemProperties ==
  ASSUME NEW S, NEW s \in Seq(S), NEW e
  PROVE  /\ LRem(s, e) \in Seq(S)
         /\ Members(LRem(s, e)) = Members(s) \ {e}
         /\ Distinct(s) => Distinct(LRem(s, e))
<1> DEFINE K == Kept(s, e)
           c == Cardinality(K)
           r == LRem(s, e)
           at(j) == CHOOSE i \in K : KeptBefore(s, e, i) = j - 1
<1>1. c \in Nat /\ K \subseteq 1..Len(s) /\ DOMAIN s = 1..Len(s) /\ s \in [1..Len(s) -> S]
  BY KeptFinite, LenProperties
<1>2. \A j \in 1..c : at(j) \in K /\ KeptBefore(s, e, at(j)) = j - 1
  BY RankIsBijection
<1>3. r = [j \in 1..c |-> s[at(j)]]
  BY DEF LRem
<1> HIDE DEF r, at
<1>4. \A j \in 1..c : r[j] = s[at(j)]
  BY <1>3
<1>5. \A j \in 1..c : r[j] \in S /\ r[j] # e /\ r[j] \in Members(s)
  BY <1>1, <1>2, <1>4 DEF Kept, Members
<1>6. DOMAIN r = 1..c
  BY <1>3
<1>7. r \in [1..c -> S]
  BY <1>1, <1>2, <1>3
<1>8. r \in Seq(S)
  <2> HIDE DEF c
  <2> QED
    BY <1>1, <1>7
<1>9. ASSUME NEW x \in Members(s), x # e PROVE x \in Members(r)
  <2>1. PICK i \in DOMAIN s : s[i] = x
    BY DEF Members
  <2>2. i \in K
    BY <1>9, <2>1 DEF Kept
  <2> DEFINE j == KeptBefore(s, e, i) + 1
  <2>3. j \in 1..c
    BY <2>2, RankType
  <2>4. KeptBefore(s, e, at(j)) = KeptBefore(s, e, i)
    <3>1. KeptBefore(s, e, at(j)) = j - 1
      BY <1>2, <2>3
    <3>2. IsFiniteSet({k \in K : k < i})
      BY KeptFinite, FS_Subset, {k \in K : k < i} \in SUBSET K
    <3>3. KeptBefore(s, e, i) \in Nat
      BY <3>2, FS_CardinalityType DEF KeptBefore
    <3> QED
      BY <3>1, <3>3
  <2>5. at(j) = i
    BY <1>2, <2>2, <2>3, <2>4, RankIsBijection
  <2> HIDE DEF j
  <2>6. r[j] = x
    BY <1>4, <2>1, <2>3, <2>5
  <2> QED
    BY <1>6, <2>3, <2>6 DEF Members
<1>10. Members(r) = Members(s) \ {e}
  <2>1. Members(r) \subseteq Members(s) \ {e}
    BY <1>5, <1>6 DEF Members
  <2> QED
    BY <1>9, <2>1
<1>11. ASSUME Distinct(s), NEW i \in 1..c, NEW j \in 1..c, r[i] = r[j]
       PROVE  i = j
  <2>1. s[at(i)] = s[at(j)]
    BY <1>4, <1>11
  <2>2. at(i) = at(j)
    BY <1>1, <1>2, <1>11, <2>1 DEF Distinct
  <2>3. i - 1 = j - 1
    BY <1>2, <2>2
  <2> HIDE DEF c
  <2>4. i \in Int /\ j \in Int
    BY <1>1
  <2> QED
    BY <2>3, <2>4
<1>12. Distinct(s) => Distinct(r)
  BY <1>6, <1>11 DEF Distinct
<1> QED
  BY <1>8, <1>10, <1>12 DEF r

\* A list of one.
LEMMA SingletonList ==
  ASSUME NEW S, NEW e \in S
  PROVE  <<e>> \in Seq(S) /\ Members(<<e>>) = {e} /\ Distinct(<<e>>)
BY DEF Members, Distinct

\* The empty list.
LEMMA EmptyList ==
  ASSUME NEW S
  PROVE  /\ <<>> \in Seq(S) /\ Members(<<>>) = {} /\ Distinct(<<>>)
         /\ \A s \in Seq(S) : Members(s) = {} => s = <<>>
<1>1. <<>> \in Seq(S) /\ Members(<<>>) = {} /\ Distinct(<<>>)
  BY DEF Members, Distinct
<1>2. ASSUME NEW s \in Seq(S), s # <<>> PROVE Members(s) # {}
  <2>1. Len(s) \in Nat \ {0} /\ DOMAIN s = 1..Len(s)
    BY <1>2, EmptySeq, LenProperties
  <2>2. 1 \in DOMAIN s
    BY <2>1
  <2> QED
    BY <2>2 DEF Members
<1> QED
  BY <1>1, <1>2

\* Concatenation: the members of both, each once when both are distinct and
\* have nothing in common.
LEMMA ConcatList ==
  ASSUME NEW S, NEW s \in Seq(S), NEW t \in Seq(S)
  PROVE  /\ s \o t \in Seq(S)
         /\ Members(s \o t) = Members(s) \cup Members(t)
         /\ Distinct(s \o t) <=> /\ Distinct(s)
                                /\ Distinct(t)
                                /\ Members(s) \cap Members(t) = {}
<1> DEFINE m == Len(s)
           n == Len(t)
           c == s \o t
<1>1. m \in Nat /\ n \in Nat /\ DOMAIN s = 1..m /\ DOMAIN t = 1..n
  BY LenProperties
<1>2. /\ c \in Seq(S)
      /\ Len(c) = m + n
      /\ \A i \in 1..(m + n) : c[i] = IF i <= m THEN s[i] ELSE t[i - m]
  BY ConcatProperties
<1>3. DOMAIN c = 1..(m + n)
  BY <1>2, LenProperties
<1> HIDE DEF m, n, c
<1>4. \A i \in 1..m : i \in 1..(m + n) /\ c[i] = s[i]
  BY <1>1, <1>2
<1>5. \A i \in 1..n : i + m \in 1..(m + n) /\ c[i + m] = t[i]
  BY <1>1, <1>2
<1>6. ASSUME NEW i \in 1..(m + n)
      PROVE  (i \in 1..m /\ c[i] = s[i]) \/ (i - m \in 1..n /\ c[i] = t[i - m])
  BY <1>1, <1>2
<1>7. Members(c) = Members(s) \cup Members(t)
  <2>1. Members(c) \subseteq Members(s) \cup Members(t)
    BY <1>1, <1>3, <1>6 DEF Members
  <2>2. Members(s) \subseteq Members(c)
    BY <1>1, <1>3, <1>4 DEF Members
  <2>3. Members(t) \subseteq Members(c)
    BY <1>1, <1>3, <1>5 DEF Members
  <2> QED
    BY <2>1, <2>2, <2>3
<1>8. ASSUME Distinct(c)
      PROVE  Distinct(s) /\ Distinct(t) /\ Members(s) \cap Members(t) = {}
  <2>1. Distinct(s)
    BY <1>1, <1>3, <1>4, <1>8 DEF Distinct
  <2>2. ASSUME NEW i \in 1..n, NEW j \in 1..n, t[i] = t[j] PROVE i = j
    <3>1. i + m = j + m
      BY <1>3, <1>5, <1>8, <2>2 DEF Distinct
    <3> QED
      BY <1>1, <3>1
  <2>3. Distinct(t)
    BY <1>1, <2>2 DEF Distinct
  <2>4. ASSUME NEW i \in 1..m, NEW j \in 1..n, s[i] = t[j] PROVE FALSE
    <3>1. i = j + m
      BY <1>3, <1>4, <1>5, <1>8, <2>4 DEF Distinct
    <3> QED
      BY <1>1, <3>1
  <2>5. Members(s) \cap Members(t) = {}
    BY <1>1, <2>4 DEF Members
  <2> QED
    BY <2>1, <2>3, <2>5
<1>9. ASSUME Distinct(s), Distinct(t), Members(s) \cap Members(t) = {},
             NEW i \in 1..(m + n), NEW j \in 1..(m + n), c[i] = c[j]
      PROVE  i = j
  <2>1. CASE i \in 1..m /\ j \in 1..m
    BY <1>1, <1>4, <1>9, <2>1 DEF Distinct
  <2>2. CASE i \in 1..m /\ j - m \in 1..n /\ c[j] = t[j - m]
    BY <1>1, <1>4, <1>9, <2>2 DEF Members
  <2>3. CASE i - m \in 1..n /\ c[i] = t[i - m] /\ j \in 1..m
    BY <1>1, <1>4, <1>9, <2>3 DEF Members
  <2>4. CASE i - m \in 1..n /\ c[i] = t[i - m] /\ j - m \in 1..n /\ c[j] = t[j - m]
    <3>1. i - m = j - m
      BY <1>1, <1>9, <2>4 DEF Distinct
    <3> QED
      BY <1>1, <3>1
  <2> QED
    BY <1>6, <2>1, <2>2, <2>3, <2>4
<1>10. Distinct(c) <=> /\ Distinct(s) /\ Distinct(t)
                       /\ Members(s) \cap Members(t) = {}
  <2>1. ASSUME Distinct(s), Distinct(t), Members(s) \cap Members(t) = {}
        PROVE  Distinct(c)
    BY <1>3, <1>9, <2>1 DEF Distinct
  <2> QED
    BY <1>8, <2>1
<1> QED
  BY <1>2, <1>7, <1>10 DEF c

\* LPUSH and RPUSH of what is not there yet.
LEMMA PushList ==
  ASSUME NEW S, NEW s \in Seq(S), NEW e \in S
  PROVE  /\ LPush(s, e) \in Seq(S) /\ RPush(s, e) \in Seq(S)
         /\ Members(LPush(s, e)) = Members(s) \cup {e}
         /\ Members(RPush(s, e)) = Members(s) \cup {e}
         /\ Distinct(s) /\ e \notin Members(s) =>
              Distinct(LPush(s, e)) /\ Distinct(RPush(s, e))
<1>1. <<e>> \in Seq(S) /\ Members(<<e>>) = {e} /\ Distinct(<<e>>)
  BY SingletonList
<1>2. RPush(s, e) = s \o <<e>> /\ LPush(s, e) = <<e>> \o s
  BY AppendIsConcat DEF RPush, LPush
<1>3. /\ LPush(s, e) \in Seq(S)
      /\ Members(LPush(s, e)) = {e} \cup Members(s)
      /\ Distinct(LPush(s, e)) <=> /\ Distinct(<<e>>) /\ Distinct(s)
                                   /\ {e} \cap Members(s) = {}
  <2>1. /\ <<e>> \o s \in Seq(S)
        /\ Members(<<e>> \o s) = Members(<<e>>) \cup Members(s)
        /\ Distinct(<<e>> \o s) <=> /\ Distinct(<<e>>) /\ Distinct(s)
                                     /\ Members(<<e>>) \cap Members(s) = {}
    BY <1>1, ConcatList
  <2> QED
    BY <1>1, <1>2, <2>1
<1>4. /\ RPush(s, e) \in Seq(S)
      /\ Members(RPush(s, e)) = Members(s) \cup {e}
      /\ Distinct(RPush(s, e)) <=> /\ Distinct(s) /\ Distinct(<<e>>)
                                   /\ Members(s) \cap {e} = {}
  <2>1. /\ s \o <<e>> \in Seq(S)
        /\ Members(s \o <<e>>) = Members(s) \cup Members(<<e>>)
        /\ Distinct(s \o <<e>>) <=> /\ Distinct(s) /\ Distinct(<<e>>)
                                     /\ Members(s) \cap Members(<<e>>) = {}
    BY <1>1, ConcatList
  <2> QED
    BY <1>1, <1>2, <2>1
<1> QED
  BY <1>1, <1>3, <1>4

\* Head and tail of a list.
LEMMA PopList ==
  ASSUME NEW S, NEW s \in Seq(S), s # <<>>
  PROVE  /\ Head(s) \in S /\ Tail(s) \in Seq(S)
         /\ s = <<Head(s)>> \o Tail(s)
         /\ Members(s) = {Head(s)} \cup Members(Tail(s))
         /\ Distinct(s) => Distinct(Tail(s)) /\ Head(s) \notin Members(Tail(s))
<1>1. Head(s) \in S /\ Tail(s) \in Seq(S)
  BY HeadTailProperties
<1>2. s = <<Head(s)>> \o Tail(s)
  BY SMT
<1>3. /\ <<Head(s)>> \in Seq(S) /\ Members(<<Head(s)>>) = {Head(s)}
      /\ Distinct(<<Head(s)>>)
  BY <1>1, SingletonList
<1>4. /\ Members(<<Head(s)>> \o Tail(s)) = {Head(s)} \cup Members(Tail(s))
      /\ Distinct(<<Head(s)>> \o Tail(s)) =>
           Distinct(Tail(s)) /\ {Head(s)} \cap Members(Tail(s)) = {}
  BY <1>1, <1>3, ConcatList
<1> QED
  BY <1>1, <1>2, <1>4

(* The lock ------------------------------------------------------------------*)
\* No element is at two places of the two lists, and no holder waits.
Apart(held, waiting, claimed) ==
  /\ Distinct(claimed) /\ Distinct(waiting)
  /\ Members(claimed) \cap Members(waiting) = {}
  /\ held \cap Members(waiting) = {}

LockInv == LockTypeOK /\ OneHolder /\ Apart(holders, waitList, processing)

\* What a script must have prepared before it promotes the next execution.
Ready(live, waiting, claimed) ==
  /\ live \subseteq Exe
  /\ \A a, b \in live : a = b
  /\ waiting \in Seq(Exe)
  /\ claimed \in Seq(Exe)
  /\ Apart(live, waiting, claimed)

\* QueuedOnce in terms of each list.
LEMMA ApartIsQueuedOnce ==
  ASSUME waitList \in Seq(Exe), processing \in Seq(Exe)
  PROVE  Apart(holders, waitList, processing) <=> QueuedOnce
<1>1. Distinct(processing \o waitList)
        <=> /\ Distinct(processing) /\ Distinct(waitList)
            /\ Members(processing) \cap Members(waitList) = {}
  BY ConcatList
<1> QED
  BY <1>1 DEF Apart, QueuedOnce

\* The members that are live are among the holders.
LEMMA LiveFacts ==
  ASSUME LockInv
  PROVE  /\ Live \subseteq Exe
         /\ \A a, b \in Live : a = b
         /\ Live \cap Members(waitList) = {}
BY DEF LockInv, LockTypeOK, OneHolder, Apart, Live

\* Promoting the head of the line keeps the invariant and loses nobody.
LEMMA ClaimKeeps ==
  ASSUME NEW live, NEW waiting, NEW claimed, NEW next,
         Ready(live, waiting, claimed),
         ClaimNext(live, waiting, claimed, next)
  PROVE  /\ holders' \subseteq Exe
         /\ lapsed' = {}
         /\ waitList' \in Seq(Exe)
         /\ processing' \in Seq(Exe)
         /\ \A a, b \in holders' : a = b
         /\ Apart(holders', waitList', processing')
         /\ Members(waitList') \cup Members(processing')
              = Members(waiting) \cup Members(claimed)
<1>1. CASE /\ live = {} /\ waiting # <<>>
           /\ next = Head(waiting)
           /\ holders' = {next}
           /\ waitList' = Tail(waiting)
           /\ processing' = RPush(claimed, next)
  <2>1. /\ next \in Exe /\ Tail(waiting) \in Seq(Exe)
        /\ Members(waiting) = {next} \cup Members(Tail(waiting))
        /\ Distinct(Tail(waiting)) /\ next \notin Members(Tail(waiting))
    BY <1>1, PopList DEF Ready, Apart
  <2>2. next \notin Members(claimed)
    BY <2>1 DEF Ready, Apart
  <2>3. /\ RPush(claimed, next) \in Seq(Exe)
        /\ Members(RPush(claimed, next)) = Members(claimed) \cup {next}
        /\ Distinct(RPush(claimed, next))
    BY <2>1, <2>2, PushList DEF Ready, Apart
  <2>4. Apart(holders', waitList', processing')
    BY <1>1, <2>1, <2>3 DEF Ready, Apart
  <2> QED
    BY <1>1, <2>1, <2>3, <2>4 DEF ClaimNext
<1>2. CASE /\ live # {} \/ waiting = <<>>
           /\ next = NoExe
           /\ holders' = live
           /\ waitList' = waiting
           /\ processing' = claimed
  BY <1>2 DEF ClaimNext, Ready
<1> QED
  BY <1>1, <1>2 DEF ClaimNext

\* The arguments with which e gives the slot back: e may be taken out of the
\* line, or stay in it, or be put at its head.
LEMMA GivingBackIsReady ==
  ASSUME LockInv, NEW e
  PROVE  /\ Ready(Live \ {e}, waitList, LRem(processing, e))
         /\ Members(LRem(processing, e)) = Members(processing) \ {e}
<1>1. /\ LRem(processing, e) \in Seq(Exe)
      /\ Members(LRem(processing, e)) = Members(processing) \ {e}
      /\ Distinct(LRem(processing, e))
  BY LRemProperties DEF LockInv, LockTypeOK, Apart
<1> QED
  BY <1>1, LiveFacts DEF LockInv, LockTypeOK, Apart, Ready

LEMMA RequeueingIsReady ==
  ASSUME LockInv, NEW e \in Exe
  PROVE  /\ Ready(Live \ {e}, LPushIfAbsent(waitList, e), LRem(processing, e))
         /\ Members(LPushIfAbsent(waitList, e)) = Members(waitList) \cup {e}
<1>1. /\ Ready(Live \ {e}, waitList, LRem(processing, e))
      /\ Members(LRem(processing, e)) = Members(processing) \ {e}
  BY GivingBackIsReady
<1>2. /\ LPushIfAbsent(waitList, e) \in Seq(Exe)
      /\ Members(LPushIfAbsent(waitList, e)) = Members(waitList) \cup {e}
      /\ Distinct(LPushIfAbsent(waitList, e))
  <2>1. waitList \in Seq(Exe) /\ Distinct(waitList)
    BY DEF LockInv, LockTypeOK, Apart
  <2>2. CASE e \in Members(waitList)
    BY <2>1, <2>2 DEF LPushIfAbsent
  <2>3. CASE e \notin Members(waitList)
    BY <2>1, <2>3, PushList DEF LPushIfAbsent
  <2> QED
    BY <2>2, <2>3
<1> QED
  BY <1>1, <1>2 DEF Ready, Apart

\* Where everybody is after a requeue.
LEMMA ClaimAfterRequeue ==
  ASSUME LockInv, NEW e \in Exe, NEW next,
         ClaimNext(Live \ {e}, LPushIfAbsent(waitList, e), LRem(processing, e), next)
  PROVE  Members(waitList') \cup Members(processing')
           = Members(waitList) \cup {e} \cup (Members(processing) \ {e})
<1>1. Ready(Live \ {e}, LPushIfAbsent(waitList, e), LRem(processing, e))
  BY RequeueingIsReady
<1>2. Members(LPushIfAbsent(waitList, e)) = Members(waitList) \cup {e}
  BY RequeueingIsReady
<1>3. Members(LRem(processing, e)) = Members(processing) \ {e}
  BY GivingBackIsReady
<1>4. Members(waitList') \cup Members(processing')
        = Members(LPushIfAbsent(waitList, e)) \cup Members(LRem(processing, e))
  BY <1>1, ClaimKeeps
<1> QED
  BY <1>2, <1>3, <1>4

-----------------------------------------------------------------------------
(* Each script keeps the invariant.                                         *)

LEMMA InitKeeps == LockInit => LockInv
<1> SUFFICES ASSUME LockInit PROVE LockInv
  OBVIOUS
<1>1. <<>> \in Seq(Exe) /\ Members(<<>>) = {} /\ Distinct(<<>>)
  BY EmptyList
<1>2. 0 \in 0..(MaxAttempts - 1)
  BY MaxAttemptsAssumption
<1> QED
  BY <1>1, <1>2 DEF LockInit, LockInv, LockTypeOK, OneHolder, Apart

LEMMA TryKeeps ==
  ASSUME LockInv, NEW e \in Exe, NEW acquired, TryAcquireOrEnqueue(e, acquired)
  PROVE  LockInv'
<1> DEFINE known == e \in Live \cup Members(waitList) \cup Members(processing)
           free  == Live = {} /\ waitList = <<>>
<1>1. /\ acquired = (~known /\ free)
      /\ holders' = IF acquired THEN {e} ELSE Live
      /\ waitList' = IF known \/ free THEN waitList ELSE RPush(waitList, e)
      /\ lapsed' = {} /\ processing' = processing /\ attempts' = attempts
  BY DEF TryAcquireOrEnqueue
<1>2. LockTypeOK /\ OneHolder /\ Apart(holders, waitList, processing)
  BY DEF LockInv
<1>3. CASE known
  <2>1. holders' = Live /\ waitList' = waitList
    BY <1>1, <1>3
  <2> QED
    BY <1>1, <1>2, <2>1, LiveFacts DEF LockInv, LockTypeOK, OneHolder, Apart
<1>4. CASE ~known /\ free
  <2>1. holders' = {e} /\ waitList' = waitList
    BY <1>1, <1>4
  <2>2. e \notin Members(waitList)
    BY <1>4
  <2> QED
    BY <1>1, <1>2, <2>1, <2>2 DEF LockInv, LockTypeOK, OneHolder, Apart
<1>5. CASE ~known /\ ~free
  <2>1. holders' = Live /\ waitList' = RPush(waitList, e)
    BY <1>1, <1>5
  <2>2. e \notin Live /\ e \notin Members(waitList) /\ e \notin Members(processing)
    BY <1>5
  <2>3. /\ RPush(waitList, e) \in Seq(Exe)
        /\ Members(RPush(waitList, e)) = Members(waitList) \cup {e}
        /\ Distinct(RPush(waitList, e))
    BY <1>2, <2>2, PushList DEF LockTypeOK, Apart
  <2>4. Apart(holders', waitList', processing')
    BY <1>1, <1>2, <2>1, <2>2, <2>3, LiveFacts DEF Apart
  <2> QED
    BY <1>1, <1>2, <2>1, <2>3, <2>4, LiveFacts DEF LockInv, LockTypeOK, OneHolder
<1> QED
  BY <1>3, <1>4, <1>5

LEMMA ReleaseKeeps ==
  ASSUME LockInv, NEW e, NEW next, ReleaseSlotAndPopNext(e, next)
  PROVE  /\ LockInv'
         /\ Members(waitList') \cup Members(processing')
              = Members(waitList) \cup (Members(processing) \ {e})
<1>1. ClaimNext(Live \ {e}, waitList, LRem(processing, e), next) /\ attempts' = attempts
  BY DEF ReleaseSlotAndPopNext
<1> QED
  BY <1>1, GivingBackIsReady, ClaimKeeps DEF LockInv, LockTypeOK, OneHolder

LEMMA RequeueKeeps ==
  ASSUME LockInv, NEW e \in Exe, NEW next, RequeueAtHeadAndClaimNext(e, next)
  PROVE  /\ LockInv'
         /\ Members(waitList) \cup Members(processing)
              \subseteq Members(waitList') \cup Members(processing')
<1>1. /\ ClaimNext(Live \ {e}, LPushIfAbsent(waitList, e), LRem(processing, e), next)
      /\ attempts' = attempts
  BY DEF RequeueAtHeadAndClaimNext
<1>2. Members(waitList') \cup Members(processing')
        = Members(waitList) \cup {e} \cup (Members(processing) \ {e})
  BY <1>1, ClaimAfterRequeue
<1>3. LockInv'
  BY <1>1, RequeueingIsReady, ClaimKeeps DEF LockInv, LockTypeOK, OneHolder
<1> QED
  BY <1>2, <1>3

\* The counter is reset when it would reach MaxAttempts.
LEMMA AttemptsStayBelow ==
  ASSUME LockTypeOK, NEW e \in Exe, NEW exhausted \in BOOLEAN,
         exhausted = (attempts[e] + 1 >= MaxAttempts)
  PROVE  [attempts EXCEPT ![e] = IF exhausted THEN 0 ELSE @ + 1]
           \in [Exe -> 0..(MaxAttempts - 1)]
<1>1. attempts[e] \in 0..(MaxAttempts - 1) /\ attempts \in [Exe -> 0..(MaxAttempts - 1)]
  BY DEF LockTypeOK
<1>2. (IF exhausted THEN 0 ELSE attempts[e] + 1) \in 0..(MaxAttempts - 1)
  <2>1. CASE exhausted
    BY <2>1, MaxAttemptsAssumption
  <2>2. CASE ~exhausted
    <3>1. ~(attempts[e] + 1 >= MaxAttempts)
      BY <2>2
    <3>2. attempts[e] + 1 \in 0..(MaxAttempts - 1)
      BY <1>1, <3>1, MaxAttemptsAssumption
    <3> QED
      BY <2>2, <3>2
  <2> QED
    BY <2>1, <2>2
<1> QED
  BY <1>1, <1>2

LEMMA FailKeeps ==
  ASSUME LockInv, NEW e \in Exe, NEW exhausted \in BOOLEAN, NEW next,
         FailAttemptAndClaimNext(e, exhausted, next)
  PROVE  /\ LockInv'
         /\ Members(waitList) \cup (Members(processing) \ {e})
              \subseteq Members(waitList') \cup Members(processing')
         /\ ~exhausted => Members(waitList) \cup Members(processing)
                            \subseteq Members(waitList') \cup Members(processing')
<1>1. /\ exhausted = (attempts[e] + 1 >= MaxAttempts)
      /\ attempts' = [attempts EXCEPT ![e] = IF exhausted THEN 0 ELSE @ + 1]
      /\ ClaimNext(Live \ {e},
                   IF exhausted THEN waitList ELSE LPushIfAbsent(waitList, e),
                   LRem(processing, e), next)
  BY DEF FailAttemptAndClaimNext
<1>2. attempts' \in [Exe -> 0..(MaxAttempts - 1)]
  BY <1>1, AttemptsStayBelow DEF LockInv
<1>3. CASE exhausted
  <2>1. ClaimNext(Live \ {e}, waitList, LRem(processing, e), next)
    BY <1>1, <1>3
  <2> QED
    BY <1>2, <1>3, <2>1, GivingBackIsReady, ClaimKeeps DEF LockInv, LockTypeOK, OneHolder
<1>4. CASE ~exhausted
  <2>1. ClaimNext(Live \ {e}, LPushIfAbsent(waitList, e), LRem(processing, e), next)
    BY <1>1, <1>4
  <2>2. Members(waitList') \cup Members(processing')
          = Members(waitList) \cup {e} \cup (Members(processing) \ {e})
    BY <2>1, ClaimAfterRequeue
  <2>3. LockInv'
    BY <1>2, <2>1, RequeueingIsReady, ClaimKeeps DEF LockInv, LockTypeOK, OneHolder
  <2> QED
    BY <2>2, <2>3
<1> QED
  BY <1>3, <1>4

LEMMA ReclaimKeeps ==
  ASSUME LockInv, ReclaimOrphans
  PROVE  /\ LockInv'
         /\ Members(waitList') \cup Members(processing')
              = Members(waitList) \cup Members(processing)
<1>1. holders' = Live /\ lapsed' = {} /\ attempts' = attempts
  BY DEF ReclaimOrphans
<1>2. /\ waitList \in Seq(Exe) /\ processing \in Seq(Exe)
      /\ Apart(holders, waitList, processing)
  BY DEF LockInv, LockTypeOK
<1>3. CASE Live = {}
  <2>1. waitList' = processing \o waitList /\ processing' = <<>>
    BY <1>3 DEF ReclaimOrphans
  <2>2. /\ processing \o waitList \in Seq(Exe)
        /\ Members(processing \o waitList) = Members(processing) \cup Members(waitList)
        /\ Distinct(processing \o waitList)
    BY <1>2, ConcatList DEF Apart
  <2>3. <<>> \in Seq(Exe) /\ Members(<<>>) = {} /\ Distinct(<<>>)
    BY EmptyList
  <2> QED
    BY <1>1, <1>3, <2>1, <2>2, <2>3 DEF LockInv, LockTypeOK, OneHolder, Apart
<1>4. CASE Live # {}
  <2>1. waitList' = waitList /\ processing' = processing
    BY <1>4 DEF ReclaimOrphans
  <2> QED
    BY <1>1, <1>2, <2>1, LiveFacts DEF LockInv, LockTypeOK, OneHolder, Apart
<1> QED
  BY <1>3, <1>4

\* Leases and counters: the lists stay as they are.
LEMMA TimeKeeps ==
  ASSUME LockInv, NEW e \in Exe,
         RenewLease(e) \/ LeaseLapses(e) \/ AttemptsExpire(e)
  PROVE  LockInv' /\ waitList' = waitList /\ processing' = processing
<1>1. holders' = holders /\ waitList' = waitList /\ processing' = processing
  BY DEF RenewLease, LeaseLapses, AttemptsExpire
<1>2. lapsed' \subseteq holders'
  BY DEF RenewLease, LeaseLapses, AttemptsExpire, LockInv, LockTypeOK
<1>3. attempts' \in [Exe -> 0..(MaxAttempts - 1)]
  <2>1. 0 \in 0..(MaxAttempts - 1)
    BY MaxAttemptsAssumption
  <2> QED
    BY <2>1 DEF RenewLease, LeaseLapses, AttemptsExpire, LockInv, LockTypeOK
<1> QED
  BY <1>1, <1>2, <1>3 DEF LockInv, LockTypeOK, OneHolder, Apart

LEMMA NextKeeps == LockInv /\ [LockNext]_lockVars => LockInv'
<1> SUFFICES ASSUME LockInv, [LockNext]_lockVars PROVE LockInv'
  OBVIOUS
<1>1. CASE UNCHANGED lockVars
  BY <1>1 DEF lockVars, LockInv, LockTypeOK, OneHolder, Apart
<1>2. ASSUME NEW e \in Exe, Tries(e) PROVE LockInv'
  BY <1>2, TryKeeps DEF Tries
<1>3. ASSUME NEW e \in Exe, Requeues(e) PROVE LockInv'
  BY <1>3, RequeueKeeps DEF Requeues
<1>4. ASSUME NEW e \in Exe, Retries(e) \/ Exhausts(e) PROVE LockInv'
  <2>1. TRUE \in BOOLEAN /\ FALSE \in BOOLEAN
    OBVIOUS
  <2> QED
    BY <1>4, <2>1, FailKeeps DEF Retries, Exhausts
<1>5. ASSUME NEW e \in Exe, RenewLease(e) \/ LeaseLapses(e) \/ AttemptsExpire(e)
      PROVE  LockInv'
  BY <1>5, TimeKeeps
<1>6. ASSUME NEW e \in ExeOrNone, Releases(e) PROVE LockInv'
  BY <1>6, ReleaseKeeps DEF Releases
<1>7. CASE ReclaimOrphans
  BY <1>7, ReclaimKeeps
<1> QED
  BY <1>1, <1>2, <1>3, <1>4, <1>5, <1>6, <1>7 DEF LockNext

-----------------------------------------------------------------------------
THEOREM LockInvariant == LockSpec => []LockInv
  BY InitKeeps, NextKeeps, PTL DEF LockSpec

\* The variables keep their types; in particular no counter reaches
\* MaxAttempts.
THEOREM LockTypeCorrect == LockSpec => []LockTypeOK
<1>1. LockInv => LockTypeOK
  BY DEF LockInv
<1> QED
  BY <1>1, LockInvariant, PTL

\* Whatever sequence of scripts is called, with whatever arguments and
\* whenever leases lapse, the slot of the routine has at most one holder.
THEOREM AtMostOneHolder == LockSpec => []OneHolder
<1>1. LockInv => OneHolder
  BY DEF LockInv
<1> QED
  BY <1>1, LockInvariant, PTL

\* An execution is queued at most once, and not while it holds the slot.
THEOREM NobodyQueuedTwice == LockSpec => []QueuedOnce
<1>1. LockInv => QueuedOnce
  BY ApartIsQueuedOnce DEF LockInv, LockTypeOK
<1> QED
  BY <1>1, LockInvariant, PTL

\* An execution leaves the lists only by its own release or last failure.
THEOREM NobodySilentlyLost == LockSpec => NoSilentLoss
<1> DEFINE Lost(e) == /\ e \in Members(waitList) \cup Members(processing)
                      /\ e \notin Members(waitList') \cup Members(processing')
<1>1. ASSUME LockInv, LockNext, NEW e, Lost(e) PROVE Releases(e) \/ Exhausts(e)
  <2>1. ASSUME NEW x \in Exe, Tries(x) PROVE FALSE
    <3>1. PICK acquired \in BOOLEAN : TryAcquireOrEnqueue(x, acquired)
      BY <2>1 DEF Tries
    <3>2. processing' = processing
      BY <3>1 DEF TryAcquireOrEnqueue
    <3>3. waitList' = waitList \/ waitList' = RPush(waitList, x)
      BY <3>1 DEF TryAcquireOrEnqueue
    <3>4. Members(RPush(waitList, x)) = Members(waitList) \cup {x}
      BY <1>1, PushList DEF LockInv, LockTypeOK
    <3>5. Members(waitList) \subseteq Members(waitList')
      BY <3>3, <3>4
    <3> QED
      BY <1>1, <3>2, <3>5
  <2>2. ASSUME NEW x \in Exe, Requeues(x) PROVE FALSE
    BY <1>1, <2>2, RequeueKeeps DEF Requeues
  <2>3. ASSUME NEW x \in Exe, Retries(x) PROVE FALSE
    <3>1. FALSE \in BOOLEAN
      OBVIOUS
    <3> QED
      BY <1>1, <2>3, <3>1, FailKeeps DEF Retries
  <2>4. ASSUME NEW x \in Exe, Exhausts(x) PROVE Exhausts(e)
    <3>1. TRUE \in BOOLEAN
      OBVIOUS
    <3>2. Members(waitList) \cup (Members(processing) \ {x})
            \subseteq Members(waitList') \cup Members(processing')
      BY <1>1, <2>4, <3>1, FailKeeps DEF Exhausts
    <3>3. e = x
      BY <1>1, <3>2
    <3> QED
      BY <2>4, <3>3
  <2>5. ASSUME NEW x \in Exe, RenewLease(x) \/ LeaseLapses(x) \/ AttemptsExpire(x)
        PROVE  FALSE
    BY <1>1, <2>5, TimeKeeps
  <2>6. ASSUME NEW x \in ExeOrNone, Releases(x) PROVE Releases(e)
    <3>1. Members(waitList') \cup Members(processing')
            = Members(waitList) \cup (Members(processing) \ {x})
      BY <1>1, <2>6, ReleaseKeeps DEF Releases
    <3>2. e = x
      BY <1>1, <3>1
    <3> QED
      BY <2>6, <3>2
  <2>7. CASE ReclaimOrphans
    BY <1>1, <2>7, ReclaimKeeps
  <2> QED
    BY <1>1, <2>1, <2>2, <2>3, <2>4, <2>5, <2>6, <2>7 DEF LockNext
<1>2. LockInv /\ [LockNext]_lockVars
        => [\A e \in Members(waitList) \cup Members(processing) :
              e \notin Members(waitList') \cup Members(processing')
                => Releases(e) \/ Exhausts(e)]_lockVars
  BY <1>1
<1> QED
  BY <1>2, LockInvariant, PTL DEF LockSpec, NoSilentLoss

-----------------------------------------------------------------------------
(***************************************************************************)
(* Called by consumers that give back only what they hold (HolderSpec), the *)
(* scripts implement the abstract line of SerialFifo.                       *)
(*                                                                         *)
(* HolderInv is what makes the refinement mapping Line work: without a     *)
(* holder nothing is claimed, and with holder h the claims are empty or    *)
(* <<h>>, so that recovery finds nothing to reclaim or to promote while    *)
(* the holder is alive.                                                    *)
(***************************************************************************)
Free == holders = {} /\ processing = <<>> /\ Distinct(waitList)

HeldBy(h) ==
  /\ holders = {h}
  /\ processing \in {<<>>, <<h>>}
  /\ h \notin Members(waitList)
  /\ Distinct(waitList)

HolderInv ==
  /\ waitList \in Seq(Exe)
  /\ lapsed = {}
  /\ Free \/ \E h \in Exe : HeldBy(h)

\* A list of one distinct element, however it was obtained.
LEMMA OnlyMember ==
  ASSUME NEW S, NEW s \in Seq(S), NEW h, Members(s) = {h}, Distinct(s)
  PROVE  s = <<h>>
<1>1. DOMAIN s = 1..Len(s) /\ Len(s) \in Nat /\ s # <<>>
  BY LenProperties, EmptyList
<1>2. Len(s) # 0
  BY <1>1, EmptySeq
<1>3. \A i \in 1..Len(s) : s[i] = h
  BY <1>1 DEF Members
<1>4. \A i \in 1..Len(s) : i = 1
  BY <1>1, <1>3 DEF Distinct
<1>5. Len(s) = 1
  BY <1>1, <1>2, <1>4
<1>6. h \in S /\ <<h>> \in Seq(S) /\ Len(<<h>>) = 1
  BY <1>3, <1>5, ElementOfSeq
<1> QED
  BY <1>3, <1>5, <1>6, SeqEqual

\* LREM on the claims of a holder: its own release empties them, the no-op
\* release of the recovery leaves them.
LEMMA ClaimsAfterLRem ==
  ASSUME NEW h \in Exe, NEW e, processing \in {<<>>, <<h>>}
  PROVE  /\ e = h => LRem(processing, e) = <<>>
         /\ LRem(processing, e) \in {<<>>, <<h>>}
<1>1. /\ processing \in Seq(Exe) /\ Distinct(processing)
      /\ Members(processing) \in {{}, {h}}
  <2>1. CASE processing = <<>>
    <3>1. <<>> \in Seq(Exe) /\ Members(<<>>) = {} /\ Distinct(<<>>)
      BY EmptyList
    <3> QED
      BY <2>1, <3>1
  <2>2. CASE processing = <<h>>
    BY <2>2, SingletonList
  <2> QED
    BY <2>1, <2>2
<1>2. /\ LRem(processing, e) \in Seq(Exe)
      /\ Members(LRem(processing, e)) = Members(processing) \ {e}
      /\ Distinct(LRem(processing, e))
  BY <1>1, LRemProperties
<1>3. CASE Members(LRem(processing, e)) = {}
  BY <1>2, <1>3, EmptyList
<1>4. CASE Members(LRem(processing, e)) = {h}
  <2>1. LRem(processing, e) = <<h>>
    BY <1>2, <1>4, OnlyMember
  <2>2. e # h
    BY <1>2, <1>4
  <2> QED
    BY <2>1, <2>2
<1> QED
  BY <1>1, <1>2, <1>3, <1>4

\* What the abstract line is in the two cases.
LEMMA LineWhenFree == Free => Line = waitList
  BY DEF Free, Line

LEMMA LineWhenHeld == ASSUME NEW h, HeldBy(h) PROVE Line = <<h>> \o waitList
  BY DEF HeldBy, Line


LEMMA HolderInit == LockInit => HolderInv /\ Fifo!FifoInit
<1> SUFFICES ASSUME LockInit PROVE HolderInv /\ Fifo!FifoInit
  OBVIOUS
<1>1. Free /\ lapsed = {} /\ waitList \in Seq(Exe) /\ waitList = <<>>
  BY EmptyList DEF LockInit, Free
<1> QED
  BY <1>1, LineWhenFree DEF HolderInv, Fifo!FifoInit

\* The same cases, of the next state.
LEMMA NextFree ==
  ASSUME holders' = {}, processing' = <<>>, waitList' \in Seq(Exe),
         Distinct(waitList'), lapsed' = {}
  PROVE  HolderInv' /\ Line' = waitList'
BY DEF HolderInv, Free, Line

LEMMA NextHeld ==
  ASSUME NEW h \in Exe, holders' = {h}, processing' \in {<<>>, <<h>>},
         waitList' \in Seq(Exe), h \notin Members(waitList'),
         Distinct(waitList'), lapsed' = {}
  PROVE  HolderInv' /\ Line' = <<h>> \o waitList'
<1>1. HeldBy(h)'
  BY DEF HeldBy
<1>2. HolderInv'
  BY <1>1 DEF HolderInv
<1>3. Line' = <<h>> \o waitList'
  BY DEF Line
<1> QED
  BY <1>2, <1>3

-----------------------------------------------------------------------------
(* Each script is a step of the abstract line, or none.                     *)

\* What is not in the line and is pushed behind it joins it.
LEMMA PushJoins ==
  ASSUME HolderInv, NEW e \in Exe, e \notin holders \cup Members(waitList),
         holders' = holders, processing' = processing, lapsed' = {},
         waitList' = RPush(waitList, e)
  PROVE  HolderInv' /\ Fifo!Join(e)
<1>1. /\ waitList \in Seq(Exe) /\ waitList' = Append(waitList, e)
      /\ waitList' \in Seq(Exe) /\ Members(waitList') = Members(waitList) \cup {e}
      /\ Distinct(waitList) => Distinct(waitList')
  BY PushList DEF HolderInv, RPush
<1>2. CASE Free
  <2>1. HolderInv' /\ Line' = Append(Line, e)
    BY <1>1, <1>2, NextFree, LineWhenFree DEF Free
  <2>2. ~Fifo!InLine(e)
    BY <1>2, LineWhenFree DEF Fifo!InLine, Members
  <2> QED
    BY <2>1, <2>2 DEF Fifo!Join
<1>3. ASSUME NEW h \in Exe, HeldBy(h) PROVE HolderInv' /\ Fifo!Join(e)
  <2>1. /\ holders = {h} /\ h \notin Members(waitList) /\ Distinct(waitList)
        /\ processing \in {<<>>, <<h>>} /\ Line = <<h>> \o waitList
    BY <1>3, LineWhenHeld DEF HeldBy
  <2>2. HolderInv' /\ Line' = <<h>> \o waitList'
    BY <1>1, <2>1, NextHeld
  <2>3. Line' = Append(Line, e)
    <3>1. <<h>> \in Seq(Exe)
      OBVIOUS
    <3>2. <<h>> \o Append(waitList, e) = Append(<<h>> \o waitList, e)
      BY <1>1, <3>1
    <3> QED
      BY <1>1, <2>1, <2>2, <3>2
  <2>4. ~Fifo!InLine(e)
    <3>1. e \notin Members(<<h>>) \cup Members(waitList)
      BY <2>1, SingletonList
    <3>2. Members(<<h>> \o waitList) = Members(<<h>>) \cup Members(waitList)
      BY <1>1, SingletonList, ConcatList
    <3> QED
      BY <2>1, <3>1, <3>2 DEF Fifo!InLine, Members
  <2> QED
    BY <2>2, <2>3, <2>4 DEF Fifo!Join
<1> QED
  BY <1>2, <1>3 DEF HolderInv

\* A newcomer takes the free slot or joins at the tail; one that is known
\* changes nothing.
LEMMA TryRefines ==
  ASSUME HolderInv, NEW e \in Exe, NEW acquired, TryAcquireOrEnqueue(e, acquired)
  PROVE  HolderInv' /\ (Fifo!Join(e) \/ Line' = Line)
<1> DEFINE known == e \in Live \cup Members(waitList) \cup Members(processing)
           free  == Live = {} /\ waitList = <<>>
<1>1. /\ acquired = (~known /\ free)
      /\ holders' = IF acquired THEN {e} ELSE Live
      /\ waitList' = IF known \/ free THEN waitList ELSE RPush(waitList, e)
      /\ lapsed' = {} /\ processing' = processing
  BY DEF TryAcquireOrEnqueue
<1>2. Live = holders /\ waitList \in Seq(Exe)
  BY DEF HolderInv, Live
<1>3. CASE known
  <2>1. holders' = holders /\ waitList' = waitList
    BY <1>1, <1>2, <1>3
  <2>2. lapsed' = lapsed /\ processing' = processing
    BY <1>1 DEF HolderInv
  <2>3. Line' = Line
    BY <2>1 DEF Line
  <2> QED
    BY <2>1, <2>2, <2>3 DEF HolderInv, Free, HeldBy
<1>4. CASE ~known /\ ~free
  <2>1. holders' = holders /\ waitList' = RPush(waitList, e)
    BY <1>1, <1>2, <1>4
  <2>2. e \notin holders \cup Members(waitList)
    BY <1>2, <1>4
  <2> QED
    BY <1>1, <2>1, <2>2, PushJoins
<1>5. CASE ~known /\ free
  <2>1. Free /\ waitList = <<>> /\ processing = <<>>
    BY <1>2, <1>5 DEF HolderInv, Free, HeldBy
  <2>2. holders' = {e} /\ waitList' = <<>> /\ processing' = <<>>
    BY <1>1, <1>5, <2>1
  <2>3. <<>> \in Seq(Exe) /\ Members(<<>>) = {} /\ Distinct(<<>>)
    BY EmptyList
  <2>4. HolderInv' /\ Line' = <<e>> \o waitList'
    BY <1>1, <2>2, <2>3, NextHeld
  <2>5. Line = <<>> /\ Line' = <<e>>
    BY <2>1, <2>2, <2>4, LineWhenFree
  <2>6. Fifo!Join(e)
    BY <2>5 DEF Fifo!Join, Fifo!InLine
  <2> QED
    BY <2>4, <2>6
<1> QED
  BY <1>3, <1>4, <1>5

\* The holder leaves the line: the slot is free or the next one's.
LEMMA LeaveRefines ==
  ASSUME HolderInv, NEW h \in Exe, HeldBy(h), NEW next,
         ClaimNext({}, waitList, <<>>, next)
  PROVE  HolderInv' /\ Fifo!Leave
<1>1. Line = <<h>> \o waitList /\ waitList \in Seq(Exe) /\ Distinct(waitList)
  BY LineWhenHeld DEF HolderInv, HeldBy
<1>2. Line # <<>> /\ Tail(Line) = waitList
  BY <1>1
<1>3. CASE waitList # <<>>
  <2>1. /\ holders' = {Head(waitList)} /\ waitList' = Tail(waitList)
        /\ processing' = <<Head(waitList)>> /\ lapsed' = {}
    BY <1>3 DEF ClaimNext, RPush
  <2>2. /\ Head(waitList) \in Exe /\ Tail(waitList) \in Seq(Exe)
        /\ Distinct(Tail(waitList)) /\ Head(waitList) \notin Members(Tail(waitList))
        /\ waitList = <<Head(waitList)>> \o Tail(waitList)
    BY <1>1, <1>3, PopList
  <2>3. HolderInv' /\ Line' = <<Head(waitList)>> \o waitList'
    BY <2>1, <2>2, NextHeld
  <2> QED
    BY <1>2, <2>1, <2>2, <2>3 DEF Fifo!Leave
<1>4. CASE waitList = <<>>
  <2>1. holders' = {} /\ waitList' = <<>> /\ processing' = <<>> /\ lapsed' = {}
    BY <1>4 DEF ClaimNext
  <2>2. HolderInv' /\ Line' = <<>>
    BY <1>1, <1>4, <2>1, NextFree
  <2> QED
    BY <1>2, <1>4, <2>2 DEF Fifo!Leave
<1> QED
  BY <1>3, <1>4

\* The holder goes back to the head and is promoted again at once.
LEMMA StayRefines ==
  ASSUME HolderInv, NEW h \in Exe, HeldBy(h), NEW next,
         ClaimNext({}, LPushIfAbsent(waitList, h), <<>>, next)
  PROVE  /\ HolderInv' /\ Line' = Line
         /\ next = h /\ holders' = {h} /\ waitList' = waitList /\ processing' = <<h>>
<1>1. /\ Line = <<h>> \o waitList /\ waitList \in Seq(Exe) /\ Distinct(waitList)
      /\ h \notin Members(waitList)
  BY LineWhenHeld DEF HolderInv, HeldBy
<1>2. LPushIfAbsent(waitList, h) = <<h>> \o waitList
  BY <1>1 DEF LPushIfAbsent, LPush
<1>3. /\ <<h>> \o waitList # <<>>
      /\ Head(<<h>> \o waitList) = h
      /\ Tail(<<h>> \o waitList) = waitList
  BY <1>1
<1>4. /\ holders' = {h} /\ waitList' = waitList /\ processing' = <<h>>
      /\ lapsed' = {} /\ next = h
  <2> DEFINE w == <<h>> \o waitList
  <2>1. w # <<>> /\ Head(w) = h /\ Tail(w) = waitList
    BY <1>3
  <2>2. ClaimNext({}, w, <<>>, next)
    BY <1>2
  <2> HIDE DEF w
  <2>3. /\ next = Head(w) /\ holders' = {next} /\ waitList' = Tail(w)
        /\ processing' = RPush(<<>>, next) /\ lapsed' = {}
    BY <2>1, <2>2 DEF ClaimNext
  <2>4. RPush(<<>>, h) = <<h>>
    BY DEF RPush
  <2> QED
    BY <2>1, <2>3, <2>4
<1>5. HolderInv' /\ Line' = <<h>> \o waitList'
  BY <1>1, <1>4, NextHeld
<1> QED
  BY <1>1, <1>4, <1>5

\* What the four scripts of the holder leave for ClaimNext.
LEMMA HolderGivesBack ==
  ASSUME HolderInv, NEW e \in holders
  PROVE  /\ e \in Exe /\ HeldBy(e)
         /\ Live \ {e} = {} /\ LRem(processing, e) = <<>>
<1>1. PICK h \in Exe : HeldBy(h)
  BY DEF HolderInv, Free
<1>2. e = h /\ Live = {h} /\ processing \in {<<>>, <<h>>}
  BY <1>1 DEF HeldBy, HolderInv, Live
<1> QED
  BY <1>1, <1>2, ClaimsAfterLRem

\* Recovery finds nothing to reclaim, and promotes only into a free slot.
LEMMA RecoveryRefines ==
  ASSUME HolderInv, ReclaimOrphans \/ Releases(NoExe)
  PROVE  HolderInv' /\ Line' = Line
<1>1. Live = holders /\ waitList \in Seq(Exe)
  BY DEF HolderInv, Live
<1>2. CASE Free
  <2>1. <<>> \o waitList = waitList /\ LRem(<<>>, NoExe) = <<>>
    <3>1. /\ LRem(<<>>, NoExe) \in Seq(Exe)
          /\ Members(LRem(<<>>, NoExe)) = Members(<<>>) \ {NoExe}
      BY EmptyList, LRemProperties
    <3>2. Members(LRem(<<>>, NoExe)) = {}
      BY <3>1, EmptyList
    <3> QED
      BY <3>1, <3>2, EmptyList
  <2>2. CASE ReclaimOrphans \/ waitList = <<>>
    <3>1. /\ holders' = {} /\ waitList' = waitList /\ processing' = <<>>
          /\ lapsed' = {}
      BY <1>1, <1>2, <2>1, <2>2
         DEF Free, ReclaimOrphans, Releases, ReleaseSlotAndPopNext, ClaimNext
    <3>2. HolderInv' /\ Line' = waitList
      BY <1>1, <1>2, <3>1, NextFree DEF Free
    <3> QED
      BY <1>2, <3>2, LineWhenFree
  <2>3. CASE Releases(NoExe) /\ waitList # <<>>
    <3>0. PICK next : ClaimNext({}, waitList, <<>>, next)
      BY <1>1, <1>2, <2>1, <2>3 DEF Free, Releases, ReleaseSlotAndPopNext
    <3>1. /\ holders' = {Head(waitList)} /\ waitList' = Tail(waitList)
          /\ processing' = <<Head(waitList)>> /\ lapsed' = {}
      BY <2>3, <3>0 DEF ClaimNext, RPush
    <3>2. /\ Head(waitList) \in Exe /\ Tail(waitList) \in Seq(Exe)
          /\ Distinct(Tail(waitList)) /\ Head(waitList) \notin Members(Tail(waitList))
          /\ waitList = <<Head(waitList)>> \o Tail(waitList)
      BY <1>1, <1>2, <2>3, PopList DEF Free
    <3>3. HolderInv' /\ Line' = <<Head(waitList)>> \o waitList'
      BY <3>1, <3>2, NextHeld
    <3> QED
      BY <1>2, <3>1, <3>2, <3>3, LineWhenFree
  <2> QED
    BY <2>2, <2>3
<1>3. ASSUME NEW h \in Exe, HeldBy(h) PROVE HolderInv' /\ Line' = Line
  <2>1. /\ holders = {h} /\ h \notin Members(waitList) /\ Distinct(waitList)
        /\ processing \in {<<>>, <<h>>} /\ Line = <<h>> \o waitList
    BY <1>3, LineWhenHeld DEF HeldBy
  <2>2. Live \ {NoExe} = {h}
    BY <1>1, <2>1, NoExeAssumption
  <2>3. LRem(processing, NoExe) \in {<<>>, <<h>>}
    BY <2>1, ClaimsAfterLRem
  <2>4. /\ holders' = {h} /\ waitList' = waitList
        /\ processing' \in {<<>>, <<h>>} /\ lapsed' = {}
    <3>1. CASE ReclaimOrphans
      BY <1>1, <2>1, <3>1 DEF ReclaimOrphans
    <3>2. CASE Releases(NoExe)
      <4>1. PICK next \in ExeOrNone :
              ClaimNext({h}, waitList, LRem(processing, NoExe), next)
        BY <2>2, <3>2 DEF Releases, ReleaseSlotAndPopNext
      <4> QED
        BY <2>3, <4>1 DEF ClaimNext
    <3> QED
      BY <3>1, <3>2
  <2>5. HolderInv' /\ Line' = <<h>> \o waitList'
    BY <1>1, <2>1, <2>4, NextHeld
  <2> QED
    BY <2>1, <2>4, <2>5
<1> QED
  BY <1>2, <1>3 DEF HolderInv

\* A step of the abstract line, or none.
FifoStep == (\E e \in Exe : Fifo!Join(e)) \/ Fifo!Leave \/ Line' = Line

LEMMA HolderStep ==
  ASSUME HolderInv, [HolderNext]_lockVars
  PROVE  HolderInv' /\ FifoStep
<1>1. CASE UNCHANGED lockVars
  BY <1>1 DEF lockVars, HolderInv, Free, HeldBy, FifoStep, Line
<1>2. ASSUME NEW e \in Exe, Tries(e) PROVE HolderInv' /\ FifoStep
  BY <1>2, TryRefines DEF Tries, FifoStep
<1>3. ASSUME NEW e \in Exe, RenewLease(e) \/ AttemptsExpire(e)
      PROVE  HolderInv' /\ FifoStep
  <2>1. /\ holders' = holders /\ waitList' = waitList /\ processing' = processing
        /\ lapsed' = {}
    BY <1>3 DEF RenewLease, AttemptsExpire, HolderInv
  <2> QED
    BY <2>1 DEF HolderInv, Free, HeldBy, FifoStep, Line
<1>4. ASSUME NEW e \in holders, Releases(e) \/ Exhausts(e)
      PROVE  HolderInv' /\ FifoStep
  <2>1. PICK next \in ExeOrNone : ClaimNext({}, waitList, <<>>, next)
    BY <1>4, HolderGivesBack
       DEF Releases, ReleaseSlotAndPopNext, Exhausts, FailAttemptAndClaimNext
  <2> QED
    BY <2>1, HolderGivesBack, LeaveRefines DEF FifoStep
<1>5. ASSUME NEW e \in holders, Requeues(e) \/ Retries(e)
      PROVE  HolderInv' /\ FifoStep
  <2>1. PICK next \in ExeOrNone : ClaimNext({}, LPushIfAbsent(waitList, e), <<>>, next)
    BY <1>5, HolderGivesBack
       DEF Requeues, RequeueAtHeadAndClaimNext, Retries, FailAttemptAndClaimNext
  <2> QED
    BY <2>1, HolderGivesBack, StayRefines DEF FifoStep
<1> QED
  BY <1>1, <1>2, <1>3, <1>4, <1>5, RecoveryRefines DEF HolderNext, FifoStep

\* For any executions and number of attempts: with consumers that give back
\* only the slot they hold, and keep its lease, the routine's executions are
\* served as one line.  Nobody overtakes, joins twice or vanishes, and a
\* failed or deferred execution keeps its place at the head.
THEOREM ScriptsImplementFifo == HolderSpec => ImplementsFifo
<1>1. LockInit => HolderInv /\ Fifo!FifoInit
  BY HolderInit
<1>2. HolderInv /\ [HolderNext]_lockVars => HolderInv'
  BY HolderStep
<1>3. HolderInv /\ [HolderNext]_lockVars => [Fifo!FifoNext]_Line
  BY HolderStep DEF FifoStep, Fifo!FifoNext
<1> QED
  BY <1>1, <1>2, <1>3, PTL DEF HolderSpec, ImplementsFifo, Fifo!FifoSpec

-----------------------------------------------------------------------------
(* The life of the executions.                                              *)

LEMMA TaskFacts ==
  ASSUME NEW w \in Worker, NEW e \in Exe
  PROVE  /\ Message(w, e) \in Task /\ Drain(w, e) \in Task
         /\ KindOf(Message(w, e)) = "message" /\ KindOf(Drain(w, e)) = "drain"
         /\ WorkerOf(Message(w, e)) = w /\ WorkerOf(Drain(w, e)) = w
         /\ ExeOf(Message(w, e)) = e /\ ExeOf(Drain(w, e)) = e
BY DEF Message, Drain, Task, KindOf, WorkerOf, ExeOf

LEMMA TaskParts ==
  ASSUME NEW t \in Task
  PROVE  WorkerOf(t) \in Worker /\ ExeOf(t) \in Exe /\ KindOf(t) \in {"message", "drain"}
BY DEF Task, KindOf, WorkerOf, ExeOf

-----------------------------------------------------------------------------
(* What the scripts do to the types and to the live members of the ZSET.    *)

\* e is not a live member any more; the head of the line may be promoted, but
\* only when nobody else is.
Hands(e, next) ==
  \/ next = NoExe /\ Live' = Live \ {e}
  \/ next \in Exe /\ Live \ {e} = {} /\ Live' = {next}

LEMMA ClaimHands ==
  ASSUME LockTypeOK, NEW e, NEW waiting \in Seq(Exe), NEW claimed \in Seq(Exe), NEW next,
         ClaimNext(Live \ {e}, waiting, claimed, next)
  PROVE  /\ holders' \subseteq Exe /\ lapsed' \subseteq holders'
         /\ waitList' \in Seq(Exe) /\ processing' \in Seq(Exe)
         /\ next \in ExeOrNone
         /\ Hands(e, next)
<1>1. Live \subseteq Exe
  BY DEF LockTypeOK, Live
<1>2. CASE /\ Live \ {e} = {} /\ waiting # <<>>
           /\ next = Head(waiting)
           /\ holders' = {next}
           /\ waitList' = Tail(waiting)
           /\ processing' = RPush(claimed, next)
  <2>1. next \in Exe /\ Tail(waiting) \in Seq(Exe)
    BY <1>2, PopList
  <2>2. RPush(claimed, next) \in Seq(Exe)
    BY <2>1, PushList
  <2>3. lapsed' = {}
    BY DEF ClaimNext
  <2> QED
    BY <1>2, <2>1, <2>2, <2>3 DEF ExeOrNone, Hands, Live
<1>3. CASE /\ Live \ {e} # {} \/ waiting = <<>>
           /\ next = NoExe
           /\ holders' = Live \ {e}
           /\ waitList' = waiting
           /\ processing' = claimed
  <2>1. lapsed' = {}
    BY DEF ClaimNext
  <2> QED
    BY <1>1, <1>3, <2>1 DEF ExeOrNone, Hands, Live
<1> QED
  BY <1>2, <1>3 DEF ClaimNext

LEMMA ListTypes ==
  ASSUME LockTypeOK, NEW e
  PROVE  /\ LRem(processing, e) \in Seq(Exe)
         /\ waitList \in Seq(Exe)
         /\ e \in Exe => LPushIfAbsent(waitList, e) \in Seq(Exe)
<1>1. processing \in Seq(Exe) /\ waitList \in Seq(Exe)
  BY DEF LockTypeOK
<1>2. LRem(processing, e) \in Seq(Exe)
  BY <1>1, LRemProperties
<1>3. e \in Exe => LPush(waitList, e) \in Seq(Exe)
  BY <1>1, PushList
<1> QED
  BY <1>1, <1>2, <1>3 DEF LPushIfAbsent

LEMMA ReleaseHands ==
  ASSUME LockTypeOK, NEW e, NEW next, ReleaseSlotAndPopNext(e, next)
  PROVE  LockTypeOK' /\ Hands(e, next) /\ next \in ExeOrNone
<1>1. /\ ClaimNext(Live \ {e}, waitList, LRem(processing, e), next)
      /\ attempts' = attempts
  BY DEF ReleaseSlotAndPopNext
<1>2. LRem(processing, e) \in Seq(Exe) /\ waitList \in Seq(Exe)
  BY ListTypes
<1>3. /\ holders' \subseteq Exe /\ lapsed' \subseteq holders'
      /\ waitList' \in Seq(Exe) /\ processing' \in Seq(Exe)
      /\ next \in ExeOrNone /\ Hands(e, next)
  BY <1>1, <1>2, ClaimHands
<1> QED
  BY <1>1, <1>3 DEF LockTypeOK

LEMMA RequeueHands ==
  ASSUME LockTypeOK, NEW e \in Exe, NEW next, RequeueAtHeadAndClaimNext(e, next)
  PROVE  LockTypeOK' /\ Hands(e, next) /\ next \in ExeOrNone
<1>1. /\ ClaimNext(Live \ {e}, LPushIfAbsent(waitList, e), LRem(processing, e), next)
      /\ attempts' = attempts
  BY DEF RequeueAtHeadAndClaimNext
<1>2. LRem(processing, e) \in Seq(Exe) /\ LPushIfAbsent(waitList, e) \in Seq(Exe)
  BY ListTypes
<1>3. /\ holders' \subseteq Exe /\ lapsed' \subseteq holders'
      /\ waitList' \in Seq(Exe) /\ processing' \in Seq(Exe)
      /\ next \in ExeOrNone /\ Hands(e, next)
  BY <1>1, <1>2, ClaimHands
<1> QED
  BY <1>1, <1>3 DEF LockTypeOK

LEMMA FailHands ==
  ASSUME LockTypeOK, NEW e \in Exe, NEW exhausted \in BOOLEAN, NEW next,
         FailAttemptAndClaimNext(e, exhausted, next)
  PROVE  LockTypeOK' /\ Hands(e, next) /\ next \in ExeOrNone
<1> DEFINE waiting == IF exhausted THEN waitList ELSE LPushIfAbsent(waitList, e)
<1>1. /\ exhausted = (attempts[e] + 1 >= MaxAttempts)
      /\ attempts' = [attempts EXCEPT ![e] = IF exhausted THEN 0 ELSE @ + 1]
      /\ ClaimNext(Live \ {e}, waiting, LRem(processing, e), next)
  BY DEF FailAttemptAndClaimNext
<1>2. LRem(processing, e) \in Seq(Exe) /\ waiting \in Seq(Exe)
  BY ListTypes
<1> HIDE DEF waiting
<1>3. /\ holders' \subseteq Exe /\ lapsed' \subseteq holders'
      /\ waitList' \in Seq(Exe) /\ processing' \in Seq(Exe)
      /\ next \in ExeOrNone /\ Hands(e, next)
  BY <1>1, <1>2, ClaimHands
<1>4. attempts' \in [Exe -> 0..(MaxAttempts - 1)]
  BY <1>1, AttemptsStayBelow
<1> QED
  BY <1>3, <1>4 DEF LockTypeOK

\* Whoever acquires the slot found nobody alive; otherwise nobody's lease is
\* touched.
LEMMA TryTakes ==
  ASSUME LockTypeOK, NEW e \in Exe, NEW acquired \in BOOLEAN,
         TryAcquireOrEnqueue(e, acquired)
  PROVE  /\ LockTypeOK'
         /\ acquired => Live = {} /\ Live' = {e}
         /\ ~acquired => Live' = Live
<1>1. waitList \in Seq(Exe) /\ RPush(waitList, e) \in Seq(Exe)
  BY PushList DEF LockTypeOK
<1>2. Live \subseteq Exe
  BY DEF LockTypeOK, Live
<1> DEFINE known == e \in Live \cup Members(waitList) \cup Members(processing)
           free  == Live = {} /\ waitList = <<>>
<1>3. /\ acquired = (~known /\ free)
      /\ holders' = IF acquired THEN {e} ELSE Live
      /\ waitList' = IF known \/ free THEN waitList ELSE RPush(waitList, e)
      /\ lapsed' = {} /\ processing' = processing /\ attempts' = attempts
  BY DEF TryAcquireOrEnqueue
<1> HIDE DEF known
<1>4. LockTypeOK'
  BY <1>1, <1>2, <1>3 DEF LockTypeOK
<1> QED
  BY <1>3, <1>4 DEF Live

LEMMA ReclaimKeepsLive ==
  ASSUME LockTypeOK, ReclaimOrphans
  PROVE  LockTypeOK' /\ Live' = Live
<1>1. processing \o waitList \in Seq(Exe) /\ <<>> \in Seq(Exe)
  BY ConcatList DEF LockTypeOK
<1>2. Live \subseteq Exe
  BY DEF LockTypeOK, Live
<1> QED
  BY <1>1, <1>2 DEF ReclaimOrphans, LockTypeOK, Live
-----------------------------------------------------------------------------
(* Types.                                                                   *)

LEMMA TypeInit == Init => TypeOK
<1> SUFFICES ASSUME Init PROVE TypeOK
  OBVIOUS
<1>1. <<>> \in Seq(Exe) /\ 0 \in 0..(MaxAttempts - 1)
  BY EmptyList, MaxAttemptsAssumption
<1>2. LockTypeOK
  BY <1>1 DEF Init, LockInit, LockTypeOK
<1> QED
  BY <1>2, FaultsAssumption
     DEF Init, TypeOK, Status, Final, PC, ExeOrNone, WatchdogStep, Waiting

\* A fault leaves fewer of them.
LEMMA FaultType ==
  ASSUME TypeOK, NEW kind, Fault(kind)
  PROVE  faults' \in 0..MaxFaults
BY FaultsAssumption DEF TypeOK, Fault

\* The lock changes, or not, to a state of its type.
LEMMA LockStutters ==
  ASSUME TypeOK, UNCHANGED lockVars
  PROVE  LockTypeOK'
BY DEF TypeOK, LockTypeOK, lockVars

LEMMA GotoType ==
  ASSUME TypeOK, NEW t \in Task, NEW label \in PC, Goto(t, label)
  PROVE  pc' \in [Task -> PC]
BY DEF TypeOK, Goto

LEMMA SetLogType ==
  ASSUME TypeOK, NEW e \in Exe, NEW status \in Status, SetLog(e, status)
  PROVE  log' \in [Exe -> Status]
BY DEF TypeOK, SetLog

LEMMA StartDrainType ==
  ASSUME NEW p \in [Task -> PC], NEW w \in Worker, NEW next \in ExeOrNone,
         StartDrain(p, w, next)
  PROVE  pc' \in [Task -> PC]
<1>1. next \in Exe => Drain(w, next) \in Task
  BY TaskFacts
<1> QED
  BY <1>1 DEF StartDrain, ExeOrNone, PC

LEMMA ProceedType ==
  ASSUME TypeOK, NEW t \in Task, NEW next \in ExeOrNone, Proceed(t, next)
  PROVE  pc' \in [Task -> PC]
<1>1. [pc EXCEPT ![t] = IF KindOf(t) = "message" THEN "ack" ELSE "idle"] \in [Task -> PC]
  BY DEF TypeOK, PC
<1> QED
  BY <1>1, StartDrainType, TaskParts DEF Proceed

LEMMA MessageTypes ==
  ASSUME TypeOK, NEW w \in Worker, NEW e \in Exe,
         Deliver(w, e) \/ MessageStep(w, e)
  PROVE  TypeOK'
<1>0. Message(w, e) \in Task
  BY TaskFacts
<1>1. CASE Deliver(w, e)
  BY <1>0, <1>1, LockStutters, GotoType DEF Deliver, TypeOK, PC
<1>2. CASE CheckMessage(w, e)
  <2>1. pc' \in [Task -> PC]
    BY <1>0, <1>2, GotoType DEF CheckMessage, PC, Goto
  <2>2. faults' \in 0..MaxFaults
    BY <1>2, FaultType DEF CheckMessage, TypeOK
  <2> QED
    BY <1>0, <1>2, <2>1, <2>2, LockStutters DEF CheckMessage, TypeOK
<1>3. CASE EnqueueSerial(w, e)
  <2>1. pc' \in [Task -> PC]
    BY <1>0, <1>3, GotoType DEF EnqueueSerial, PC, AfterUnlock
  <2>2. faults' \in 0..MaxFaults
    BY <1>3, FaultType DEF EnqueueSerial, TypeOK
  <2>3. LockTypeOK'
    BY <1>3, LockStutters, TryTakes DEF EnqueueSerial, TypeOK
  <2> QED
    BY <1>3, <2>1, <2>2, <2>3 DEF EnqueueSerial, TypeOK
<1>4. CASE MarkWaiting(w, e)
  <2>1. pc' \in [Task -> PC]
    BY <1>0, <1>4, GotoType DEF MarkWaiting, PC, AfterUnlock
  <2>2. faults' \in 0..MaxFaults
    BY <1>4, FaultType DEF MarkWaiting, TypeOK
  <2>3. log' \in [Exe -> Status]
    BY <1>4, SetLogType DEF MarkWaiting, TypeOK, Status, Waiting
  <2> QED
    BY <1>4, <2>1, <2>2, <2>3, LockStutters DEF MarkWaiting, TypeOK
<1>5. CASE Settle(w, e)
  BY <1>0, <1>5, LockStutters, GotoType DEF Settle, TypeOK, PC
<1> QED
  BY <1>1, <1>2, <1>3, <1>4, <1>5 DEF MessageStep

LEMMA DrainTypes ==
  ASSUME TypeOK, NEW w \in Worker, NEW e \in Exe, DrainStep(w, e)
  PROVE  TypeOK'
<1>0. Drain(w, e) \in Task
  BY TaskFacts
<1>1. CASE CheckDrain(w, e)
  <2>1. pc' \in [Task -> PC]
    BY <1>0, <1>1, GotoType DEF CheckDrain, PC
  <2>2. faults' \in 0..MaxFaults
    BY <1>1, FaultType DEF CheckDrain, TypeOK
  <2> QED
    BY <1>1, <2>1, <2>2, LockStutters DEF CheckDrain, TypeOK
<1>2. CASE TakeSlot(w, e)
  <2>1. pc' \in [Task -> PC]
    BY <1>0, <1>2, GotoType DEF TakeSlot, PC, AfterUnlock
  <2>2. faults' \in 0..MaxFaults
    BY <1>2, FaultType DEF TakeSlot, TypeOK
  <2>3. log' \in [Exe -> Status]
    BY <1>2, SetLogType DEF TakeSlot, TypeOK, Status
  <2> QED
    BY <1>2, <2>1, <2>2, <2>3, LockStutters DEF TakeSlot, TypeOK
<1>3. CASE RequeueAtHead(w, e)
  <2>1. PICK next \in ExeOrNone :
          RequeueAtHeadAndClaimNext(e, next) /\ Proceed(Drain(w, e), next)
    BY <1>3 DEF RequeueAtHead
  <2>2. LockTypeOK'
    BY <2>1, RequeueHands DEF TypeOK
  <2>3. pc' \in [Task -> PC]
    BY <1>0, <2>1, ProceedType
  <2> QED
    BY <1>3, <2>2, <2>3 DEF RequeueAtHead, TypeOK
<1> QED
  BY <1>1, <1>2, <1>3 DEF DrainStep

LEMMA CommonTypes ==
  ASSUME TypeOK, NEW t \in Task, CommonStep(t)
  PROVE  TypeOK'
<1>0. ExeOf(t) \in Exe /\ WorkerOf(t) \in Worker
  BY TaskParts
<1>1. CASE AcquireRunningLock(t)
  <2>1. pc' \in [Task -> PC]
    BY <1>1, GotoType DEF AcquireRunningLock, PC
  <2>2. faults' \in 0..MaxFaults
    BY <1>1, FaultType DEF AcquireRunningLock, TypeOK
  <2>3. running' \in [Exe -> Worker \cup {NoWorker}]
    BY <1>0, <1>1 DEF AcquireRunningLock, TypeOK
  <2> QED
    BY <1>1, <2>1, <2>2, <2>3, LockStutters DEF AcquireRunningLock, TypeOK
<1>2. CASE FinishRun(t)
  <2>1. pc' \in [Task -> PC]
    BY <1>2, GotoType DEF FinishRun, PC, AfterUnlock
  <2>2. faults' \in 0..MaxFaults
    BY <1>2, FaultType DEF FinishRun, TypeOK
  <2>3. log' \in [Exe -> Status]
    <3>1. {"SUCESSO", "ERRO", "CANCELADO"} \subseteq Status
      BY DEF Status, Final
    <3> QED
      BY <1>0, <1>2, <3>1, SetLogType DEF FinishRun, TypeOK
  <2> QED
    BY <1>2, <2>1, <2>2, <2>3, LockStutters DEF FinishRun, TypeOK
<1>3. CASE ReleaseRunningLock(t)
  <2>1. pc' \in [Task -> PC]
    BY <1>3, GotoType DEF ReleaseRunningLock, PC, AfterUnlock
  <2>2. faults' \in 0..MaxFaults
    BY <1>3, FaultType DEF ReleaseRunningLock, TypeOK
  <2>3. running' \in [Exe -> Worker \cup {NoWorker}]
    BY <1>0, <1>3 DEF ReleaseRunningLock, TypeOK
  <2> QED
    BY <1>3, <2>1, <2>2, <2>3, LockStutters DEF ReleaseRunningLock, TypeOK
<1>4. CASE ReleaseSlot(t)
  <2>1. PICK next \in ExeOrNone : ReleaseSlotAndPopNext(ExeOf(t), next) /\ Proceed(t, next)
    BY <1>4 DEF ReleaseSlot
  <2>2. LockTypeOK'
    BY <2>1, ReleaseHands DEF TypeOK
  <2>3. pc' \in [Task -> PC]
    BY <2>1, ProceedType
  <2> QED
    BY <1>4, <2>2, <2>3 DEF ReleaseSlot, TypeOK
<1>5. CASE FailAttempt(t)
  <2>1. PICK exhausted \in BOOLEAN, next \in ExeOrNone :
          /\ FailAttemptAndClaimNext(ExeOf(t), exhausted, next)
          /\ Goto(t, IF exhausted THEN "finalize" ELSE "remark")
          /\ granted' = [granted EXCEPT ![t] = next]
    BY <1>5 DEF FailAttempt
  <2>2. LockTypeOK'
    BY <1>0, <2>1, FailHands DEF TypeOK
  <2>3. pc' \in [Task -> PC]
    BY <2>1, GotoType DEF PC
  <2>4. granted' \in [Task -> ExeOrNone]
    BY <2>1 DEF TypeOK
  <2> QED
    BY <1>5, <2>2, <2>3, <2>4 DEF FailAttempt, TypeOK
<1>6. CASE RecordFailure(t)
  <2>1. granted[t] \in ExeOrNone
    BY DEF TypeOK
  <2>2. pc' \in [Task -> PC]
    BY <1>6, <2>1, ProceedType DEF RecordFailure
  <2>3. log' \in [Exe -> Status]
    BY <1>0, <1>6, SetLogType DEF RecordFailure, TypeOK, Status, Waiting, Final
  <2>4. faults' \in 0..MaxFaults
    BY <1>6, FaultType DEF RecordFailure, TypeOK
  <2>5. granted' \in [Task -> ExeOrNone]
    BY <1>6 DEF RecordFailure, TypeOK, ExeOrNone
  <2> QED
    BY <1>6, <2>2, <2>3, <2>4, <2>5, LockStutters DEF RecordFailure, TypeOK
<1>7. CASE ScriptFails(t)
  <2>1. pc' \in [Task -> PC]
    BY <1>7, GotoType DEF ScriptFails, PC
  <2>2. faults' \in 0..MaxFaults
    BY <1>7, FaultType DEF ScriptFails
  <2>3. LockTypeOK'
    BY <1>0, <1>7, LockStutters, ReleaseHands, RequeueHands, FailHands DEF ScriptFails, TypeOK
  <2> QED
    BY <1>7, <2>1, <2>2, <2>3 DEF ScriptFails, TypeOK
<1> QED
  BY <1>1, <1>2, <1>3, <1>4, <1>5, <1>6, <1>7 DEF CommonStep

LEMMA UnawaitedTypes ==
  ASSUME TypeOK, NEW t \in Task, Unawaited(t)
  PROVE  TypeOK'
<1>0. ExeOf(t) \in Exe
  BY TaskParts
<1>1. CASE HardTimeout(t)
  <2>1. pc' \in [Task -> PC]
    BY <1>1, GotoType DEF HardTimeout, PC, AfterUnlock
  <2>2. left' \subseteq Task \X LeftKind
    BY <1>1 DEF HardTimeout, TypeOK, LeftKind
  <2> QED
    BY <1>1, <2>1, <2>2, LockStutters, FaultType DEF HardTimeout, TypeOK
<1>2. ASSUME NEW kind \in LeftKind, LeftRunEnds(t, kind) PROVE TypeOK'
  <2>1. log' \in [Exe -> Status]
    <3>1. {"SUCESSO", "ERRO", "CANCELADO"} \subseteq Status
      BY DEF Status, Final
    <3> QED
      BY <1>0, <1>2, <3>1, SetLogType DEF LeftRunEnds, TypeOK
  <2>2. faults' \in 0..MaxFaults
    BY <1>2, FaultType DEF LeftRunEnds, TypeOK
  <2> QED
    BY <1>2, <2>1, <2>2, LockStutters DEF LeftRunEnds, TypeOK
<1> QED
  BY <1>1, <1>2 DEF Unawaited

LEMMA WorkerTypes ==
  ASSUME TypeOK, NEW w \in Worker,
         Recover(w) \/ Crash(w) \/ Restart(w) \/ ChannelLoss(w)
  PROVE  TypeOK'
<1>1. CASE RecoverReclaim(w)
  BY <1>1, ReclaimKeepsLive DEF RecoverReclaim, TypeOK
<1>2. CASE RecoverPromote(w)
  <2>1. PICK next \in ExeOrNone :
          ReleaseSlotAndPopNext(NoExe, next) /\ StartDrain(pc, w, next)
    BY <1>2 DEF RecoverPromote
  <2>2. LockTypeOK'
    BY <2>1, ReleaseHands DEF TypeOK
  <2>3. pc' \in [Task -> PC]
    BY <2>1, StartDrainType DEF TypeOK
  <2> QED
    BY <1>2, <2>2, <2>3 DEF RecoverPromote, TypeOK
<1>3. CASE Crash(w)
  <2>1. faults' \in 0..MaxFaults
    BY <1>3, FaultType DEF Crash
  <2>2. pc' \in [Task -> PC] /\ granted' \in [Task -> ExeOrNone]
    BY <1>3 DEF Crash, TypeOK, PC, ExeOrNone
  <2>3. left' \subseteq Task \X LeftKind
    BY <1>3 DEF Crash, TypeOK, LeftKind
  <2> QED
    BY <1>3, <2>1, <2>2, <2>3, LockStutters DEF Crash, TypeOK
<1>4. CASE Restart(w)
  BY <1>4, LockStutters DEF Restart, TypeOK
<1>5. CASE ChannelLoss(w)
  BY <1>5, LockStutters, FaultType DEF ChannelLoss, TypeOK
<1> QED
  BY <1>1, <1>2, <1>3, <1>4, <1>5 DEF Recover

LEMMA WatchdogTypes ==
  ASSUME TypeOK, NEW e \in Exe, Watchdog(e)
  PROVE  TypeOK'
<1>1. waitList \in Seq(Exe) /\ RPush(waitList, e) \in Seq(Exe)
  BY PushList DEF TypeOK, LockTypeOK
<1>2. ASSUME NEW from, NEW to \in WatchdogStep, WatchdogMoves(from, e, to),
             waitList' \in Seq(Exe)
      PROVE  TypeOK'
  <2>1. LockTypeOK'
    BY <1>2 DEF WatchdogMoves, TypeOK, LockTypeOK
  <2>2. watchdog' \in [step : WatchdogStep, exe : ExeOrNone, stuck : SUBSET Exe]
    BY <1>2 DEF WatchdogMoves, ExeOrNone, TypeOK
  <2> QED
    BY <1>2, <2>1, <2>2 DEF WatchdogMoves, TypeOK
<1>3. {"idle", "notWaiting", "absent"} \subseteq WatchdogStep
  BY DEF WatchdogStep
<1> QED
  BY <1>1, <1>2, <1>3
     DEF Watchdog, WatchdogLooksInWait, WatchdogLooksInProcessing, WatchdogPushes

LEMMA QueryTypes == TypeOK /\ WatchdogQuery => TypeOK'
BY LockStutters DEF WatchdogQuery, Stale, TypeOK

LEMMA EnvironmentTypes ==
  ASSUME TypeOK, NEW e \in Exe, Expiry(e) \/ Environment(e)
  PROVE  TypeOK'
<1>1. ASSUME LeaseLapses(e) \/ RenewLease(e) PROVE LockTypeOK'
  BY <1>1 DEF LeaseLapses, RenewLease, TypeOK, LockTypeOK
<1>2. CASE LeaseRunsOut(e)
  BY <1>1, <1>2 DEF LeaseRunsOut, TypeOK
<1>7. CASE Heartbeat(e)
  BY <1>1, <1>7 DEF Heartbeat, consumerVars, TypeOK
<1>8. CASE RowAges(e)
  <2>1. log' \in [Exe -> Status]
    BY <1>8, SetLogType DEF RowAges, Status, Waiting
  <2> QED
    BY <1>8, <2>1, LockStutters DEF RowAges, TypeOK
<1>3. CASE RunningLockExpires(e)
  BY <1>3, LockStutters DEF RunningLockExpires, TypeOK
<1>4. CASE Cancel(e)
  <2>1. log' \in [Exe -> Status]
    BY <1>4, SetLogType DEF Cancel, Status, Final
  <2> QED
    BY <1>4, <2>1, LockStutters, FaultType DEF Cancel, TypeOK
<1>5. CASE Stall(e)
  BY <1>1, <1>5, FaultType DEF Stall, TypeOK
<1>6. CASE AttemptsTtlEnds(e)
  <2>1. LockTypeOK'
    BY <1>6, MaxAttemptsAssumption DEF AttemptsTtlEnds, AttemptsExpire, TypeOK, LockTypeOK
  <2> QED
    BY <1>6, <2>1, FaultType DEF AttemptsTtlEnds, TypeOK
<1> QED
  BY <1>2, <1>3, <1>4, <1>5, <1>6, <1>7, <1>8 DEF Expiry, Environment

LEMMA NextKeepsTypes == TypeOK /\ [Next]_vars => TypeOK'
<1> SUFFICES ASSUME TypeOK, [Next]_vars PROVE TypeOK'
  OBVIOUS
<1>1. CASE UNCHANGED vars
  BY <1>1 DEF vars, lockVars, consumerVars, TypeOK, LockTypeOK
<1>2. CASE Next
  BY <1>2, MessageTypes, DrainTypes, CommonTypes, UnawaitedTypes, WorkerTypes, WatchdogTypes,
     QueryTypes, EnvironmentTypes DEF Next
<1> QED
  BY <1>1, <1>2

\* Every variable keeps its type, whatever faults happen.
THEOREM TypeCorrect == Spec => []TypeOK
  BY TypeInit, NextKeepsTypes, PTL DEF Spec

-----------------------------------------------------------------------------
(* Who owns the slot.                                                       *)

\* The program counters with which a task owns the slot of its execution.
Owning(t) ==
  {"run", "succeeded", "failed", "full", "release", "fail", "requeue"}
    \cup (IF KindOf(t) = "drain" THEN {"check", "lock", "slot"} ELSE {})

LEMMA OwnsBy ==
  ASSUME NEW t, NEW e
  PROVE  OwnsSlot(t, e) <=> (ExeOf(t) = e /\ pc[t] \in Owning(t)) \/ granted[t] = e
BY DEF OwnsSlot, Owning

LEMMA OwnsByAfter ==
  ASSUME NEW t, NEW e
  PROVE  OwnsSlot(t, e)' <=> (ExeOf(t) = e /\ pc'[t] \in Owning(t)) \/ granted'[t] = e
BY DEF OwnsSlot, Owning, ExeOf, KindOf

\* Inductive: one owner, of a slot that is alive in Redis; what a failed
\* attempt was answered is kept only until the failure is recorded.
SlotInv ==
  /\ \A t1, t2 \in Task, e1, e2 \in Exe :
       OwnsSlot(t1, e1) /\ OwnsSlot(t2, e2) => t1 = t2 /\ e1 = e2
  /\ \A t \in Task, e \in Exe : OwnsSlot(t, e) => e \in Live
  /\ \A t \in Task : granted[t] # NoExe => pc[t] \in {"remark", "finalize"}

Unowned(p, g) == \A u \in Task : p[u] \notin Owning(u) /\ g[u] = NoExe

LEMMA SlotInit == Init => SlotInv
<1> SUFFICES ASSUME Init PROVE SlotInv
  OBVIOUS
<1>1. \A t \in Task : pc[t] = "idle" /\ granted[t] = NoExe
  BY DEF Init
<1>2. \A t \in Task, e \in Exe : ~OwnsSlot(t, e)
  BY <1>1, NoExeAssumption DEF OwnsSlot
<1> QED
  BY <1>1, <1>2 DEF SlotInv

\* Nothing new is owned, and what is owned stays alive.
LEMMA FewerOwners ==
  ASSUME SlotInv,
         \A t \in Task, e \in Exe : OwnsSlot(t, e)' => OwnsSlot(t, e) /\ e \in Live',
         \A t \in Task : granted'[t] # NoExe => pc'[t] \in {"remark", "finalize"}
  PROVE  SlotInv'
BY DEF SlotInv

\* One task may own one slot, and that slot is alive.
LEMMA SoleOwner ==
  ASSUME NEW u \in Task, NEW x \in Exe, x \in Live',
         \A t \in Task, e \in Exe : OwnsSlot(t, e)' => t = u /\ e = x,
         \A t \in Task : granted'[t] # NoExe => pc'[t] \in {"remark", "finalize"}
  PROVE  SlotInv'
BY DEF SlotInv

\* With no live member there is no owner.
LEMMA FreeIsUnowned ==
  ASSUME TypeOK, SlotInv, Live = {}
  PROVE  Unowned(pc, granted)
<1> SUFFICES ASSUME NEW u \in Task PROVE pc[u] \notin Owning(u) /\ granted[u] = NoExe
  BY DEF Unowned
<1>1. \A e \in Exe : ~OwnsSlot(u, e)
  BY DEF SlotInv
<1>2. ExeOf(u) \in Exe /\ granted[u] \in ExeOrNone
  BY TaskParts DEF TypeOK
<1> QED
  BY <1>1, <1>2, OwnsBy DEF ExeOrNone

\* Beside an owner there is no other.
LEMMA OthersUnowned ==
  ASSUME TypeOK, SlotInv, NEW t \in Task, NEW e \in Exe, OwnsSlot(t, e)
  PROVE  \A u \in Task : u # t => pc[u] \notin Owning(u) /\ granted[u] = NoExe
<1> SUFFICES ASSUME NEW u \in Task, u # t
             PROVE  pc[u] \notin Owning(u) /\ granted[u] = NoExe
  OBVIOUS
<1>1. \A x \in Exe : ~OwnsSlot(u, x)
  BY DEF SlotInv
<1>2. ExeOf(u) \in Exe /\ granted[u] \in ExeOrNone
  BY TaskParts DEF TypeOK
<1> QED
  BY <1>1, <1>2, OwnsBy DEF ExeOrNone

\* A task that owns by its program counter is the only owner, and was granted
\* nothing.
LEMMA OwnerAlone ==
  ASSUME TypeOK, SlotInv, NEW t \in Task, pc[t] \in Owning(t)
  PROVE  /\ \A u \in Task : u # t => pc[u] \notin Owning(u)
         /\ \A u \in Task : granted[u] = NoExe
         /\ ExeOf(t) \in Live
<1>1. ExeOf(t) \in Exe
  BY TaskParts
<1>2. OwnsSlot(t, ExeOf(t))
  BY OwnsBy
<1>3. \A u \in Task : u # t => pc[u] \notin Owning(u) /\ granted[u] = NoExe
  BY <1>1, <1>2, OthersUnowned
<1>4. granted[t] = NoExe
  BY DEF SlotInv, Owning
<1> QED
  BY <1>1, <1>2, <1>3, <1>4 DEF SlotInv

\* A task goes on without taking the slot of its execution.
LEMMA GotoKeeps ==
  ASSUME TypeOK, SlotInv, NEW t \in Task, NEW label,
         Goto(t, label), granted' = granted, Live \subseteq Live',
         pc[t] \notin {"remark", "finalize"},
         label \in Owning(t) => pc[t] \in Owning(t)
  PROVE  SlotInv'
<1>1. pc'[t] = label /\ \A u \in Task : u # t => pc'[u] = pc[u]
  BY DEF Goto, TypeOK
<1>2. granted[t] = NoExe
  BY DEF SlotInv
<1>3. ASSUME NEW u \in Task, NEW e \in Exe, OwnsSlot(u, e)'
      PROVE  OwnsSlot(u, e) /\ e \in Live'
  <2>1. OwnsSlot(u, e)
    BY <1>1, <1>3, OwnsBy, OwnsByAfter
  <2> QED
    BY <2>1 DEF SlotInv
<1>4. \A u \in Task : granted'[u] # NoExe => pc'[u] \in {"remark", "finalize"}
  BY <1>1, <1>2 DEF SlotInv
<1> QED
  BY <1>3, <1>4, FewerOwners

\* Nobody owns anything after the step.
LEMMA NobodyOwns ==
  ASSUME Unowned(pc', granted')
  PROVE  SlotInv'
<1>1. \A t \in Task, e \in Exe : ~OwnsSlot(t, e)'
  BY OwnsByAfter, NoExeAssumption DEF Unowned
<1> QED
  BY <1>1 DEF SlotInv, Unowned

\* A drain is started where nobody owns anything, for a live execution.
LEMMA StartKeeps ==
  ASSUME NEW p \in [Task -> PC], NEW w \in Worker, NEW next \in ExeOrNone,
         Unowned(p, granted'), StartDrain(p, w, next),
         next \in Exe => next \in Live'
  PROVE  SlotInv'
<1>1. CASE next = NoExe
  BY <1>1, NobodyOwns DEF StartDrain
<1>2. CASE next \in Exe
  <2> DEFINE d == Drain(w, next)
  <2>1. d \in Task /\ ExeOf(d) = next
    BY <1>2, TaskFacts
  <2>2. \A u \in Task : u # d => pc'[u] = p[u]
    BY <1>2, <2>1, NoExeAssumption DEF StartDrain
  <2> HIDE DEF d
  <2>3. \A u \in Task, e \in Exe : OwnsSlot(u, e)' => u = d /\ e = next
    BY <2>1, <2>2, OwnsByAfter, NoExeAssumption DEF Unowned
  <2>4. \A u \in Task : granted'[u] = NoExe
    BY DEF Unowned
  <2> QED
    BY <1>2, <2>1, <2>3, <2>4, SoleOwner
<1> QED
  BY <1>1, <1>2 DEF ExeOrNone

\* An owner gives the slot back and starts the drain of whom it was answered.
LEMMA ProceedKeeps ==
  ASSUME TypeOK, SlotInv, NEW t \in Task, NEW next \in ExeOrNone,
         pc[t] \in Owning(t), granted' = granted,
         Hands(ExeOf(t), next), Proceed(t, next)
  PROVE  SlotInv'
<1> DEFINE p == [pc EXCEPT ![t] = IF KindOf(t) = "message" THEN "ack" ELSE "idle"]
<1>1. p \in [Task -> PC]
  BY DEF TypeOK, PC
<1>2. Unowned(p, granted')
  BY OwnerAlone DEF Unowned, TypeOK, Owning
<1>3. next \in Exe => next \in Live'
  BY NoExeAssumption DEF Hands
<1>4. StartDrain(p, WorkerOf(t), next)
  BY DEF Proceed
<1> HIDE DEF p
<1> QED
  BY <1>1, <1>2, <1>3, <1>4, StartKeeps, TaskParts

LEMMA LiveStutters ==
  ASSUME UNCHANGED lockVars
  PROVE  Live' = Live
BY DEF lockVars, Live

\* A step that leaves tasks and live members alone.
LEMMA ElsewhereKeeps ==
  ASSUME SlotInv, pc' = pc, granted' = granted, Live \subseteq Live'
  PROVE  SlotInv'
<1>1. \A t \in Task, e \in Exe : OwnsSlot(t, e)' => OwnsSlot(t, e)
  BY OwnsBy, OwnsByAfter
<1> QED
  BY <1>1, FewerOwners DEF SlotInv

LEMMA MessageSlots ==
  ASSUME TypeOK, SlotInv, NEW w \in Worker, NEW e \in Exe,
         Deliver(w, e) \/ MessageStep(w, e)
  PROVE  SlotInv'
<1> DEFINE t == Message(w, e)
<1>0. t \in Task /\ KindOf(t) = "message" /\ ExeOf(t) = e
  BY TaskFacts
<1>1. CASE Deliver(w, e)
  <2>1. Goto(t, "check") /\ pc[t] = "idle" /\ granted' = granted /\ Live' = Live
    BY <1>1, LiveStutters DEF Deliver
  <2> QED
    BY <1>0, <2>1, GotoKeeps DEF Owning
<1>2. CASE CheckMessage(w, e)
  <2>1. PICK label \in {"ack", "lock", "idle", "nack"} : Goto(t, label)
    BY <1>2 DEF CheckMessage
  <2>2. pc[t] = "check" /\ granted' = granted /\ Live' = Live
    BY <1>2, LiveStutters DEF CheckMessage
  <2> QED
    BY <1>0, <2>1, <2>2, GotoKeeps DEF Owning
<1>3. CASE EnqueueSerial(w, e)
  <2>0. pc[t] = "enqueue" /\ granted' = granted /\ LockTypeOK
    BY <1>3 DEF EnqueueSerial, TypeOK
  <2>1. CASE UNCHANGED lockVars /\ Goto(t, "enqueued")
    <3>1. Live' = Live
      BY <2>1, LiveStutters
    <3> QED
      BY <1>0, <2>0, <2>1, <3>1, GotoKeeps DEF Owning
  <2>2. ASSUME NEW acquired \in BOOLEAN, NEW label, TryAcquireOrEnqueue(e, acquired),
               Goto(t, label),
               label \in {"mark", "enqueued"} \/ (acquired /\ label = "run")
        PROVE  SlotInv'
    <3>1. CASE acquired
      <4>1. Live = {} /\ Live' = {e}
        BY <2>0, <2>2, <3>1, TryTakes
      <4>2. Unowned(pc, granted)
        BY <4>1, FreeIsUnowned
      <4>3. pc'[t] = label /\ \A u \in Task : u # t => pc'[u] = pc[u]
        BY <1>0, <2>2 DEF Goto, TypeOK
      <4> HIDE DEF t
      <4>4. \A u \in Task, x \in Exe : OwnsSlot(u, x)' => u = t /\ x = e
        BY <1>0, <2>0, <4>2, <4>3, OwnsByAfter, NoExeAssumption DEF Unowned
      <4>5. \A u \in Task : granted'[u] = NoExe
        BY <2>0, <4>2 DEF Unowned
      <4> QED
        BY <1>0, <4>1, <4>4, <4>5, SoleOwner
    <3>2. CASE ~acquired
      <4>1. Live' = Live
        BY <2>0, <2>2, <3>2, TryTakes
      <4> QED
        BY <1>0, <2>0, <2>2, <3>2, <4>1, GotoKeeps DEF Owning
    <3> QED
      BY <3>1, <3>2
  <2>3. CASE \E acquired \in BOOLEAN : /\ TryAcquireOrEnqueue(e, acquired)
                                       /\ Goto(t, IF acquired THEN "run" ELSE "mark")
    BY <2>2, <2>3
  <2>4. CASE /\ \E acquired \in BOOLEAN : TryAcquireOrEnqueue(e, acquired)
             /\ Goto(t, "enqueued") \/ Goto(t, "mark")
    BY <2>2, <2>4
  <2> QED
    BY <1>3, <2>1, <2>3, <2>4 DEF EnqueueSerial
<1>4. CASE MarkWaiting(w, e)
  <2>1. PICK label \in {"enqueued", "unmarked"} : Goto(t, label)
    BY <1>4 DEF MarkWaiting
  <2>2. pc[t] = "mark" /\ granted' = granted /\ Live' = Live
    BY <1>4, LiveStutters DEF MarkWaiting
  <2> QED
    BY <1>0, <2>1, <2>2, GotoKeeps DEF Owning
<1>5. CASE Settle(w, e)
  <2>1. Goto(t, "idle") /\ pc[t] \in {"ack", "nack"} /\ granted' = granted /\ Live' = Live
    BY <1>5, LiveStutters DEF Settle
  <2> QED
    BY <1>0, <2>1, GotoKeeps DEF Owning
<1> QED
  BY <1>1, <1>2, <1>3, <1>4, <1>5 DEF MessageStep

LEMMA DrainSlots ==
  ASSUME TypeOK, SlotInv, NEW w \in Worker, NEW e \in Exe, DrainStep(w, e)
  PROVE  SlotInv'
<1> DEFINE t == Drain(w, e)
<1>0. t \in Task /\ KindOf(t) = "drain" /\ ExeOf(t) = e
  BY TaskFacts
<1>1. CASE CheckDrain(w, e)
  <2>1. PICK label \in {"release", "lock"} : Goto(t, label)
    BY <1>1 DEF CheckDrain
  <2>2. pc[t] = "check" /\ granted' = granted /\ Live' = Live
    BY <1>1, LiveStutters DEF CheckDrain
  <2> QED
    BY <1>0, <2>1, <2>2, GotoKeeps DEF Owning
<1>2. CASE TakeSlot(w, e)
  <2>1. PICK label \in {"run", "full", "succeeded"} : Goto(t, label)
    BY <1>2 DEF TakeSlot
  <2>2. pc[t] = "slot" /\ granted' = granted /\ Live' = Live
    BY <1>2, LiveStutters DEF TakeSlot
  <2> QED
    BY <1>0, <2>1, <2>2, GotoKeeps DEF Owning
<1>3. CASE RequeueAtHead(w, e)
  <2>1. PICK next \in ExeOrNone : RequeueAtHeadAndClaimNext(e, next) /\ Proceed(t, next)
    BY <1>3 DEF RequeueAtHead
  <2>2. Hands(e, next)
    BY <2>1, RequeueHands DEF TypeOK
  <2>3. pc[t] \in Owning(t) /\ granted' = granted
    BY <1>3 DEF RequeueAtHead, Owning
  <2> HIDE DEF t
  <2> QED
    BY <1>0, <2>1, <2>2, <2>3, ProceedKeeps
<1> QED
  BY <1>1, <1>2, <1>3 DEF DrainStep

LEMMA CommonSlots ==
  ASSUME TypeOK, SlotInv, NEW t \in Task, CommonStep(t)
  PROVE  SlotInv'
<1>0. ExeOf(t) \in Exe /\ WorkerOf(t) \in Worker /\ KindOf(t) \in {"message", "drain"}
  BY TaskParts
<1>1. CASE AcquireRunningLock(t)
  <2>1. PICK label \in (IF KindOf(t) = "message" THEN {"enqueue", "ack"}
                                                ELSE {"slot", "release"}) :
          Goto(t, label)
    BY <1>1 DEF AcquireRunningLock
  <2>2. pc[t] = "lock" /\ granted' = granted /\ Live' = Live
    BY <1>1, LiveStutters DEF AcquireRunningLock
  <2> QED
    BY <1>0, <2>1, <2>2, GotoKeeps DEF Owning
<1>2. CASE FinishRun(t)
  <2>1. PICK label \in {"succeeded", "failed"} : Goto(t, label)
    BY <1>2 DEF FinishRun
  <2>2. pc[t] = "run" /\ granted' = granted /\ Live' = Live
    BY <1>2, LiveStutters DEF FinishRun
  <2> QED
    BY <2>1, <2>2, GotoKeeps DEF Owning
<1>3. CASE ReleaseRunningLock(t)
  <2>1. /\ Goto(t, AfterUnlock[pc[t]]) /\ pc[t] \in DOMAIN AfterUnlock
        /\ granted' = granted /\ Live' = Live
    BY <1>3, LiveStutters DEF ReleaseRunningLock
  <2>2. /\ pc[t] \notin {"remark", "finalize"}
        /\ AfterUnlock[pc[t]] \in Owning(t) => pc[t] \in Owning(t)
    BY <2>1 DEF AfterUnlock, Owning
  <2> QED
    BY <2>1, <2>2, GotoKeeps
<1>4. CASE ReleaseSlot(t)
  <2>1. PICK next \in ExeOrNone : ReleaseSlotAndPopNext(ExeOf(t), next) /\ Proceed(t, next)
    BY <1>4 DEF ReleaseSlot
  <2>2. Hands(ExeOf(t), next)
    BY <2>1, ReleaseHands DEF TypeOK
  <2>3. pc[t] \in Owning(t) /\ granted' = granted
    BY <1>4 DEF ReleaseSlot, Owning
  <2> QED
    BY <2>1, <2>2, <2>3, ProceedKeeps
<1>5. CASE FailAttempt(t)
  <2>1. PICK exhausted \in BOOLEAN, next \in ExeOrNone :
          /\ FailAttemptAndClaimNext(ExeOf(t), exhausted, next)
          /\ Goto(t, IF exhausted THEN "finalize" ELSE "remark")
          /\ granted' = [granted EXCEPT ![t] = next]
    BY <1>5 DEF FailAttempt
  <2>2. Hands(ExeOf(t), next)
    BY <1>0, <2>1, FailHands DEF TypeOK
  <2>3. pc[t] \in Owning(t)
    BY <1>5 DEF FailAttempt, Owning
  <2>4. /\ pc'[t] \in {"remark", "finalize"} /\ \A u \in Task : u # t => pc'[u] = pc[u]
        /\ granted'[t] = next /\ \A u \in Task : u # t => granted'[u] = granted[u]
    BY <2>1 DEF Goto, TypeOK
  <2>5. pc'[t] \notin Owning(t)
    BY <2>4 DEF Owning
  <2>6. \A u \in Task : u # t => pc'[u] \notin Owning(u) /\ granted'[u] = NoExe
    BY <2>3, <2>4, OwnerAlone
  <2>7. CASE next = NoExe
    BY <2>4, <2>5, <2>6, <2>7, NobodyOwns DEF Unowned
  <2>8. CASE next \in Exe
    <3>1. next \in Live'
      BY <2>2, <2>8, NoExeAssumption DEF Hands
    <3>2. \A u \in Task, x \in Exe : OwnsSlot(u, x)' => u = t /\ x = next
      BY <2>4, <2>5, <2>6, OwnsByAfter, NoExeAssumption
    <3> QED
      BY <2>4, <2>6, <2>8, <3>1, <3>2, SoleOwner
  <2> QED
    BY <2>7, <2>8 DEF ExeOrNone
<1>6. CASE RecordFailure(t)
  <2>1. /\ pc[t] \in {"remark", "finalize"} /\ Proceed(t, granted[t])
        /\ granted' = [granted EXCEPT ![t] = NoExe] /\ Live' = Live
    BY <1>6, LiveStutters DEF RecordFailure
  <2> DEFINE p == [pc EXCEPT ![t] = IF KindOf(t) = "message" THEN "ack" ELSE "idle"]
  <2>2. p \in [Task -> PC] /\ granted[t] \in ExeOrNone
    BY DEF TypeOK, PC
  <2>3. /\ p[t] \in {"ack", "idle"} /\ \A u \in Task : u # t => p[u] = pc[u]
        /\ granted'[t] = NoExe /\ \A u \in Task : u # t => granted'[u] = granted[u]
    BY <2>1 DEF TypeOK
  <2>4. StartDrain(p, WorkerOf(t), granted[t])
    BY <2>1 DEF Proceed
  <2> HIDE DEF p
  <2>5. CASE granted[t] = NoExe
    <3>1. pc' = p
      BY <2>4, <2>5 DEF StartDrain
    <3>2. ASSUME NEW u \in Task, NEW x \in Exe, OwnsSlot(u, x)'
          PROVE  OwnsSlot(u, x) /\ x \in Live'
      <4>1. OwnsSlot(u, x)
        BY <2>3, <3>1, <3>2, OwnsBy, OwnsByAfter, NoExeAssumption DEF Owning
      <4> QED
        BY <2>1, <4>1 DEF SlotInv
    <3>3. \A u \in Task : granted'[u] # NoExe => pc'[u] \in {"remark", "finalize"}
      BY <2>3, <3>1 DEF SlotInv
    <3> QED
      BY <3>2, <3>3, FewerOwners
  <2>6. CASE granted[t] \in Exe
    <3>1. OwnsSlot(t, granted[t])
      BY OwnsBy
    <3>2. \A u \in Task : u # t => pc[u] \notin Owning(u) /\ granted[u] = NoExe
      BY <2>6, <3>1, OthersUnowned
    <3>3. Unowned(p, granted')
      BY <2>3, <3>2 DEF Unowned, Owning
    <3>4. granted[t] \in Live'
      BY <2>1, <2>6, <3>1 DEF SlotInv
    <3> QED
      BY <1>0, <2>2, <2>4, <3>3, <3>4, StartKeeps
  <2> QED
    BY <2>2, <2>5, <2>6 DEF ExeOrNone
<1>7. CASE ScriptFails(t)
  <2>1. pc[t] \in {"release", "fail", "requeue"}
    BY <1>7 DEF ScriptFails
  <2>2. pc[t] \in Owning(t)
    BY <2>1 DEF Owning
  <2>3. PICK label \in {"ack", "idle"} : Goto(t, label)
    BY <1>7 DEF ScriptFails
  <2>4. pc'[t] = label /\ \A u \in Task : u # t => pc'[u] = pc[u]
    BY <2>3 DEF Goto, TypeOK
  <2>5. Unowned(pc', granted')
    <3>1. granted' = granted
      BY <1>7 DEF ScriptFails
    <3>2. label \notin Owning(t)
      BY <2>3 DEF Owning
    <3> QED
      BY <2>2, <2>4, <3>1, <3>2, OwnerAlone DEF Unowned
  <2> QED
    BY <2>5, NobodyOwns
<1> QED
  BY <1>1, <1>2, <1>3, <1>4, <1>5, <1>6, <1>7 DEF CommonStep

LEMMA UnawaitedSlots ==
  ASSUME TypeOK, SlotInv, NEW t \in Task, Unawaited(t)
  PROVE  SlotInv'
<1>1. CASE HardTimeout(t)
  <2>1. Goto(t, "failed") /\ pc[t] = "run" /\ granted' = granted /\ Live' = Live
    BY <1>1, LiveStutters DEF HardTimeout
  <2> QED
    BY <2>1, GotoKeeps DEF Owning
<1>2. ASSUME NEW kind \in LeftKind, LeftRunEnds(t, kind) PROVE SlotInv'
  BY <1>2, LiveStutters, ElsewhereKeeps DEF LeftRunEnds
<1> QED
  BY <1>1, <1>2 DEF Unawaited

LEMMA WorkerSlots ==
  ASSUME TypeOK, SlotInv, NEW w \in Worker,
         Recover(w) \/ Crash(w) \/ Restart(w) \/ ChannelLoss(w)
  PROVE  SlotInv'
<1>1. CASE RecoverReclaim(w)
  <2>1. Live' = Live
    BY <1>1, ReclaimKeepsLive DEF RecoverReclaim, TypeOK
  <2> QED
    BY <1>1, <2>1, ElsewhereKeeps DEF RecoverReclaim
<1>2. CASE RecoverPromote(w)
  <2>1. PICK next \in ExeOrNone :
          ReleaseSlotAndPopNext(NoExe, next) /\ StartDrain(pc, w, next)
    BY <1>2 DEF RecoverPromote
  <2>2. Hands(NoExe, next) /\ granted' = granted
    BY <1>2, <2>1, ReleaseHands DEF RecoverPromote, TypeOK
  <2>3. Live \ {NoExe} = Live
    BY NoExeAssumption DEF TypeOK, LockTypeOK, Live
  <2>4. CASE next = NoExe
    <3>1. pc' = pc /\ Live' = Live
      BY <2>1, <2>2, <2>3, <2>4, NoExeAssumption DEF StartDrain, Hands
    <3> QED
      BY <2>2, <3>1, ElsewhereKeeps
  <2>5. CASE next \in Exe
    <3>1. Live = {} /\ Live' = {next}
      BY <2>2, <2>3, <2>5, NoExeAssumption DEF Hands
    <3>2. Unowned(pc, granted')
      BY <2>2, <3>1, FreeIsUnowned
    <3>3. pc \in [Task -> PC]
      BY DEF TypeOK
    <3> QED
      BY <2>1, <3>1, <3>2, <3>3, StartKeeps
  <2> QED
    BY <2>4, <2>5 DEF ExeOrNone
<1>3. CASE Crash(w)
  <2>1. \A u \in Task : \/ pc'[u] = "idle" /\ granted'[u] = NoExe
                        \/ pc'[u] = pc[u] /\ granted'[u] = granted[u]
    BY <1>3 DEF Crash
  <2>2. Live' = Live
    BY <1>3, LiveStutters DEF Crash
  <2>3. ASSUME NEW u \in Task, NEW e \in Exe, OwnsSlot(u, e)'
        PROVE  OwnsSlot(u, e) /\ e \in Live'
    <3>1. OwnsSlot(u, e)
      BY <2>1, <2>3, OwnsBy, OwnsByAfter, NoExeAssumption DEF Owning
    <3> QED
      BY <2>2, <3>1 DEF SlotInv
  <2>4. \A u \in Task : granted'[u] # NoExe => pc'[u] \in {"remark", "finalize"}
    BY <2>1 DEF SlotInv
  <2> QED
    BY <2>3, <2>4, FewerOwners
<1>4. CASE Restart(w)
  BY <1>4, LiveStutters, ElsewhereKeeps DEF Restart
<1>5. CASE ChannelLoss(w)
  BY <1>5, LiveStutters, ElsewhereKeeps DEF ChannelLoss
<1> QED
  BY <1>1, <1>2, <1>3, <1>4, <1>5 DEF Recover

LEMMA WatchdogSlots ==
  ASSUME SlotInv, NEW e \in Exe, Watchdog(e)
  PROVE  SlotInv'
<1>1. ASSUME NEW from, NEW to, WatchdogMoves(from, e, to)
      PROVE  pc' = pc /\ granted' = granted /\ Live' = Live
  BY <1>1 DEF WatchdogMoves, Live
<1>2. pc' = pc /\ granted' = granted /\ Live' = Live
  BY <1>1 DEF Watchdog, WatchdogLooksInWait, WatchdogLooksInProcessing, WatchdogPushes
<1> QED
  BY <1>2, ElsewhereKeeps

\* The only place where it matters that owners keep their lease.
LEMMA EnvironmentSlots ==
  ASSUME "stall" \notin FaultKinds, SlotInv, NEW e \in Exe, Expiry(e) \/ Environment(e)
  PROVE  SlotInv'
<1>1. CASE LeaseRunsOut(e)
  <2>1. pc' = pc /\ granted' = granted /\ Live' = Live \ {e}
    BY <1>1 DEF LeaseRunsOut, LeaseLapses, Live
  <2>2. \A u \in Task : ~OwnsSlot(u, e)
    BY <1>1 DEF LeaseRunsOut
  <2>3. ASSUME NEW u \in Task, NEW x \in Exe, OwnsSlot(u, x)'
        PROVE  OwnsSlot(u, x) /\ x \in Live'
    <3>1. OwnsSlot(u, x)
      BY <2>1, <2>3, OwnsBy, OwnsByAfter
    <3> QED
      BY <2>1, <2>2, <3>1 DEF SlotInv
  <2> QED
    BY <2>1, <2>3, FewerOwners DEF SlotInv
<1>2. CASE RunningLockExpires(e)
  BY <1>2, LiveStutters, ElsewhereKeeps DEF RunningLockExpires
<1>3. CASE Cancel(e)
  BY <1>3, LiveStutters, ElsewhereKeeps DEF Cancel
<1>4. CASE Stall(e)
  BY <1>4 DEF Stall, Fault
<1>5. CASE Heartbeat(e)
  <2>1. pc' = pc /\ granted' = granted /\ Live \subseteq Live'
    BY <1>5 DEF Heartbeat, RenewLease, consumerVars, Live
  <2> QED
    BY <2>1, ElsewhereKeeps
<1>6. CASE AttemptsTtlEnds(e)
  <2>1. pc' = pc /\ granted' = granted /\ Live' = Live
    BY <1>6 DEF AttemptsTtlEnds, AttemptsExpire, Live
  <2> QED
    BY <2>1, ElsewhereKeeps
<1>7. CASE RowAges(e)
  BY <1>7, LiveStutters, ElsewhereKeeps DEF RowAges
<1> QED
  BY <1>1, <1>2, <1>3, <1>4, <1>5, <1>6, <1>7 DEF Expiry, Environment

LEMMA QuerySlots == SlotInv /\ WatchdogQuery => SlotInv'
BY LiveStutters, ElsewhereKeeps DEF WatchdogQuery

LEMMA NextKeepsSlots ==
  ASSUME "stall" \notin FaultKinds
  PROVE  TypeOK /\ SlotInv /\ [Next]_vars => SlotInv'
<1> SUFFICES ASSUME TypeOK, SlotInv, [Next]_vars PROVE SlotInv'
  OBVIOUS
<1>1. CASE UNCHANGED vars
  BY <1>1, LiveStutters, ElsewhereKeeps DEF vars, consumerVars
<1>2. CASE Next
  BY <1>2, MessageSlots, DrainSlots, CommonSlots, UnawaitedSlots, WorkerSlots,
     WatchdogSlots, QuerySlots, EnvironmentSlots DEF Next
<1> QED
  BY <1>1, <1>2

LEMMA SlotInvGives == SlotInv => SlotHasOneOwner
BY DEF SlotInv, SlotHasOneOwner, Live

-----------------------------------------------------------------------------
(* The child that a dead worker left behind.                                *)

Orphan(t) == <<t, "orphan">> \in left

\* As long as its lease holds, it has the slot to itself: nobody owns a slot.
OrphanInv ==
  /\ \A t \in Task : Orphan(t) => ExeOf(t) \in Live /\ Unowned(pc, granted)
  /\ \A t1, t2 \in Task : Orphan(t1) /\ Orphan(t2) => t1 = t2

\* Nobody gets a slot while a member lives that nobody owns.
LEMMA FewerUnowned ==
  ASSUME NEW e \in Exe, e \in Live', Unowned(pc, granted),
         \A u \in Task : pc'[u] = pc[u] \/ pc'[u] \notin Owning(u),
         \A u \in Task : granted'[u] \in {granted[u], NoExe}
  PROVE  Unowned(pc', granted') /\ e \in Live'
BY DEF Unowned

LEMMA MessageUnowned ==
  ASSUME TypeOK, NEW x \in Exe, x \in Live, Unowned(pc, granted),
         NEW w \in Worker, NEW e \in Exe, Deliver(w, e) \/ MessageStep(w, e)
  PROVE  Unowned(pc', granted') /\ x \in Live'
<1> DEFINE t == Message(w, e)
<1>0. t \in Task /\ KindOf(t) = "message"
  BY TaskFacts
<1>1. granted' = granted
  BY DEF Deliver, MessageStep, CheckMessage, EnqueueSerial, MarkWaiting, Settle
<1>2. ASSUME NEW label \in {"check", "ack", "lock", "idle", "nack", "enqueued", "mark", "unmarked"},
             Goto(t, label), x \in Live'
      PROVE  Unowned(pc', granted') /\ x \in Live'
  <2>1. \A u \in Task : pc'[u] = pc[u] \/ pc'[u] \notin Owning(u)
    BY <1>0, <1>2 DEF Goto, TypeOK, Owning
  <2> QED
    BY <1>1, <1>2, <2>1, FewerUnowned
<1>3. CASE Deliver(w, e)
  BY <1>2, <1>3, LiveStutters DEF Deliver
<1>4. CASE CheckMessage(w, e)
  BY <1>2, <1>4, LiveStutters DEF CheckMessage
<1>5. CASE EnqueueSerial(w, e)
  <2>1. \A acquired \in BOOLEAN :
           TryAcquireOrEnqueue(e, acquired) => acquired = FALSE /\ Live' = Live
    BY TryTakes DEF TypeOK, TryAcquireOrEnqueue
  <2>2. Live' = Live
    BY <1>5, <2>1, LiveStutters DEF EnqueueSerial
  <2>3. Goto(t, "mark") \/ Goto(t, "enqueued")
    BY <1>5, <2>1 DEF EnqueueSerial
  <2> QED
    BY <1>2, <2>2, <2>3
<1>6. CASE MarkWaiting(w, e)
  BY <1>2, <1>6, LiveStutters DEF MarkWaiting
<1>7. CASE Settle(w, e)
  BY <1>2, <1>7, LiveStutters DEF Settle
<1> QED
  BY <1>3, <1>4, <1>5, <1>6, <1>7 DEF MessageStep

LEMMA DrainUnowned ==
  ASSUME Unowned(pc, granted), NEW w \in Worker, NEW e \in Exe
  PROVE  ~DrainStep(w, e)
<1>1. Drain(w, e) \in Task /\ KindOf(Drain(w, e)) = "drain"
  BY TaskFacts
<1>2. pc[Drain(w, e)] \notin {"check", "slot", "requeue"}
  BY <1>1 DEF Unowned, Owning
<1> QED
  BY <1>2 DEF DrainStep, CheckDrain, TakeSlot, RequeueAtHead

LEMMA CommonUnowned ==
  ASSUME TypeOK, NEW x \in Exe, x \in Live, Unowned(pc, granted),
         NEW t \in Task, CommonStep(t) \/ Unawaited(t)
  PROVE  Unowned(pc', granted') /\ x \in Live'
<1>0. pc[t] \notin Owning(t) /\ granted[t] = NoExe /\ KindOf(t) \in {"message", "drain"}
  BY TaskParts DEF Unowned
<1>1. pc[t] \notin {"run", "succeeded", "failed", "full", "release", "fail", "requeue"}
  BY <1>0 DEF Owning
<1>2. ASSUME NEW label, label \notin Owning(t), Goto(t, label), granted' = granted, UNCHANGED lockVars
      PROVE  Unowned(pc', granted') /\ x \in Live'
  <2>1. \A u \in Task : pc'[u] = pc[u] \/ pc'[u] \notin Owning(u)
    BY <1>2 DEF Goto, TypeOK
  <2> QED
    BY <1>2, <2>1, FewerUnowned, LiveStutters
<1>3. CASE AcquireRunningLock(t)
  <2>1. KindOf(t) = "message"
    BY <1>0, <1>3 DEF AcquireRunningLock, Owning
  <2>2. PICK label \in {"enqueue", "ack"} : Goto(t, label)
    BY <1>3, <2>1 DEF AcquireRunningLock
  <2> QED
    BY <1>2, <1>3, <2>1, <2>2 DEF AcquireRunningLock, Owning
<1>4. CASE ReleaseRunningLock(t)
  <2>1. PICK label \in {"ack", "nack"} : Goto(t, label)
    BY <1>1, <1>4 DEF ReleaseRunningLock, AfterUnlock
  <2> QED
    BY <1>2, <1>4, <2>1 DEF ReleaseRunningLock, Owning
<1>5. CASE RecordFailure(t)
  <2>1. Proceed(t, NoExe)
    BY <1>0, <1>5 DEF RecordFailure
  <2>2. \A u \in Task : pc'[u] = pc[u] \/ pc'[u] \notin Owning(u)
    BY <2>1 DEF Proceed, StartDrain, TypeOK, Owning
  <2>3. \A u \in Task : granted'[u] \in {granted[u], NoExe}
    BY <1>5 DEF RecordFailure, TypeOK
  <2>4. Live' = Live
    BY <1>5, LiveStutters DEF RecordFailure
  <2> QED
    BY <2>2, <2>3, <2>4, FewerUnowned
<1>6. CASE Unawaited(t)
  <2>1. PICK kind \in LeftKind : LeftRunEnds(t, kind)
    BY <1>1, <1>6 DEF Unawaited, HardTimeout
  <2>2. pc' = pc /\ granted' = granted /\ Live' = Live
    BY <2>1, LiveStutters DEF LeftRunEnds
  <2> QED
    BY <2>2
<1> QED
  BY <1>1, <1>3, <1>4, <1>5, <1>6
     DEF CommonStep, FinishRun, ReleaseSlot, FailAttempt, ScriptFails

LEMMA WorkerUnowned ==
  ASSUME TypeOK, NEW x \in Exe, x \in Live, Unowned(pc, granted), NEW w \in Worker,
         Recover(w) \/ Crash(w) \/ Restart(w) \/ ChannelLoss(w)
  PROVE  Unowned(pc', granted') /\ x \in Live'
<1>1. CASE RecoverReclaim(w)
  BY <1>1, ReclaimKeepsLive DEF RecoverReclaim, TypeOK
<1>2. CASE RecoverPromote(w)
  <2>1. PICK next \in ExeOrNone :
          ReleaseSlotAndPopNext(NoExe, next) /\ StartDrain(pc, w, next)
    BY <1>2 DEF RecoverPromote
  <2>2. Hands(NoExe, next) /\ granted' = granted
    BY <1>2, <2>1, ReleaseHands DEF RecoverPromote, TypeOK
  <2>3. Live \ {NoExe} = Live
    BY NoExeAssumption DEF TypeOK, LockTypeOK, Live
  <2>4. next = NoExe /\ Live' = Live
    BY <2>2, <2>3 DEF Hands
  <2> QED
    BY <2>1, <2>2, <2>4 DEF StartDrain
<1>3. CASE Crash(w)
  BY <1>3, LiveStutters DEF Crash, Unowned, Owning
<1>4. CASE Restart(w) \/ ChannelLoss(w)
  BY <1>4, LiveStutters DEF Restart, ChannelLoss
<1> QED
  BY <1>1, <1>2, <1>3, <1>4 DEF Recover

\* The rest leaves the tasks alone; only a lease that runs out costs a member.
LEMMA OthersUnownedStay ==
  ASSUME "stall" \notin FaultKinds, NEW x \in Exe, x \in Live, Unowned(pc, granted),
         \/ WatchdogQuery
         \/ \E e \in Exe : Watchdog(e) \/ Environment(e)
         \/ \E e \in Exe : Expiry(e) /\ ~(e = x /\ LeaseRunsOut(e))
  PROVE  Unowned(pc', granted') /\ x \in Live'
<1>1. CASE WatchdogQuery
  BY <1>1, LiveStutters DEF WatchdogQuery
<1>2. ASSUME NEW e \in Exe, Watchdog(e)
      PROVE  Unowned(pc', granted') /\ x \in Live'
  <2>1. ASSUME NEW from, NEW to, WatchdogMoves(from, e, to)
        PROVE  pc' = pc /\ granted' = granted /\ Live' = Live
    BY <2>1 DEF WatchdogMoves, Live
  <2> QED
    BY <1>2, <2>1 DEF Watchdog, WatchdogLooksInWait, WatchdogLooksInProcessing, WatchdogPushes
<1>3. ASSUME NEW e \in Exe, Environment(e)
      PROVE  Unowned(pc', granted') /\ x \in Live'
  <2>1. CASE Cancel(e)
    BY <2>1, LiveStutters DEF Cancel
  <2>2. CASE Heartbeat(e)
    BY <2>2 DEF Heartbeat, RenewLease, consumerVars, Live
  <2>3. CASE AttemptsTtlEnds(e)
    BY <2>3 DEF AttemptsTtlEnds, AttemptsExpire, Live
  <2> QED
    BY <1>3, <2>1, <2>2, <2>3 DEF Environment, Stall, Fault
<1>4. ASSUME NEW e \in Exe, Expiry(e), ~(e = x /\ LeaseRunsOut(e))
      PROVE  Unowned(pc', granted') /\ x \in Live'
  <2>1. CASE LeaseRunsOut(e)
    BY <1>4, <2>1 DEF LeaseRunsOut, LeaseLapses, Live
  <2>2. CASE RunningLockExpires(e) \/ RowAges(e)
    BY <2>2, LiveStutters DEF RunningLockExpires, RowAges
  <2> QED
    BY <1>4, <2>1, <2>2 DEF Expiry
<1> QED
  BY <1>1, <1>2, <1>3, <1>4

\* Orphans come from a crash only, and go with their lease.
LEMMA NewOrphans ==
  ASSUME TypeOK, Next, NEW t \in Task, Orphan(t)'
  PROVE  \/ Orphan(t) /\ \A e \in Exe : LeaseRunsOut(e) => e # ExeOf(t)
         \/ \E w \in Worker : Crash(w) /\ WorkerOf(t) = w /\ pc[t] = "run"
<1>0. ExeOf(t) \in Exe /\ ~(ExeOf(t) # ExeOf(t))
  BY TaskParts
<1>1. ASSUME NEW e \in Exe, LeaseRunsOut(e) PROVE e # ExeOf(t)
  BY <1>1 DEF LeaseRunsOut, Orphan
<1>2. CASE \E w \in Worker, e \in Exe : Deliver(w, e) \/ MessageStep(w, e) \/ DrainStep(w, e)
  <2>1. left' = left
    BY <1>2 DEF Deliver, MessageStep, CheckMessage, EnqueueSerial, MarkWaiting, Settle,
                DrainStep, CheckDrain, TakeSlot, RequeueAtHead
  <2> QED
    BY <1>1, <2>1 DEF Orphan
<1>3. CASE \E u \in Task : CommonStep(u) \/ Unawaited(u)
  <2>1. PICK u \in Task : CommonStep(u) \/ Unawaited(u)
    BY <1>3
  <2>2. CASE CommonStep(u)
    <3>1. left' = left
      BY <2>2 DEF CommonStep, AcquireRunningLock, FinishRun, ReleaseRunningLock, ReleaseSlot,
                  FailAttempt, RecordFailure, ScriptFails
    <3> QED
      BY <1>1, <3>1 DEF Orphan
  <2>3. CASE Unawaited(u)
    <3>1. <<t, "orphan">> # <<u, "abandoned">>
      OBVIOUS
    <3>2. CASE HardTimeout(u)
      BY <1>1, <3>1, <3>2 DEF HardTimeout, Orphan
    <3>3. CASE \E kind \in LeftKind : LeftRunEnds(u, kind)
      BY <1>1, <3>3 DEF LeftRunEnds, Orphan
    <3> QED
      BY <2>3, <3>2, <3>3 DEF Unawaited
  <2> QED
    BY <2>1, <2>2, <2>3
<1>4. CASE \E w \in Worker : Recover(w) \/ Restart(w) \/ ChannelLoss(w)
  <2>1. left' = left
    BY <1>4 DEF Recover, RecoverReclaim, RecoverPromote, Restart, ChannelLoss
  <2> QED
    BY <1>1, <2>1 DEF Orphan
<1>5. ASSUME NEW w \in Worker, Crash(w)
      PROVE  Orphan(t) \/ (WorkerOf(t) = w /\ pc[t] = "run")
  BY <1>5 DEF Crash, Orphan
<1>6. CASE WatchdogQuery \/ \E e \in Exe : Watchdog(e) \/ Expiry(e) \/ Environment(e)
  <2>1. left' \subseteq left
    BY <1>6 DEF WatchdogQuery, Watchdog, WatchdogLooksInWait, WatchdogLooksInProcessing,
                WatchdogPushes, WatchdogMoves, Expiry, LeaseRunsOut, RunningLockExpires, RowAges,
                Environment, Cancel, Stall, Heartbeat, AttemptsTtlEnds, consumerVars
  <2> QED
    BY <1>1, <2>1 DEF Orphan
<1> QED
  BY <1>1, <1>2, <1>3, <1>4, <1>5, <1>6 DEF Next

LEMMA OrphanStays ==
  ASSUME "stall" \notin FaultKinds, TypeOK, OrphanInv, Next, NEW t \in Task, Orphan(t),
         \A e \in Exe : LeaseRunsOut(e) => e # ExeOf(t)
  PROVE  ExeOf(t) \in Live' /\ Unowned(pc', granted')
<1> DEFINE x == ExeOf(t)
<1>1. x \in Exe /\ x \in Live /\ Unowned(pc, granted)
  BY TaskParts DEF OrphanInv
<1> HIDE DEF x
<1>2. Unowned(pc', granted') /\ x \in Live'
  <2>1. CASE \E w \in Worker, e \in Exe : Deliver(w, e) \/ MessageStep(w, e) \/ DrainStep(w, e)
    BY <1>1, <2>1, MessageUnowned, DrainUnowned
  <2>2. CASE \E u \in Task : CommonStep(u) \/ Unawaited(u)
    BY <1>1, <2>2, CommonUnowned
  <2>3. CASE \E w \in Worker : Recover(w) \/ Crash(w) \/ Restart(w) \/ ChannelLoss(w)
    BY <1>1, <2>3, WorkerUnowned
  <2>4. CASE WatchdogQuery \/ \E e \in Exe : Watchdog(e) \/ Expiry(e) \/ Environment(e)
    <3>1. \A e \in Exe : ~(e = x /\ LeaseRunsOut(e))
      BY DEF x
    <3> QED
      BY <1>1, <2>4, <3>1, OthersUnownedStay
  <2> QED
    BY <2>1, <2>2, <2>3, <2>4 DEF Next
<1> QED
  BY <1>2 DEF x

LEMMA CrashOrphans ==
  ASSUME TypeOK, SlotInv, NEW w \in Worker, Crash(w), NEW t \in Task, pc[t] = "run",
         WorkerOf(t) = w
  PROVE  /\ ExeOf(t) \in Live' /\ Unowned(pc', granted')
         /\ \A u \in Task : pc[u] = "run" => u = t
<1>1. /\ \A u \in Task : u # t => pc[u] \notin Owning(u)
      /\ \A u \in Task : granted[u] = NoExe
      /\ ExeOf(t) \in Live
  BY OwnerAlone DEF Owning
<1>2. /\ \A u \in Task : pc'[u] = IF WorkerOf(u) = w THEN "idle" ELSE pc[u]
      /\ \A u \in Task : granted'[u] = IF WorkerOf(u) = w THEN NoExe ELSE granted[u]
      /\ Live' = Live
  BY LiveStutters DEF Crash
<1> QED
  BY <1>1, <1>2 DEF Unowned, Owning

LEMMA NextKeepsOrphans ==
  ASSUME "stall" \notin FaultKinds
  PROVE  TypeOK /\ SlotInv /\ OrphanInv /\ [Next]_vars => OrphanInv'
<1> SUFFICES ASSUME TypeOK, SlotInv, OrphanInv, [Next]_vars PROVE OrphanInv'
  OBVIOUS
<1>1. CASE UNCHANGED vars
  BY <1>1, LiveStutters DEF vars, consumerVars, OrphanInv, Orphan
<1>2. CASE Next
  <2>1. ASSUME NEW t \in Task, Orphan(t)'
        PROVE  ExeOf(t) \in Live' /\ Unowned(pc', granted')
    BY <1>2, <2>1, NewOrphans, OrphanStays, CrashOrphans
  <2>2. ASSUME NEW t1 \in Task, NEW t2 \in Task, Orphan(t1)', Orphan(t2)'
        PROVE  t1 = t2
    <3>1. CASE Orphan(t1) /\ Orphan(t2)
      BY <3>1 DEF OrphanInv
    <3>2. ASSUME NEW t \in Task, pc[t] = "run" PROVE \A u \in Task : ~Orphan(u)
      BY <3>2 DEF OrphanInv, Unowned, Owning
    <3> QED
      BY <1>2, <2>2, <3>1, <3>2, NewOrphans, CrashOrphans
  <2>3. \A t \in Task : ExeOf(t)' = ExeOf(t)
    BY DEF ExeOf
  <2> QED
    BY <2>1, <2>2, <2>3 DEF OrphanInv
<1> QED
  BY <1>1, <1>2

LEMMA OrphansGive == TypeOK /\ SlotInv /\ OrphanInv => OneAtATime
<1> SUFFICES ASSUME TypeOK, SlotInv, OrphanInv PROVE OneAtATime
  OBVIOUS
<1>1. ASSUME NEW t1 \in Task, NEW t2 \in Task, pc[t1] = "run", pc[t2] = "run"
      PROVE  t1 = t2
  <2>1. OwnsSlot(t1, ExeOf(t1)) /\ OwnsSlot(t2, ExeOf(t2))
    BY <1>1, OwnsBy DEF Owning
  <2> QED
    BY <2>1, TaskParts DEF SlotInv
<1>2. ASSUME NEW t1 \in Task, NEW t2 \in Task, pc[t1] = "run" PROVE ~Orphan(t2)
  BY <1>2 DEF OrphanInv, Unowned, Owning
<1>3. ASSUME NEW r \in Runs
      PROVE  \E t \in Task : \/ r = <<t, "awaited">> /\ pc[t] = "run"
                             \/ r = <<t, "orphan">> /\ Orphan(t)
  <2>1. CASE r \in left /\ r[2] = "orphan"
    <3>1. PICK t \in Task, kind \in LeftKind : r = <<t, kind>>
      BY <2>1 DEF TypeOK
    <3>2. kind = "orphan"
      BY <2>1, <3>1
    <3> QED
      BY <2>1, <3>1, <3>2 DEF Orphan
  <2> QED
    BY <2>1 DEF Runs
<1> QED
  BY <1>1, <1>2, <1>3 DEF OneAtATime, OrphanInv

-----------------------------------------------------------------------------
\* The inductive invariant, unless a living owner loses its lease.
THEOREM SlotInvariant ==
  ASSUME "stall" \notin FaultKinds
  PROVE  Spec => [](TypeOK /\ SlotInv /\ OrphanInv)
<1>1. Init => TypeOK /\ SlotInv /\ OrphanInv
  <2>1. Init => OrphanInv
    BY DEF Init, OrphanInv, Orphan
  <2> QED
    BY <2>1, TypeInit, SlotInit
<1>2. TypeOK /\ SlotInv /\ OrphanInv /\ [Next]_vars => (TypeOK /\ SlotInv /\ OrphanInv)'
  BY NextKeepsTypes, NextKeepsSlots, NextKeepsOrphans
<1> QED
  BY <1>1, <1>2, PTL DEF Spec

\* Under that assumption a slot has one owner, and Redis knows it - after any
\* number of crashes, lost channels, lost calls and answers, hard timeouts,
\* database errors and cancellations.
THEOREM SlotsAreOwnedOnce ==
  ASSUME "stall" \notin FaultKinds
  PROVE  Spec => []SlotHasOneOwner
<1>1. Spec => [](TypeOK /\ SlotInv /\ OrphanInv)
  BY SlotInvariant
<1> QED
  BY <1>1, SlotInvGives, PTL

\* Under that assumption no two runs that their worker awaits or that a dead
\* one left within its lease - of two executions of the routine, or two copies
\* of one - go on at the same time ("um por vez", LeaseHeartbeat).  Runs that
\* the hard timeout abandoned, and children that outlive their lease, are not
\* among them: nothing keeps those apart from the next.
THEOREM OneExecutionAtATime ==
  ASSUME "stall" \notin FaultKinds
  PROVE  Spec => []OneAtATime
<1>1. Spec => [](TypeOK /\ SlotInv /\ OrphanInv)
  BY SlotInvariant
<1> QED
  BY <1>1, OrphansGive, PTL

LEMMA NextLeavesNothing ==
  ASSUME FaultKinds \cap {"crash", "hardTimeout"} = {}, left = {}, [Next]_vars
  PROVE  left' = {}
<1>1. CASE UNCHANGED vars
  BY <1>1 DEF vars, consumerVars
<1>2. ASSUME NEW w \in Worker, NEW e \in Exe,
             Deliver(w, e) \/ MessageStep(w, e) \/ DrainStep(w, e)
      PROVE  left' = {}
  BY <1>2 DEF Deliver, MessageStep, CheckMessage, EnqueueSerial, MarkWaiting, Settle,
              DrainStep, CheckDrain, TakeSlot, RequeueAtHead
<1>3. ASSUME NEW t \in Task, CommonStep(t) \/ Unawaited(t) PROVE left' = {}
  BY <1>3 DEF CommonStep, AcquireRunningLock, FinishRun, ReleaseRunningLock, ReleaseSlot,
              FailAttempt, RecordFailure, ScriptFails, Unawaited, HardTimeout, LeftRunEnds, Fault
<1>4. ASSUME NEW w \in Worker, Recover(w) \/ Crash(w) \/ Restart(w) \/ ChannelLoss(w)
      PROVE  left' = {}
  BY <1>4 DEF Recover, RecoverReclaim, RecoverPromote, Crash, Fault, Restart, ChannelLoss
<1>5. ASSUME WatchdogQuery \/ \E e \in Exe : Watchdog(e) \/ Expiry(e) \/ Environment(e)
      PROVE  left' = {}
  BY <1>5 DEF WatchdogQuery, Watchdog, WatchdogLooksInWait, WatchdogLooksInProcessing,
              WatchdogPushes, WatchdogMoves, Expiry, LeaseRunsOut, RunningLockExpires, RowAges,
              Environment, Cancel, Stall, Heartbeat, AttemptsTtlEnds, consumerVars
<1> QED
  BY <1>1, <1>2, <1>3, <1>4, <1>5 DEF Next

\* Without crashes and hard timeouts there are no other runs than those.
THEOREM EveryRunIsAwaited ==
  ASSUME FaultKinds \cap {"crash", "hardTimeout"} = {}
  PROVE  Spec => [](left = {})
<1>1. Init => left = {}
  BY DEF Init
<1>2. left = {} /\ [Next]_vars => (left = {})'
  BY NextLeavesNothing
<1> QED
  BY <1>1, <1>2, PTL DEF Spec

-----------------------------------------------------------------------------
(* The running lock has its task.                                           *)

Holding == {"enqueue", "mark", "slot", "run"} \cup DOMAIN AfterUnlock

LEMMA HoldsBy ==
  ASSUME NEW t
  PROVE  HoldsRunningLock(t) <=> pc[t] \in Holding
BY DEF HoldsRunningLock, Holding

LEMMA HoldsByAfter ==
  ASSUME NEW t
  PROVE  HoldsRunningLock(t)' <=> pc'[t] \in Holding
BY DEF HoldsRunningLock, Holding

\* A task moves, and nobody else.
LEMMA GotoMoves ==
  ASSUME TypeOK, NEW t \in Task, NEW label, Goto(t, label)
  PROVE  pc'[t] = label /\ \A u \in Task : u # t => pc'[u] = pc[u]
BY DEF Goto, TypeOK

\* A task leaves, and at most an idle drain starts.
LEMMA StartMoves ==
  ASSUME NEW p \in [Task -> PC], NEW w \in Worker, NEW next \in ExeOrNone,
         StartDrain(p, w, next)
  PROVE  \A u \in Task : pc'[u] = p[u] \/ (p[u] = "idle" /\ pc'[u] = "check" /\ next \in Exe
                                             /\ u = Drain(w, next))
BY TaskFacts DEF StartDrain, ExeOrNone

LEMMA ProceedMoves ==
  ASSUME TypeOK, NEW t \in Task, NEW next \in ExeOrNone, Proceed(t, next)
  PROVE  /\ pc'[t] \in {"ack", "idle", "check"}
         /\ pc'[t] = "check" => next \in Exe /\ t = Drain(WorkerOf(t), next)
         /\ \A u \in Task : u # t =>
              pc'[u] = pc[u] \/ (pc[u] = "idle" /\ pc'[u] = "check" /\ next \in Exe
                                   /\ u = Drain(WorkerOf(t), next))
<1> DEFINE p == [pc EXCEPT ![t] = IF KindOf(t) = "message" THEN "ack" ELSE "idle"]
<1>1. p \in [Task -> PC]
  BY DEF TypeOK, PC
<1>2. p[t] \in {"ack", "idle"} /\ \A u \in Task : u # t => p[u] = pc[u]
  BY DEF TypeOK
<1>3. StartDrain(p, WorkerOf(t), next) /\ WorkerOf(t) \in Worker
  BY TaskParts DEF Proceed
<1> HIDE DEF p
<1> QED
  BY <1>1, <1>2, <1>3, StartMoves

\* The watchdog, time and the environment leave the tasks and the broker alone.
LEMMA OthersLeaveTasks ==
  ASSUME WatchdogQuery \/ \E e \in Exe : Watchdog(e) \/ Expiry(e) \/ Environment(e)
  PROVE  pc' = pc /\ granted' = granted /\ ready' = ready /\ unacked' = unacked
BY DEF WatchdogQuery, Watchdog, WatchdogLooksInWait, WatchdogLooksInProcessing, WatchdogPushes,
       WatchdogMoves, Expiry, LeaseRunsOut, RunningLockExpires, RowAges, consumerVars,
       Environment, Cancel, Stall, Heartbeat, AttemptsTtlEnds

\* Without a crash only releaseRunningLock ends the time a task holds the lock.
LEMMA HoldersStay ==
  ASSUME TypeOK, "crash" \notin FaultKinds, Next, NEW u \in Task, pc[u] \in Holding
  PROVE  pc'[u] \in Holding \/ ReleaseRunningLock(u)
<1>0. pc[u] \notin {"idle", "check", "lock", "release", "fail", "requeue", "remark",
                    "finalize", "ack", "nack"}
  BY DEF Holding, AfterUnlock
<1>1. ASSUME NEW t \in Task, NEW label, Goto(t, label),
             pc[t] \in Holding => label \in Holding
      PROVE  pc'[u] \in Holding
  BY <1>1, GotoMoves
<1>2. ASSUME NEW w \in Worker, NEW e \in Exe, Deliver(w, e) \/ MessageStep(w, e)
      PROVE  pc'[u] \in Holding
  <2> DEFINE t == Message(w, e)
  <2>0. t \in Task
    BY TaskFacts
  <2>1. PICK label : /\ Goto(t, label)
                     /\ \/ pc[t] \in {"idle", "check", "ack", "nack"}
                        \/ label \in {"run", "mark", "enqueued", "unmarked"}
    BY <1>2 DEF MessageStep, Deliver, CheckMessage, EnqueueSerial, MarkWaiting, Settle
  <2>2. pc[t] \in Holding => label \in Holding
    BY <2>1 DEF Holding, AfterUnlock
  <2> QED
    BY <1>1, <2>0, <2>1, <2>2
<1>3. ASSUME NEW w \in Worker, NEW e \in Exe, DrainStep(w, e)
      PROVE  pc'[u] \in Holding
  <2> DEFINE t == Drain(w, e)
  <2>0. t \in Task
    BY TaskFacts
  <2>1. CASE RequeueAtHead(w, e)
    <3>1. PICK next \in ExeOrNone : Proceed(t, next) /\ pc[t] = "requeue"
      BY <2>1 DEF RequeueAtHead
    <3> HIDE DEF t
    <3> QED
      BY <1>0, <2>0, <3>1, ProceedMoves
  <2>2. CASE CheckDrain(w, e) \/ TakeSlot(w, e)
    <3>1. PICK label : /\ Goto(t, label)
                       /\ pc[t] = "check" \/ label \in {"run", "full", "succeeded"}
      BY <2>2 DEF CheckDrain, TakeSlot
    <3>2. pc[t] \in Holding => label \in Holding
      BY <3>1 DEF Holding, AfterUnlock
    <3> QED
      BY <1>1, <2>0, <3>1, <3>2
  <2> QED
    BY <1>3, <2>1, <2>2 DEF DrainStep
<1>4. ASSUME NEW t \in Task, CommonStep(t)
      PROVE  pc'[u] \in Holding \/ ReleaseRunningLock(u)
  <2>1. CASE AcquireRunningLock(t) \/ FinishRun(t) \/ FailAttempt(t) \/ ScriptFails(t)
    <3>1. PICK label : /\ Goto(t, label)
                       /\ \/ pc[t] \in {"lock", "fail", "release", "requeue"}
                          \/ label \in {"succeeded", "failed"}
      BY <2>1 DEF AcquireRunningLock, FinishRun, FailAttempt, ScriptFails
    <3>2. pc[t] \in Holding => label \in Holding
      BY <3>1 DEF Holding, AfterUnlock
    <3> QED
      BY <1>1, <3>1, <3>2
  <2>2. CASE ReleaseRunningLock(t)
    <3>1. Goto(t, AfterUnlock[pc[t]])
      BY <2>2 DEF ReleaseRunningLock
    <3> QED
      BY <2>2, <3>1, GotoMoves
  <2>3. CASE ReleaseSlot(t) \/ RecordFailure(t)
    <3>1. PICK next \in ExeOrNone : Proceed(t, next) /\ pc[t] \in {"release", "remark", "finalize"}
      BY <2>3 DEF ReleaseSlot, RecordFailure, TypeOK
    <3> QED
      BY <1>0, <3>1, ProceedMoves
  <2> QED
    BY <1>4, <2>1, <2>2, <2>3 DEF CommonStep
<1>5. ASSUME NEW w \in Worker, Recover(w) \/ Restart(w) \/ ChannelLoss(w)
      PROVE  pc'[u] \in Holding
  <2>1. CASE RecoverPromote(w)
    <3>1. PICK next \in ExeOrNone : StartDrain(pc, w, next)
      BY <2>1 DEF RecoverPromote
    <3>2. pc \in [Task -> PC]
      BY DEF TypeOK
    <3> QED
      BY <1>0, <3>1, <3>2, StartMoves
  <2> QED
    BY <1>5, <2>1 DEF Recover, RecoverReclaim, Restart, ChannelLoss
<1>6. ASSUME NEW w \in Worker, Crash(w) PROVE FALSE
  BY <1>6 DEF Crash, Fault
<1>7. CASE WatchdogQuery \/ \E e \in Exe : Watchdog(e) \/ Expiry(e) \/ Environment(e)
  <2>1. pc' = pc
    BY <1>7, OthersLeaveTasks
  <2> QED
    BY <2>1
<1>8. ASSUME NEW t \in Task, Unawaited(t)
      PROVE  pc'[u] \in Holding
  <2>1. pc' = pc \/ Goto(t, "failed")
    BY <1>8 DEF Unawaited, HardTimeout, LeftRunEnds
  <2> QED
    BY <1>1, <2>1 DEF Holding, AfterUnlock
<1> QED
  BY <1>2, <1>3, <1>4, <1>5, <1>6, <1>7, <1>8 DEF Next

\* The lock only changes hands as acquireRunningLock, releaseRunningLock and the
\* TTL have it.
LEMMA LockChanges ==
  ASSUME TypeOK, "reply" \notin FaultKinds, Next, NEW e \in Exe, running'[e] # NoWorker
  PROVE  \/ running'[e] = running[e]
         \/ \E t \in Task : /\ ExeOf(t) = e /\ running'[e] = WorkerOf(t)
                            /\ pc'[t] \in Holding
<1>1. ASSUME NEW t \in Task, AcquireRunningLock(t)
      PROVE  \/ running'[e] = running[e]
             \/ /\ ExeOf(t) = e /\ running'[e] = WorkerOf(t) /\ pc'[t] \in Holding
  <2>1. ExeOf(t) \in Exe
    BY TaskParts
  <2>2. CASE running' = running
    BY <2>2
  <2>3. CASE /\ running' = [running EXCEPT ![ExeOf(t)] = WorkerOf(t)]
             /\ Goto(t, IF KindOf(t) = "message" THEN "enqueue" ELSE "slot")
    BY <2>1, <2>3, GotoMoves DEF Holding, TypeOK
  <2> QED
    BY <1>1, <2>2, <2>3 DEF AcquireRunningLock, Fault
<1>2. ASSUME NEW t \in Task, ReleaseRunningLock(t)
      PROVE  running'[e] = running[e]
  BY <1>2, TaskParts DEF ReleaseRunningLock, TypeOK
<1>3. ASSUME NEW t \in Task, CommonStep(t)
      PROVE  running'[e] = running[e] \/ AcquireRunningLock(t)
  BY <1>2, <1>3 DEF CommonStep, FinishRun, ReleaseSlot, FailAttempt, RecordFailure, ScriptFails
<1>4. ASSUME NEW w \in Worker, NEW x \in Exe,
             Deliver(w, x) \/ MessageStep(w, x) \/ DrainStep(w, x)
      PROVE  running' = running
  BY <1>4 DEF Deliver, MessageStep, CheckMessage, EnqueueSerial, MarkWaiting, Settle,
              DrainStep, CheckDrain, TakeSlot, RequeueAtHead
<1>5. ASSUME NEW w \in Worker, Recover(w) \/ Crash(w) \/ Restart(w) \/ ChannelLoss(w)
      PROVE  running' = running
  BY <1>5 DEF Recover, RecoverReclaim, RecoverPromote, Crash, Restart, ChannelLoss
<1>6. ASSUME NEW x \in Exe, Watchdog(x) \/ Expiry(x) \/ Environment(x)
      PROVE  running'[e] = running[e]
  <2>1. CASE RunningLockExpires(x)
    BY <2>1 DEF RunningLockExpires, TypeOK
  <2> QED
    BY <1>6, <2>1 DEF Watchdog, WatchdogLooksInWait, WatchdogLooksInProcessing, WatchdogPushes,
              WatchdogMoves, Expiry, LeaseRunsOut, RowAges, consumerVars,
              Environment, Cancel, Stall, Heartbeat, AttemptsTtlEnds
<1>7. ASSUME WatchdogQuery \/ \E t \in Task : Unawaited(t)
      PROVE  running' = running
  BY <1>7 DEF WatchdogQuery, Unawaited, HardTimeout, LeftRunEnds
<1> QED
  BY <1>1, <1>3, <1>4, <1>5, <1>6, <1>7 DEF Next

LEMMA NextKeepsLockTask ==
  ASSUME FaultKinds \cap {"crash", "redis", "reply"} = {}
  PROVE  TypeOK /\ RunningLockHasTask /\ [Next]_vars => RunningLockHasTask'
<1> SUFFICES ASSUME TypeOK, RunningLockHasTask, [Next]_vars, NEW e \in Exe, running'[e] # NoWorker
             PROVE  \E t \in Task : /\ WorkerOf(t) = running'[e] /\ ExeOf(t) = e
                                    /\ pc'[t] \in Holding
  BY HoldsByAfter DEF RunningLockHasTask, WorkerOf, ExeOf
<1>1. CASE running'[e] = running[e]
  <2>1. PICK t \in Task : WorkerOf(t) = running[e] /\ ExeOf(t) = e /\ pc[t] \in Holding
    BY <1>1, HoldsBy DEF RunningLockHasTask
  <2>2. CASE UNCHANGED vars
    BY <1>1, <2>1, <2>2 DEF vars, consumerVars
  <2>3. CASE ReleaseRunningLock(t)
    BY <1>1, <2>1, <2>3, NoWorkerAssumption, TaskParts
       DEF ReleaseRunningLock, Fault, TypeOK
  <2>4. CASE Next /\ ~ReleaseRunningLock(t)
    BY <1>1, <2>1, <2>4, HoldersStay
  <2> QED
    BY <2>2, <2>3, <2>4
<1>2. CASE running'[e] # running[e]
  <2>1. Next
    BY <1>2 DEF vars, consumerVars
  <2> QED
    BY <1>2, <2>1, LockChanges
<1> QED
  BY <1>1, <1>2

\* While no worker dies and Redis executes and answers what it is sent, a running
\* lock means that a living task of its owner is about to give it back: whoever finds
\* it taken ("ja em execucao em outra instancia") may drop its delivery.  Stalls, lost
\* channels, hard timeouts, database errors and cancellations do not change that.  A
\* lost answer does: the SET NX that is sent again finds its own key, and the task
\* leaves a lock behind that it does not know it holds.
THEOREM RunningLocksHaveTasks ==
  ASSUME FaultKinds \cap {"crash", "redis", "reply"} = {}
  PROVE  Spec => []RunningLockHasTask
<1>1. Init => TypeOK /\ RunningLockHasTask
  BY TypeInit DEF Init, RunningLockHasTask
<1>2. TypeOK /\ RunningLockHasTask /\ [Next]_vars => (TypeOK /\ RunningLockHasTask)'
  BY NextKeepsTypes, NextKeepsLockTask
<1> QED
  BY <1>1, <1>2, PTL DEF Spec

-----------------------------------------------------------------------------
(* Nothing accepted is forgotten.                                           *)

Queued(e) == e \in Members(waitList) \cup Members(processing)

\* The program counters with which a task has taken its execution out of the
\* broker's hands: any of a drain, and those of a message that has entered the line.
TakenPC(t) ==
  IF KindOf(t) = "drain" THEN PC \ {"idle"}
  ELSE DOMAIN AfterUnlock \cup {"slot", "release", "fail", "requeue", "remark", "finalize"}

\* The line, the drains and the watchdog know nothing of e.
Untouched(e) ==
  /\ ~Queued(e)
  /\ watchdog.exe # e /\ e \notin watchdog.stuck
  /\ \A t \in Task : granted[t] # e /\ (ExeOf(t) = e => pc[t] \notin TakenPC(t))

\* The broker has the message of e, or a handler that has not entered the line yet.
InBroker(e) ==
  \/ e \in ready
  \/ \E w \in Worker : \/ pc[Message(w, e)] = "check" /\ e \in unacked[w]
                       \/ pc[Message(w, e)] \in {"lock", "enqueue"}

\* A task that runs e, that has enqueued it and is about to say so in the log, or
\* that gave its run up and is about to record the failure.
RunnerPC == {"mark", "run", "failed", "fail", "remark", "finalize"}
HasRunner(e) == \E t \in Task : ExeOf(t) = e /\ pc[t] \in RunnerPC

\* Inductive: what is not decided runs, is being marked, or is in the broker alone.
Remembered == \A e \in Exe : log[e] = "EM_EXECUCAO" => HasRunner(e) \/ (Untouched(e) /\ InBroker(e))

NoLoss == FaultKinds \cap {"crash", "redis", "reply", "database"} = {}

\* Who is promoted was waiting, and a script puts nobody but its argument into the
\* lists.
LEMMA ClaimMembers ==
  ASSUME NEW live, NEW waiting \in Seq(Exe), NEW claimed \in Seq(Exe), NEW next,
         ClaimNext(live, waiting, claimed, next)
  PROVE  /\ next \in Exe => next \in Members(waiting)
         /\ Members(waitList') \cup Members(processing') = Members(waiting) \cup Members(claimed)
<1>1. CASE /\ waiting # <<>> /\ next = Head(waiting)
           /\ waitList' = Tail(waiting) /\ processing' = RPush(claimed, next)
  <2>1. next \in Exe /\ Members(waiting) = {next} \cup Members(Tail(waiting))
    BY <1>1, PopList
  <2>2. Members(RPush(claimed, next)) = Members(claimed) \cup {next}
    BY <2>1, PushList
  <2> QED
    BY <1>1, <2>1, <2>2
<1>2. CASE next = NoExe /\ waitList' = waiting /\ processing' = claimed
  BY <1>2, NoExeAssumption
<1> QED
  BY <1>1, <1>2 DEF ClaimNext

\* What a script called for x does to another execution.
Ignores(e, next) == (~Queued(e) => ~Queued(e)' /\ next # e)

LEMMA ReleaseIgnores ==
  ASSUME LockTypeOK, NEW x, NEW next, ReleaseSlotAndPopNext(x, next), NEW e \in Exe
  PROVE  Ignores(e, next)
<1>1. LRem(processing, x) \in Seq(Exe) /\ Members(LRem(processing, x)) = Members(processing) \ {x}
  BY LRemProperties DEF LockTypeOK
<1>2. waitList \in Seq(Exe)
  BY DEF LockTypeOK
<1>3. ClaimNext(Live \ {x}, waitList, LRem(processing, x), next)
  BY DEF ReleaseSlotAndPopNext
<1>4. /\ next \in Exe => next \in Members(waitList)
      /\ Members(waitList') \cup Members(processing')
           = Members(waitList) \cup Members(LRem(processing, x))
  BY <1>1, <1>2, <1>3, ClaimMembers
<1> QED
  BY <1>1, <1>4, NoExeAssumption DEF Ignores, Queued

LEMMA PushedMembers ==
  ASSUME LockTypeOK, NEW x \in Exe
  PROVE  /\ LPushIfAbsent(waitList, x) \in Seq(Exe)
         /\ Members(LPushIfAbsent(waitList, x)) = Members(waitList) \cup {x}
<1>1. waitList \in Seq(Exe)
  BY DEF LockTypeOK
<1>2. LPush(waitList, x) \in Seq(Exe) /\ Members(LPush(waitList, x)) = Members(waitList) \cup {x}
  BY <1>1, PushList
<1> QED
  BY <1>1, <1>2 DEF LPushIfAbsent

LEMMA BackIgnores ==
  ASSUME LockTypeOK, NEW x \in Exe, NEW next, NEW waiting \in {waitList, LPushIfAbsent(waitList, x)},
         ClaimNext(Live \ {x}, waiting, LRem(processing, x), next), NEW e \in Exe, e # x
  PROVE  Ignores(e, next)
<1>1. LRem(processing, x) \in Seq(Exe) /\ Members(LRem(processing, x)) = Members(processing) \ {x}
  BY LRemProperties DEF LockTypeOK
<1>2. waiting \in Seq(Exe) /\ Members(waiting) \subseteq Members(waitList) \cup {x}
  BY PushedMembers DEF LockTypeOK
<1>3. /\ next \in Exe => next \in Members(waiting)
      /\ Members(waitList') \cup Members(processing')
           = Members(waiting) \cup Members(LRem(processing, x))
  BY <1>1, <1>2, ClaimMembers
<1> QED
  BY <1>1, <1>2, <1>3, NoExeAssumption DEF Ignores, Queued

LEMMA TryIgnores ==
  ASSUME LockTypeOK, NEW x \in Exe, NEW acquired, TryAcquireOrEnqueue(x, acquired),
         NEW e \in Exe, e # x, ~Queued(e)
  PROVE  ~Queued(e)'
<1>1. waitList \in Seq(Exe) /\ Members(RPush(waitList, x)) = Members(waitList) \cup {x}
  BY PushList DEF LockTypeOK
<1>2. waitList' \in {waitList, RPush(waitList, x)} /\ processing' = processing
  BY DEF TryAcquireOrEnqueue
<1> QED
  BY <1>1, <1>2 DEF Queued

LEMMA ReclaimIgnores ==
  ASSUME LockTypeOK, ReclaimOrphans, NEW e
  PROVE  Queued(e)' <=> Queued(e)
<1>1. /\ Members(processing \o waitList) = Members(processing) \cup Members(waitList)
      /\ Members(<<>>) = {}
  BY ConcatList, EmptyList DEF LockTypeOK
<1> QED
  BY <1>1 DEF ReclaimOrphans, Queued

LEMMA ListsStutter ==
  ASSUME UNCHANGED lockVars, NEW e
  PROVE  Queued(e)' <=> Queued(e)
BY DEF lockVars, Queued

LEMMA TaskIsMessage ==
  ASSUME NEW t \in Task, KindOf(t) # "drain"
  PROVE  t = Message(WorkerOf(t), ExeOf(t))
BY DEF Task, KindOf, Message, WorkerOf, ExeOf

-----------------------------------------------------------------------------
\* Only a drain that takes its slot marks an execution as running again.
LEMMA OnlyTakeSlotOpens ==
  ASSUME TypeOK, Next, NEW e \in Exe, log[e] # "EM_EXECUCAO", log'[e] = "EM_EXECUCAO"
  PROVE  HasRunner(e)'
<1>1. ASSUME NEW x \in Exe, NEW status, SetLog(x, status), status # "EM_EXECUCAO" PROVE FALSE
  BY <1>1 DEF SetLog, TypeOK
<1>2. ASSUME NEW w \in Worker, NEW x \in Exe,
             Deliver(w, x) \/ MessageStep(w, x) \/ DrainStep(w, x)
      PROVE  HasRunner(e)'
  <2>1. CASE TakeSlot(w, x)
    <3>1. x = e /\ Goto(Drain(w, x), "run")
      BY <2>1 DEF TakeSlot, SetLog, TypeOK
    <3>2. Drain(w, e) \in Task /\ ExeOf(Drain(w, e)) = e
      BY TaskFacts
    <3>3. pc'[Drain(w, e)] = "run"
      BY <3>1, <3>2 DEF Goto, TypeOK
    <3> QED
      BY <3>2, <3>3 DEF HasRunner, RunnerPC, ExeOf
  <2> QED
    BY <1>1, <1>2, <2>1 DEF Deliver, MessageStep, CheckMessage, EnqueueSerial, MarkWaiting, Settle,
              DrainStep, CheckDrain, RequeueAtHead
<1>3. ASSUME NEW t \in Task, CommonStep(t)
      PROVE  FALSE
  <2>0. ExeOf(t) \in Exe
    BY TaskParts
  <2>1. CASE FinishRun(t)
    <3>1. PICK status : status # "EM_EXECUCAO" /\ (log' = log \/ SetLog(ExeOf(t), status))
      BY <2>1 DEF FinishRun
    <3> QED
      BY <1>1, <2>0, <3>1
  <2>2. CASE RecordFailure(t)
    BY <1>1, <2>0, <2>2 DEF RecordFailure
  <2> QED
    BY <1>3, <2>1, <2>2 DEF CommonStep, AcquireRunningLock, ReleaseRunningLock, ReleaseSlot,
       FailAttempt, ScriptFails
<1>4. ASSUME NEW w \in Worker, Recover(w) \/ Crash(w) \/ Restart(w) \/ ChannelLoss(w)
      PROVE  FALSE
  BY <1>4 DEF Recover, RecoverReclaim, RecoverPromote, Crash, Restart, ChannelLoss
<1>5. ASSUME NEW x \in Exe, Watchdog(x) \/ Expiry(x) \/ Environment(x)
      PROVE  FALSE
  BY <1>1, <1>5 DEF Watchdog, WatchdogLooksInWait, WatchdogLooksInProcessing, WatchdogPushes,
              WatchdogMoves, Expiry, LeaseRunsOut, consumerVars, RunningLockExpires, RowAges,
              Environment, Cancel, Stall, Heartbeat, AttemptsTtlEnds
<1>6. ASSUME NEW t \in Task, Unawaited(t)
      PROVE  FALSE
  <2>1. PICK status : status # "EM_EXECUCAO" /\ (log' = log \/ SetLog(ExeOf(t), status))
    BY <1>6 DEF Unawaited, HardTimeout, LeftRunEnds
  <2> QED
    BY <1>1, <2>1, TaskParts
<1> QED
  BY <1>2, <1>3, <1>4, <1>5, <1>6 DEF Next, WatchdogQuery

\* A runner goes on, or the execution gets another status.
LEMMA RunnersStay ==
  ASSUME TypeOK, NoLoss, Next, NEW t \in Task, pc[t] \in RunnerPC,
         log'[ExeOf(t)] = "EM_EXECUCAO"
  PROVE  pc'[t] \in RunnerPC
<1>0. /\ pc[t] \notin {"idle", "check", "lock", "release", "requeue", "ack", "nack", "slot",
                       "enqueue", "succeeded", "full", "enqueued", "unmarked"}
      /\ "crash" \notin FaultKinds /\ "database" \notin FaultKinds
      /\ "redis" \notin FaultKinds /\ "reply" \notin FaultKinds
      /\ ExeOf(t) \in Exe
  BY TaskParts DEF NoLoss, RunnerPC
<1>1. ASSUME NEW u \in Task, NEW label, Goto(u, label), pc'[t] \notin RunnerPC
      PROVE  u = t /\ label \notin RunnerPC
  BY <1>1, GotoMoves
<1>2. ASSUME NEW w \in Worker, NEW e \in Exe, Deliver(w, e) \/ MessageStep(w, e)
      PROVE  pc'[t] \in RunnerPC
  <2> DEFINE u == Message(w, e)
  <2>0. u \in Task /\ ExeOf(u) = e
    BY TaskFacts
  <2>1. CASE MarkWaiting(w, e)
    <3>1. SetLog(e, "AGUARDANDO_LOCK_SERIAL") /\ Goto(u, "enqueued")
      BY <1>0, <2>1 DEF MarkWaiting, Fault
    <3>2. u # t
      BY <1>0, <2>0, <3>1 DEF SetLog, TypeOK
    <3> QED
      BY <1>1, <2>0, <3>1, <3>2
  <2>2. CASE ~MarkWaiting(w, e)
    <3>1. PICK label : Goto(u, label) /\ pc[u] \in {"idle", "check", "enqueue", "ack", "nack"}
      BY <1>2, <2>2 DEF MessageStep, Deliver, CheckMessage, EnqueueSerial, Settle
    <3> QED
      BY <1>0, <1>1, <2>0, <3>1
  <2> QED
    BY <2>1, <2>2
<1>3. ASSUME NEW w \in Worker, NEW e \in Exe, DrainStep(w, e)
      PROVE  pc'[t] \in RunnerPC
  <2> DEFINE u == Drain(w, e)
  <2>0. u \in Task
    BY TaskFacts
  <2>1. CASE RequeueAtHead(w, e)
    <3>1. PICK next \in ExeOrNone : Proceed(u, next) /\ pc[u] = "requeue"
      BY <2>1 DEF RequeueAtHead
    <3> HIDE DEF u
    <3> QED
      BY <1>0, <2>0, <3>1, ProceedMoves
  <2>2. CASE CheckDrain(w, e) \/ TakeSlot(w, e)
    <3>1. PICK label : Goto(u, label) /\ pc[u] \in {"check", "slot"}
      BY <2>2 DEF CheckDrain, TakeSlot
    <3> QED
      BY <1>0, <1>1, <2>0, <3>1
  <2> QED
    BY <1>3, <2>1, <2>2 DEF DrainStep
<1>4. ASSUME NEW u \in Task, CommonStep(u)
      PROVE  pc'[t] \in RunnerPC
  <2>1. CASE FinishRun(u)
    <3>1. PICK result \in {"SUCESSO", "ERRO", "CANCELADO"} :
            /\ SetLog(ExeOf(u), result)
            /\ Goto(u, IF result = "SUCESSO" THEN "succeeded" ELSE "failed")
      BY <1>0, <2>1 DEF FinishRun, Fault
    <3>2. u # t
      BY <1>0, <3>1 DEF SetLog, TypeOK
    <3> QED
      BY <1>1, <3>1, <3>2
  <2>2. CASE ReleaseSlot(u)
    <3>1. PICK next \in ExeOrNone : Proceed(u, next) /\ pc[u] = "release"
      BY <2>2 DEF ReleaseSlot
    <3> QED
      BY <1>0, <3>1, ProceedMoves
  <2>3. CASE RecordFailure(u)
    <3>1. PICK next \in ExeOrNone, status \in {"AGUARDANDO_LOCK_SERIAL", "ERRO"} :
            Proceed(u, next) /\ SetLog(ExeOf(u), status)
      BY <1>0, <2>3 DEF RecordFailure, Fault, TypeOK
    <3>2. u # t
      BY <1>0, <3>1 DEF SetLog, TypeOK
    <3>3. pc'[t] = pc[t]
      BY <1>0, <3>1, <3>2, ProceedMoves
    <3> QED
      BY <3>3
  <2>4. CASE AcquireRunningLock(u) \/ ReleaseRunningLock(u) \/ FailAttempt(u)
    <3>1. PICK label : /\ Goto(u, label)
                       /\ pc[u] \in RunnerPC => label \in RunnerPC
      <4>1. CASE AcquireRunningLock(u)
        BY <4>1 DEF AcquireRunningLock, RunnerPC
      <4>2. CASE ReleaseRunningLock(u)
        BY <4>2 DEF ReleaseRunningLock, RunnerPC, AfterUnlock
      <4>3. CASE FailAttempt(u)
        BY <4>3 DEF FailAttempt, RunnerPC
      <4> QED
        BY <2>4, <4>1, <4>2, <4>3
    <3> QED
      BY <1>1, <3>1
  <2>5. CASE ScriptFails(u)
    BY <1>0, <2>5 DEF ScriptFails, Fault
  <2> QED
    BY <1>4, <2>1, <2>2, <2>3, <2>4, <2>5 DEF CommonStep
<1>5. ASSUME NEW w \in Worker, Recover(w) \/ Restart(w) \/ ChannelLoss(w)
      PROVE  pc'[t] \in RunnerPC
  <2>1. CASE RecoverPromote(w)
    <3>1. PICK next \in ExeOrNone : StartDrain(pc, w, next)
      BY <2>1 DEF RecoverPromote
    <3>2. pc \in [Task -> PC]
      BY DEF TypeOK
    <3> QED
      BY <1>0, <3>1, <3>2, StartMoves
  <2> QED
    BY <1>5, <2>1 DEF Recover, RecoverReclaim, Restart, ChannelLoss
<1>6. ASSUME NEW w \in Worker, Crash(w) PROVE FALSE
  BY <1>0, <1>6 DEF Crash, Fault
<1>7. CASE WatchdogQuery \/ \E e \in Exe : Watchdog(e) \/ Expiry(e) \/ Environment(e)
  BY <1>7, OthersLeaveTasks
<1>8. ASSUME NEW u \in Task, Unawaited(u)
      PROVE  pc'[t] \in RunnerPC
  <2>1. pc' = pc \/ Goto(u, "failed")
    BY <1>8 DEF Unawaited, HardTimeout, LeftRunEnds
  <2> QED
    BY <1>1, <2>1 DEF RunnerPC
<1> QED
  BY <1>2, <1>3, <1>4, <1>5, <1>6, <1>7, <1>8 DEF Next

-----------------------------------------------------------------------------
\* A step of something else.
LEMMA Spared ==
  ASSUME NEW e \in Exe, Untouched(e), InBroker(e),
         ~Queued(e)', watchdog'.exe # e, e \notin watchdog'.stuck,
         \A u \in Task : granted'[u] # e /\ (ExeOf(u) = e => pc'[u] = pc[u]),
         e \in ready => e \in ready',
         \A w \in Worker : e \in unacked[w] => e \in unacked'[w] \/ e \in ready'
  PROVE  Untouched(e)' /\ InBroker(e)'
<1>1. Untouched(e)'
  BY DEF Untouched, TakenPC, ExeOf, KindOf
<1>2. InBroker(e)'
  <2>1. \A w \in Worker : Message(w, e)' = Message(w, e) /\ pc'[Message(w, e)] = pc[Message(w, e)]
    BY TaskFacts DEF Message
  <2> QED
    BY <2>1 DEF InBroker
<1> QED
  BY <1>1, <1>2

\* A step of a handler of e outside the line.
LEMMA GoesOn ==
  ASSUME TypeOK, NEW e \in Exe, Untouched(e), InBroker(e), NEW w \in Worker, NEW label,
         Goto(Message(w, e), label), label \in {"idle", "check", "lock", "enqueue", "ack", "nack"},
         UNCHANGED <<lockVars, watchdog, granted>>,
         \A v \in Worker \ {w} : e \in unacked[v] => e \in unacked'[v],
         \/ e \in ready'
         \/ label = "check" /\ e \in unacked'[w]
         \/ label \in {"lock", "enqueue"}
         \/ /\ e \notin ready
            /\ pc[Message(w, e)] = "check" => e \notin unacked[w]
            /\ pc[Message(w, e)] \notin {"lock", "enqueue"}
  PROVE  Untouched(e)' /\ InBroker(e)'
<1> DEFINE t == Message(w, e)
<1>0. t \in Task /\ KindOf(t) = "message" /\ ExeOf(t) = e
  BY TaskFacts
<1>1. pc'[t] = label /\ \A u \in Task : u # t => pc'[u] = pc[u]
  BY <1>0, GotoMoves
<1>2. Untouched(e)'
  <2>1. ~Queued(e)'
    BY ListsStutter DEF Untouched
  <2>2. label \notin TakenPC(t)
    BY <1>0 DEF TakenPC, AfterUnlock
  <2> HIDE DEF t
  <2> QED
    BY <1>0, <1>1, <2>1, <2>2 DEF Untouched, TakenPC, ExeOf, KindOf
<1>3. \A v \in Worker \ {w} : Message(v, e) # t /\ Message(v, e) \in Task
  BY DEF Message, Task
<1>4. \A v \in Worker : Message(v, e)' = Message(v, e)
  BY DEF Message
<1>5. InBroker(e)'
  <2>1. CASE e \in ready'
    BY <2>1 DEF InBroker
  <2>2. CASE (label = "check" /\ e \in unacked'[w]) \/ label \in {"lock", "enqueue"}
    BY <1>1, <1>4, <2>2 DEF InBroker
  <2>3. CASE /\ e \notin ready
             /\ pc[t] = "check" => e \notin unacked[w]
             /\ pc[t] \notin {"lock", "enqueue"}
    <3>1. PICK v \in Worker : \/ pc[Message(v, e)] = "check" /\ e \in unacked[v]
                              \/ pc[Message(v, e)] \in {"lock", "enqueue"}
      BY <2>3 DEF InBroker
    <3>2. v # w
      BY <2>3, <3>1
    <3>3. pc'[Message(v, e)] = pc[Message(v, e)]
      BY <1>1, <1>3, <3>2
    <3> QED
      BY <1>4, <3>1, <3>2, <3>3 DEF InBroker
  <2> QED
    BY <2>1, <2>2, <2>3
<1> QED
  BY <1>2, <1>5

LEMMA MessageRemembers ==
  ASSUME TypeOK, NoLoss, NEW e \in Exe, log[e] = "EM_EXECUCAO", ~HasRunner(e),
         Untouched(e), InBroker(e), NEW w \in Worker, NEW x \in Exe,
         Deliver(w, x) \/ MessageStep(w, x)
  PROVE  HasRunner(e)' \/ (Untouched(e)' /\ InBroker(e)')
<1> DEFINE t == Message(w, x)
<1>0. t \in Task /\ KindOf(t) = "message" /\ ExeOf(t) = x
  BY TaskFacts
<1>1. ~Queued(e) /\ watchdog.exe # e /\ e \notin watchdog.stuck /\ \A u \in Task : granted[u] # e
  BY DEF Untouched
<1>2. watchdog' = watchdog /\ granted' = granted
  BY DEF Deliver, MessageStep, CheckMessage, EnqueueSerial, MarkWaiting, Settle
<1>3. \A u \in Task : u # t => pc'[u] = pc[u]
  <2>1. PICK label : Goto(t, label)
    BY DEF Deliver, MessageStep, CheckMessage, EnqueueSerial, MarkWaiting, Settle
  <2> QED
    BY <1>0, <2>1, GotoMoves
<1>4. \A v \in Worker : unacked[v] \subseteq Exe
  BY DEF TypeOK
<1>5. CASE x # e
  <2>1. \A u \in Task : ExeOf(u) = e => pc'[u] = pc[u]
    BY <1>0, <1>3, <1>5
  <2>2. /\ e \in ready => e \in ready'
        /\ \A v \in Worker : e \in unacked[v] => e \in unacked'[v]
    BY <1>5 DEF Deliver, MessageStep, CheckMessage, EnqueueSerial, MarkWaiting, Settle, TypeOK
  <2>3. ~Queued(e)'
    <3>1. CASE EnqueueSerial(w, x)
      <4>1. UNCHANGED lockVars \/ \E acquired \in BOOLEAN : TryAcquireOrEnqueue(x, acquired)
        BY <3>1 DEF EnqueueSerial
      <4> QED
        BY <1>1, <1>5, <4>1, ListsStutter, TryIgnores DEF TypeOK
    <3>2. CASE ~EnqueueSerial(w, x)
      <4>1. UNCHANGED lockVars
        BY <3>2 DEF Deliver, MessageStep, CheckMessage, MarkWaiting, Settle
      <4> QED
        BY <1>1, <4>1, ListsStutter
    <3> QED
      BY <3>1, <3>2
  <2> QED
    BY <1>1, <1>2, <2>1, <2>2, <2>3, Spared
<1>6. CASE x = e /\ Deliver(w, x)
  BY <1>6, GoesOn DEF Deliver, TypeOK
<1>7. CASE x = e /\ CheckMessage(w, x)
  <2>1. PICK label \in {"lock", "idle"} :
          /\ Goto(t, label)
          /\ \/ label = "lock" /\ UNCHANGED <<ready, unacked>>
             \/ /\ label = "idle" /\ ready' = ready \cup (unacked[w] \cap {e})
                /\ unacked' = [unacked EXCEPT ![w] = @ \ {e}]
    BY <1>7 DEF CheckMessage, NoLoss, Fault, Final
  <2>2. pc[t] = "check" /\ UNCHANGED lockVars
    BY <1>7 DEF CheckMessage
  <2>3. \A v \in Worker \ {w} : e \in unacked[v] => e \in unacked'[v]
    BY <2>1 DEF TypeOK
  <2>4. label = "lock" \/ e \in ready' \/ (e \notin ready /\ e \notin unacked[w])
    BY <2>1
  <2> QED
    BY <1>2, <1>7, <2>1, <2>2, <2>3, <2>4, GoesOn
<1>8. CASE x = e /\ EnqueueSerial(w, x)
  <2>1. PICK label \in {"run", "mark"} : Goto(t, label)
    BY <1>8 DEF EnqueueSerial, NoLoss, Fault
  <2>2. pc'[t] = label
    BY <1>0, <2>1, GotoMoves
  <2> QED
    BY <1>0, <1>8, <2>2 DEF HasRunner, RunnerPC, ExeOf
<1>9. CASE x = e /\ MarkWaiting(w, x)
  BY <1>0, <1>9 DEF MarkWaiting, HasRunner, RunnerPC
<1>10. CASE x = e /\ Settle(w, x)
  BY <1>10, GoesOn DEF Settle, TypeOK
<1> QED
  BY <1>5, <1>6, <1>7, <1>8, <1>9, <1>10 DEF MessageStep

LEMMA DrainRemembers ==
  ASSUME TypeOK, NEW e \in Exe,
         Untouched(e), InBroker(e), NEW w \in Worker, NEW x \in Exe, DrainStep(w, x)
  PROVE  Untouched(e)' /\ InBroker(e)'
<1> DEFINE t == Drain(w, x)
<1>0. t \in Task /\ KindOf(t) = "drain" /\ ExeOf(t) = x
  BY TaskFacts
<1>1. ~Queued(e) /\ watchdog.exe # e /\ e \notin watchdog.stuck /\ \A u \in Task : granted[u] # e
  BY DEF Untouched
<1>2. UNCHANGED <<watchdog, granted, ready, unacked>>
  BY DEF DrainStep, CheckDrain, TakeSlot, RequeueAtHead
<1>3. x # e
  <2>1. pc[t] \in {"check", "slot", "requeue"}
    BY DEF DrainStep, CheckDrain, TakeSlot, RequeueAtHead
  <2>2. pc[t] \in TakenPC(t)
    BY <1>0, <2>1 DEF TakenPC, PC
  <2> QED
    BY <1>0, <2>2 DEF Untouched
<1>4. ~Queued(e)' /\ \A u \in Task : ExeOf(u) = e => pc'[u] = pc[u]
  <2>1. CASE RequeueAtHead(w, x)
    <3>1. PICK next \in ExeOrNone : RequeueAtHeadAndClaimNext(x, next) /\ Proceed(t, next)
      BY <2>1 DEF RequeueAtHead
    <3>2. Ignores(e, next)
      BY <1>3, <3>1, BackIgnores DEF RequeueAtHeadAndClaimNext, TypeOK
    <3>3. next # e /\ ~Queued(e)'
      BY <1>1, <3>2 DEF Ignores
    <3> HIDE DEF t
    <3>4. \A u \in Task : u # t => pc'[u] = pc[u] \/ (next \in Exe /\ u = Drain(WorkerOf(t), next))
      BY <1>0, <3>1, ProceedMoves
    <3>5. next \in Exe => ExeOf(Drain(WorkerOf(t), next)) = next
      BY <1>0, TaskFacts, TaskParts
    <3> QED
      BY <1>0, <1>3, <3>3, <3>4, <3>5
  <2>2. CASE CheckDrain(w, x) \/ TakeSlot(w, x)
    <3>1. (\E label : Goto(t, label)) /\ UNCHANGED lockVars
      BY <2>2 DEF CheckDrain, TakeSlot
    <3> QED
      BY <1>0, <1>1, <1>3, <3>1, GotoMoves, ListsStutter
  <2> QED
    BY <2>1, <2>2 DEF DrainStep
<1> QED
  BY <1>1, <1>2, <1>4, Spared

\* Whoever holds the running lock of an execution that is in the broker alone is a
\* handler about to enter the line with it.
LEMMA HolderIsEntering ==
  ASSUME TypeOK, RunningLockHasTask, NEW e \in Exe, Untouched(e), ~HasRunner(e),
         running[e] # NoWorker
  PROVE  \E w \in Worker : pc[Message(w, e)] = "enqueue"
<1>1. PICK t \in Task : ExeOf(t) = e /\ pc[t] \in Holding
  BY HoldsBy DEF RunningLockHasTask
<1>2. pc[t] \notin TakenPC(t) /\ pc[t] \notin {"mark", "run"} /\ pc[t] \in PC
  BY <1>1 DEF Untouched, HasRunner, RunnerPC, TypeOK
<1>3. pc[t] # "idle"
  BY <1>1 DEF Holding, AfterUnlock
<1>4. KindOf(t) = "message" /\ WorkerOf(t) \in Worker
  BY <1>2, <1>3, TaskParts DEF TakenPC
<1>5. pc[t] = "enqueue"
  BY <1>1, <1>2, <1>4 DEF TakenPC, Holding
<1> QED
  BY <1>1, <1>4, <1>5, TaskIsMessage

LEMMA CommonRemembers ==
  ASSUME TypeOK, NoLoss, RunningLockHasTask, NEW e \in Exe, ~HasRunner(e),
         Untouched(e), InBroker(e), NEW t \in Task, CommonStep(t)
  PROVE  Untouched(e)' /\ InBroker(e)'
<1>0. ExeOf(t) \in Exe /\ WorkerOf(t) \in Worker /\ KindOf(t) \in {"message", "drain"}
  BY TaskParts
<1>1. ~Queued(e) /\ watchdog.exe # e /\ e \notin watchdog.stuck /\ \A u \in Task : granted[u] # e
  BY DEF Untouched
<1>2. UNCHANGED <<watchdog, ready, unacked>>
  BY DEF CommonStep, AcquireRunningLock, FinishRun, ReleaseRunningLock, ReleaseSlot,
         FailAttempt, RecordFailure, ScriptFails
<1>3. CASE ExeOf(t) = e
  <2>1. pc[t] \notin TakenPC(t) /\ pc[t] # "run"
    BY <1>3 DEF Untouched, HasRunner, RunnerPC
  <2>2. pc[t] # "idle"
    BY DEF CommonStep, AcquireRunningLock, FinishRun, ReleaseRunningLock, ReleaseSlot,
           FailAttempt, RecordFailure, ScriptFails, AfterUnlock
  <2>3. KindOf(t) # "drain"
    BY <2>1, <2>2 DEF TakenPC, TypeOK
  <2>4. AcquireRunningLock(t)
    BY <2>1, <2>3 DEF TakenPC, CommonStep, FinishRun, ReleaseRunningLock, ReleaseSlot,
           FailAttempt, RecordFailure, ScriptFails
  <2> DEFINE w == WorkerOf(t)
  <2>5. t = Message(w, e) /\ w \in Worker
    BY <1>0, <1>3, <2>3, TaskIsMessage
  <2>6. CASE Goto(t, "enqueue")
    BY <1>2, <2>4, <2>5, <2>6, GoesOn DEF AcquireRunningLock
  <2>7. CASE running[e] # NoWorker /\ Goto(t, "ack")
    <3>1. PICK v \in Worker : pc[Message(v, e)] = "enqueue"
      BY <2>7, HolderIsEntering
    <3>2. pc[t] = "lock"
      BY <2>4 DEF AcquireRunningLock
    <3>3. Message(v, e) \in Task /\ Message(v, e)' = Message(v, e)
      BY TaskFacts DEF Message
    <3>4. pc'[Message(v, e)] = "enqueue"
      BY <2>7, <3>1, <3>2, <3>3, GotoMoves
    <3>5. InBroker(e)'
      BY <3>3, <3>4 DEF InBroker
    <3>6. Untouched(e)'
      <4>1. pc'[t] = "ack" /\ \A u \in Task : u # t => pc'[u] = pc[u]
        BY <2>7, GotoMoves
      <4>2. UNCHANGED <<lockVars, granted>>
        BY <2>4 DEF AcquireRunningLock
      <4>3. "ack" \notin TakenPC(t)
        BY <2>3 DEF TakenPC, AfterUnlock
      <4>4. ~Queued(e)'
        BY <1>1, <4>2, ListsStutter
      <4> QED
        BY <1>2, <4>1, <4>2, <4>3, <4>4 DEF Untouched, TakenPC, ExeOf, KindOf
    <3> QED
      BY <3>5, <3>6
  <2> QED
    BY <1>3, <2>3, <2>4, <2>6, <2>7, <1>0 DEF AcquireRunningLock, NoLoss, Fault
<1>4. CASE ExeOf(t) # e
  <2>1. ASSUME NEW next \in ExeOrNone, Proceed(t, next), next # e
        PROVE  \A u \in Task : ExeOf(u) = e => pc'[u] = pc[u]
    <3>1. \A u \in Task : u # t =>
            pc'[u] = pc[u] \/ (next \in Exe /\ u = Drain(WorkerOf(t), next))
      BY <2>1, ProceedMoves
    <3>2. next \in Exe => ExeOf(Drain(WorkerOf(t), next)) = next
      BY <1>0, TaskFacts
    <3> QED
      BY <1>4, <2>1, <3>1, <3>2
  <2>2. ASSUME NEW label, Goto(t, label)
        PROVE  \A u \in Task : ExeOf(u) = e => pc'[u] = pc[u]
    BY <1>4, <2>2, GotoMoves
  <2>3. CASE ReleaseSlot(t)
    <3>1. PICK next \in ExeOrNone : ReleaseSlotAndPopNext(ExeOf(t), next) /\ Proceed(t, next)
      BY <2>3 DEF ReleaseSlot
    <3>2. next # e /\ ~Queued(e)'
      BY <1>1, <3>1, ReleaseIgnores DEF Ignores, TypeOK
    <3>3. granted' = granted
      BY <2>3 DEF ReleaseSlot
    <3> QED
      BY <1>1, <1>2, <2>1, <3>1, <3>2, <3>3, Spared
  <2>4. CASE FailAttempt(t)
    <3>1. PICK exhausted \in BOOLEAN, next \in ExeOrNone :
            /\ FailAttemptAndClaimNext(ExeOf(t), exhausted, next)
            /\ Goto(t, IF exhausted THEN "finalize" ELSE "remark")
            /\ granted' = [granted EXCEPT ![t] = next]
      BY <2>4 DEF FailAttempt
    <3>2. next # e /\ ~Queued(e)'
      BY <1>0, <1>1, <1>4, <3>1, BackIgnores DEF FailAttemptAndClaimNext, Ignores, TypeOK
    <3>3. \A u \in Task : granted'[u] # e
      BY <1>1, <3>1, <3>2 DEF TypeOK
    <3> QED
      BY <1>1, <1>2, <2>2, <3>1, <3>2, <3>3, Spared
  <2>5. CASE RecordFailure(t)
    <3>1. Proceed(t, granted[t]) /\ granted[t] \in ExeOrNone /\ granted[t] # e
          /\ granted' = [granted EXCEPT ![t] = NoExe] /\ UNCHANGED lockVars
      BY <1>1, <2>5 DEF RecordFailure, TypeOK
    <3>2. \A u \in Task : granted'[u] # e
      BY <1>1, <3>1, NoExeAssumption DEF TypeOK
    <3>3. ~Queued(e)'
      BY <1>1, <3>1, ListsStutter
    <3> QED
      BY <1>1, <1>2, <2>1, <3>1, <3>2, <3>3, Spared
  <2>6. CASE ScriptFails(t)
    BY <2>6 DEF ScriptFails, NoLoss, Fault
  <2>7. CASE AcquireRunningLock(t) \/ FinishRun(t) \/ ReleaseRunningLock(t)
    <3>1. (\E label : Goto(t, label)) /\ UNCHANGED lockVars /\ granted' = granted
      BY <2>7 DEF AcquireRunningLock, FinishRun, ReleaseRunningLock
    <3>2. ~Queued(e)'
      BY <1>1, <3>1, ListsStutter
    <3> QED
      BY <1>1, <1>2, <2>2, <3>1, <3>2, Spared
  <2> QED
    BY <2>3, <2>4, <2>5, <2>6, <2>7 DEF CommonStep
<1> QED
  BY <1>3, <1>4

LEMMA WorkerRemembers ==
  ASSUME TypeOK, NoLoss, NEW e \in Exe, Untouched(e), InBroker(e), NEW w \in Worker,
         Recover(w) \/ Crash(w) \/ Restart(w) \/ ChannelLoss(w)
  PROVE  Untouched(e)' /\ InBroker(e)'
<1>1. ~Queued(e) /\ watchdog.exe # e /\ e \notin watchdog.stuck /\ \A u \in Task : granted[u] # e
  BY DEF Untouched
<1>2. CASE RecoverReclaim(w)
  <2>1. ~Queued(e)'
    BY <1>1, <1>2, ReclaimIgnores DEF RecoverReclaim, TypeOK
  <2> QED
    BY <1>1, <1>2, <2>1, Spared DEF RecoverReclaim
<1>3. CASE RecoverPromote(w)
  <2>1. PICK next \in ExeOrNone :
          ReleaseSlotAndPopNext(NoExe, next) /\ StartDrain(pc, w, next)
    BY <1>3 DEF RecoverPromote
  <2>2. next # e /\ ~Queued(e)'
    BY <1>1, <2>1, ReleaseIgnores DEF Ignores, TypeOK
  <2>3. pc \in [Task -> PC]
    BY DEF TypeOK
  <2>4. \A u \in Task : pc'[u] = pc[u] \/ (next \in Exe /\ u = Drain(w, next))
    BY <2>1, <2>3, StartMoves
  <2>5. \A u \in Task : ExeOf(u) = e => pc'[u] = pc[u]
    BY <2>2, <2>4, TaskFacts
  <2> QED
    BY <1>1, <1>3, <2>2, <2>5, Spared DEF RecoverPromote
<1>4. CASE Crash(w)
  BY <1>4 DEF Crash, NoLoss, Fault
<1>5. CASE Restart(w)
  BY <1>1, <1>5, ListsStutter, Spared DEF Restart
<1>6. CASE ChannelLoss(w)
  <2>1. \A v \in Worker : e \in unacked[v] => e \in unacked'[v] \/ e \in ready'
    BY <1>6 DEF ChannelLoss, TypeOK
  <2> QED
    BY <1>1, <1>6, <2>1, ListsStutter, Spared DEF ChannelLoss
<1> QED
  BY <1>2, <1>3, <1>4, <1>5, <1>6 DEF Recover

\* What is running already is not stale: the query does not answer it, and the
\* watchdog is not at it.
LEMMA OthersRemember ==
  ASSUME TypeOK, NoLoss, NEW e \in Exe, log[e] = "EM_EXECUCAO", Untouched(e), InBroker(e),
         WatchdogQuery \/ \E x \in Exe : Watchdog(x) \/ Expiry(x) \/ Environment(x)
  PROVE  Untouched(e)' /\ InBroker(e)'
<1>1. ~Queued(e) /\ watchdog.exe # e /\ e \notin watchdog.stuck /\ \A u \in Task : granted[u] # e
  BY DEF Untouched
<1>2. UNCHANGED <<pc, granted, ready, unacked>>
  BY OthersLeaveTasks
<1>3. CASE WatchdogQuery
  <2>1. UNCHANGED lockVars /\ watchdog'.exe = watchdog.exe /\ watchdog'.stuck = Stale
    BY <1>3 DEF WatchdogQuery, TypeOK
  <2>2. ~Queued(e)' /\ e \notin Stale
    BY <1>1, <2>1, ListsStutter DEF Stale
  <2> QED
    BY <1>1, <1>2, <2>1, <2>2, Spared
<1>4. ASSUME NEW x \in Exe, Watchdog(x) PROVE Untouched(e)' /\ InBroker(e)'
  <2>1. /\ x # e /\ watchdog'.exe \in {x, NoExe} /\ watchdog'.stuck \subseteq watchdog.stuck
        /\ processing' = processing
    BY <1>1, <1>4 DEF Watchdog, WatchdogLooksInWait, WatchdogLooksInProcessing, WatchdogPushes,
                      WatchdogMoves
  <2>2. waitList' \in {waitList, RPush(waitList, x)}
    BY <1>4 DEF Watchdog, WatchdogLooksInWait, WatchdogLooksInProcessing, WatchdogPushes
  <2>3. Members(RPush(waitList, x)) = Members(waitList) \cup {x}
    BY PushList DEF TypeOK, LockTypeOK
  <2>4. ~Queued(e)'
    BY <1>1, <2>1, <2>2, <2>3 DEF Queued
  <2> QED
    BY <1>1, <1>2, <2>1, <2>4, NoExeAssumption, Spared
<1>5. ASSUME NEW x \in Exe, Expiry(x) \/ Environment(x) PROVE Untouched(e)' /\ InBroker(e)'
  <2>1. UNCHANGED <<waitList, processing, watchdog>>
    BY <1>5 DEF Expiry, LeaseRunsOut, consumerVars, RunningLockExpires, RowAges, lockVars,
              Environment, Cancel, Stall, Heartbeat, AttemptsTtlEnds, LeaseLapses, RenewLease,
              AttemptsExpire
  <2>2. ~Queued(e)'
    BY <1>1, <2>1 DEF Queued
  <2> QED
    BY <1>1, <1>2, <2>1, <2>2, Spared
<1> QED
  BY <1>3, <1>4, <1>5

\* An abandoned run has nothing to do with what is in the broker alone.
LEMMA UnawaitedRemember ==
  ASSUME TypeOK, NEW e \in Exe, ~HasRunner(e), Untouched(e), InBroker(e),
         NEW t \in Task, Unawaited(t)
  PROVE  Untouched(e)' /\ InBroker(e)'
<1>1. UNCHANGED <<lockVars, watchdog, granted, ready, unacked>>
  BY DEF Unawaited, HardTimeout, LeftRunEnds
<1>2. \A u \in Task : ExeOf(u) = e => pc'[u] = pc[u]
  <2>1. CASE HardTimeout(t)
    <3>1. ExeOf(t) # e /\ Goto(t, "failed")
      BY <2>1 DEF HardTimeout, HasRunner, RunnerPC
    <3> QED
      BY <3>1, GotoMoves
  <2>2. CASE \E kind \in LeftKind : LeftRunEnds(t, kind)
    BY <2>2 DEF LeftRunEnds
  <2> QED
    BY <2>1, <2>2 DEF Unawaited
<1>3. ~Queued(e)'
  BY <1>1, ListsStutter DEF Untouched
<1> QED
  BY <1>1, <1>2, <1>3, Spared DEF Untouched

LEMMA NextRemembers ==
  ASSUME NoLoss
  PROVE  TypeOK /\ RunningLockHasTask /\ Remembered /\ [Next]_vars => Remembered'
<1> SUFFICES ASSUME TypeOK, RunningLockHasTask, Remembered, [Next]_vars,
                    NEW e \in Exe, log'[e] = "EM_EXECUCAO"
             PROVE  HasRunner(e)' \/ (Untouched(e)' /\ InBroker(e)')
  BY DEF Remembered
<1>1. CASE UNCHANGED vars
  <2>1. log[e] = "EM_EXECUCAO" /\ UNCHANGED <<lockVars, watchdog, granted, pc, ready, unacked>>
    BY <1>1 DEF vars, consumerVars
  <2>2. HasRunner(e)' <=> HasRunner(e)
    BY <2>1 DEF HasRunner, ExeOf
  <2>3. Queued(e)' <=> Queued(e)
    BY <2>1, ListsStutter
  <2>4. Untouched(e) /\ InBroker(e) => Untouched(e)' /\ InBroker(e)'
    BY <2>1, <2>3, Spared DEF Untouched
  <2> QED
    BY <2>1, <2>2, <2>4 DEF Remembered
<1>2. CASE Next /\ log[e] # "EM_EXECUCAO"
  BY <1>2, OnlyTakeSlotOpens
<1>3. CASE Next /\ HasRunner(e)
  <2>1. PICK t \in Task : ExeOf(t) = e /\ pc[t] \in RunnerPC
    BY <1>3 DEF HasRunner
  <2>2. pc'[t] \in RunnerPC
    BY <1>3, <2>1, RunnersStay
  <2> QED
    BY <2>1, <2>2 DEF HasRunner, ExeOf
<1>4. CASE Next /\ log[e] = "EM_EXECUCAO" /\ ~HasRunner(e)
  <2>1. Untouched(e) /\ InBroker(e)
    BY <1>4 DEF Remembered
  <2> QED
    BY <1>4, <2>1, MessageRemembers, DrainRemembers, CommonRemembers, WorkerRemembers,
       OthersRemember, UnawaitedRemember DEF Next
<1> QED
  BY <1>1, <1>2, <1>3, <1>4

LEMMA RememberedInit == Init => Remembered
<1> SUFFICES ASSUME Init, NEW e \in Exe PROVE Untouched(e) /\ InBroker(e)
  BY DEF Remembered
<1>1. Members(<<>>) = {} /\ waitList = <<>> /\ processing = <<>>
  BY EmptyList DEF Init, LockInit
<1>2. \A t \in Task : "idle" \notin TakenPC(t)
  BY DEF TakenPC, AfterUnlock
<1> QED
  BY <1>1, <1>2, NoExeAssumption DEF Init, Untouched, Queued, InBroker

LEMMA RememberedIsKept == TypeOK /\ Remembered => NeverForgotten
<1> SUFFICES ASSUME TypeOK, Remembered, NEW e \in Exe, log[e] = "EM_EXECUCAO"
             PROVE  e \in ready \/ \E t \in Task : ExeOf(t) = e /\ pc[t] # "idle"
  BY DEF NeverForgotten, TypeOK, Status
<1>1. CASE HasRunner(e)
  BY <1>1 DEF HasRunner, RunnerPC
<1>2. CASE InBroker(e)
  BY <1>2, TaskFacts DEF InBroker
<1> QED
  BY <1>1, <1>2 DEF Remembered

\* While no worker dies and Redis and the database answer, no accepted execution is
\* forgotten: leases that lapse under their owner, channels that close under a
\* handler, runs given up at the hard timeout, tenants without room, expired counters
\* and cancellations, any number of them and in any order, leave it in the broker, in
\* the line, with a task, or marked where the watchdog looks for it.
THEOREM NoExecutionForgotten ==
  ASSUME FaultKinds \cap {"crash", "redis", "reply", "database"} = {}
  PROVE  Spec => []NeverForgotten
<1>1. NoLoss /\ FaultKinds \cap {"crash", "redis", "reply"} = {}
  BY DEF NoLoss
<1>2. Init => TypeOK /\ RunningLockHasTask /\ Remembered
  BY TypeInit, RememberedInit DEF Init, RunningLockHasTask
<1>3. TypeOK /\ RunningLockHasTask /\ Remembered /\ [Next]_vars
        => (TypeOK /\ RunningLockHasTask /\ Remembered)'
  BY <1>1, NextKeepsTypes, NextKeepsLockTask, NextRemembers
<1>4. Spec => [](TypeOK /\ RunningLockHasTask /\ Remembered)
  BY <1>2, <1>3, PTL DEF Spec
<1> QED
  BY <1>4, RememberedIsKept, PTL

-----------------------------------------------------------------------------
(***************************************************************************)
(* Without lost calls.  The whole consumer, and not only the scripts,      *)
(* keeps the line of SerialFifo, and no success is reopened, while workers *)
(* live, channels stay open, leases are kept and Redis and the database    *)
(* answer.  Tenants without room, cancellations and attempts counters that *)
(* expire are allowed in any number.  Each of the other kinds of fault     *)
(* alone breaks both properties, but for a hard timeout: it breaks only    *)
(* the second.                                                             *)
(*                                                                         *)
(* The invariant says, of one execution, which of its tasks may be alive   *)
(* together: a message nobody has entered into the line yet excludes all   *)
(* drains (FreshInv), one that has just entered it keeps them out with the *)
(* running lock (EnteringInv), the owner of the slot excludes all but      *)
(* handlers about to ack (BesideOwner), and beside the one that finalizes  *)
(* the last attempt nobody gets further than to see it decided (GoneInv).  *)
(* An execution whose row was once old is past its message and is in the   *)
(* lists or nowhere: the two looks of the watchdog do not miss it, and it  *)
(* pushes only what has left the line (OldInv, WatchInv).                  *)
(***************************************************************************)
Calm == FaultKinds \subseteq {"capacity", "cancel", "attemptsTtl"}

\* The holder or a waiter.
OnLine(e) == e \in holders \cup Members(waitList)

NobodyJoins ==
  /\ \A x \in Exe : OnLine(x)' => OnLine(x)
  /\ Members(waitList') \subseteq Members(waitList)
OnlyJoins(e) ==
  /\ \A x \in Exe : OnLine(x)' => OnLine(x) \/ x = e
  /\ Members(waitList') \subseteq Members(waitList) \cup {e}

\* Whoever becomes the holder out of the line is among the claims, and stays there.
Claims == \A x \in holders' : \/ x \in Members(processing')
                              \/ x \in holders /\ x \notin Members(processing)

LEMMA CalmFaults ==
  ASSUME Calm
  PROVE  \A kind \in {"crash", "channel", "database", "redis", "reply", "stall", "hardTimeout"} :
           ~Fault(kind)
BY DEF Calm, Fault

\* The holder leaves: the head of the line, if any, is promoted.
LEMMA HeadIsNext ==
  ASSUME HolderInv, NEW h \in Exe, HeldBy(h), NEW next,
         ClaimNext({}, waitList, <<>>, next)
  PROVE  /\ next \in Exe => holders' = {next} /\ OnLine(next)
         /\ next \notin Exe => next = NoExe /\ holders' = {}
         /\ next # h /\ ~OnLine(h)' /\ NobodyJoins /\ Claims
<1>1. waitList \in Seq(Exe) /\ h \notin Members(waitList)
  BY DEF HolderInv, HeldBy
<1>2. CASE waitList # <<>>
  <2>1. /\ next = Head(waitList) /\ holders' = {next} /\ waitList' = Tail(waitList)
        /\ processing' = RPush(<<>>, next)
    BY <1>2 DEF ClaimNext
  <2>2. next \in Exe /\ Members(waitList) = {next} \cup Members(waitList')
    BY <1>1, <1>2, <2>1, PopList
  <2>3. next \in Members(processing')
    <3>1. processing' = <<next>>
      BY <2>1 DEF RPush
    <3> QED
      BY <2>2, <3>1, SingletonList
  <2> QED
    BY <1>1, <2>1, <2>2, <2>3 DEF OnLine, NobodyJoins, Claims
<1>3. CASE waitList = <<>>
  <2>1. next = NoExe /\ holders' = {} /\ waitList' = waitList
    BY <1>3 DEF ClaimNext
  <2> QED
    BY <1>1, <2>1, NoExeAssumption DEF OnLine, NobodyJoins, Claims
<1> QED
  BY <1>2, <1>3

\* A newcomer is the only one that can join.
LEMMA TryJoins ==
  ASSUME HolderInv, NEW e \in Exe, NEW acquired \in BOOLEAN, TryAcquireOrEnqueue(e, acquired)
  PROVE  /\ OnlyJoins(e)
         /\ holders' = IF acquired THEN {e} ELSE holders
         /\ processing' = processing
<1>1. /\ holders' = IF acquired THEN {e} ELSE Live
      /\ waitList' \in {waitList, RPush(waitList, e)} /\ processing' = processing
  BY DEF TryAcquireOrEnqueue
<1>2. Live = holders /\ waitList \in Seq(Exe)
  BY DEF HolderInv, Live
<1>3. Members(RPush(waitList, e)) = Members(waitList) \cup {e}
  BY <1>2, PushList
<1> QED
  BY <1>1, <1>2, <1>3 DEF OnLine, OnlyJoins

LEMMA HolderInvGives ==
  ASSUME HolderInv
  PROVE  processing \in Seq(Exe) /\ holders \subseteq Exe
<1>1. ASSUME NEW h \in Exe, HeldBy(h) PROVE processing \in Seq(Exe) /\ holders \subseteq Exe
  <2>1. <<h>> \in Seq(Exe) /\ <<>> \in Seq(Exe)
    BY SingletonList, EmptyList
  <2> QED
    BY <1>1, <2>1 DEF HeldBy
<1>2. CASE Free
  BY <1>2, EmptyList DEF Free
<1> QED
  BY <1>1, <1>2 DEF HolderInv

\* Recovery: nothing changes while the slot is held, and a free one goes to the head.
LEMMA RecoveryPromotes ==
  ASSUME HolderInv, NEW next, ReleaseSlotAndPopNext(NoExe, next)
  PROVE  /\ next \in Exe => holders' = {next} /\ OnLine(next)
         /\ next \notin Exe => next = NoExe /\ holders' = holders
         /\ NobodyJoins /\ Claims
<1>0. /\ LRem(processing, NoExe) \in Seq(Exe)
      /\ \A x \in Exe : x \in Members(processing) => x \in Members(LRem(processing, NoExe))
  BY HolderInvGives, LRemProperties, NoExeAssumption
<1>1. Live \ {NoExe} = holders /\ waitList \in Seq(Exe)
  BY NoExeAssumption DEF HolderInv, Live, Free, HeldBy
<1>2. ClaimNext(holders, waitList, LRem(processing, NoExe), next)
  BY <1>1 DEF ReleaseSlotAndPopNext
<1>3. CASE holders = {} /\ waitList # <<>>
  <2>1. /\ next = Head(waitList) /\ holders' = {next} /\ waitList' = Tail(waitList)
        /\ processing' = RPush(LRem(processing, NoExe), next)
    BY <1>2, <1>3 DEF ClaimNext
  <2>2. next \in Exe /\ Members(waitList) = {next} \cup Members(waitList')
    BY <1>1, <1>3, <2>1, PopList
  <2>3. next \in Members(processing')
    BY <1>0, <2>1, <2>2, PushList
  <2> QED
    BY <2>1, <2>2, <2>3 DEF OnLine, NobodyJoins, Claims
<1>4. CASE holders # {} \/ waitList = <<>>
  <2>1. /\ next = NoExe /\ holders' = holders /\ waitList' = waitList
        /\ processing' = LRem(processing, NoExe)
    BY <1>2, <1>4 DEF ClaimNext
  <2> QED
    BY <1>0, <2>1, HolderInvGives, NoExeAssumption DEF OnLine, NobodyJoins, Claims
<1> QED
  BY <1>3, <1>4

LEMMA ReclaimJoins ==
  ASSUME HolderInv, ReclaimOrphans
  PROVE  NobodyJoins /\ holders' = holders /\ Claims
<1>1. Live = holders /\ waitList \in Seq(Exe)
  BY DEF HolderInv, Live
<1>2. CASE Free
  <2>1. waitList' = waitList
    BY <1>1, <1>2 DEF ReclaimOrphans, Free
  <2> QED
    BY <1>1, <1>2, <2>1 DEF ReclaimOrphans, OnLine, NobodyJoins, Claims, Free
<1>3. CASE ~Free
  <2>1. waitList' = waitList /\ processing' = processing /\ holders' = holders
    BY <1>1, <1>3 DEF HolderInv, HeldBy, ReclaimOrphans
  <2> QED
    BY <2>1 DEF OnLine, NobodyJoins, Claims
<1> QED
  BY <1>2, <1>3

\* The owner of a slot is the holder, and its scripts leave ClaimNext a free slot.
LEMMA OwnerHolds ==
  ASSUME TypeOK, SlotInv, HolderInv, NEW t \in Task, NEW e \in Exe, OwnsSlot(t, e)
  PROVE  /\ HeldBy(e) /\ e \in holders /\ OnLine(e)
         /\ Live \ {e} = {} /\ LRem(processing, e) = <<>>
<1>1. e \in holders
  BY DEF SlotInv, Live
<1> QED
  BY <1>1, HolderGivesBack DEF OnLine

-----------------------------------------------------------------------------
(* What a step does to one execution e: its tasks, its status, its running  *)
(* lock and its message in the broker.                                      *)

\* The operations of each kind of task, when no error sends it elsewhere.
MessagePC == {"idle", "check", "lock", "enqueue", "mark", "run", "succeeded", "failed",
              "enqueued", "release", "fail", "remark", "finalize", "ack"}
DrainPC == {"idle", "check", "lock", "slot", "run", "succeeded", "failed", "full",
            "release", "fail", "requeue", "remark", "finalize"}
KindInv == \A t \in Task : pc[t] \in IF KindOf(t) = "message" THEN MessagePC ELSE DrainPC

SamePC(t) == pc'[t] = pc[t] /\ granted'[t] = granted[t]
SameData(e) == log'[e] = log[e] /\ running'[e] = running[e] /\ (e \in ready' <=> e \in ready)

\* Task t moves and no other task of its execution does.
Moves(t, from, to) ==
  /\ pc[t] = from /\ pc'[t] = to
  /\ \A u \in Task : ExeOf(u) = ExeOf(t) /\ u # t => SamePC(u)

\* Its row grows old when nobody attends to it.
Ages(e) ==
  /\ log[e] = "AGUARDANDO_LOCK_SERIAL" /\ log'[e] = "AGUARDANDO_STALE"
  /\ \A t \in Task : (ExeOf(t) = e => pc[t] \in {"idle", "run"}) /\ granted[t] # e

\* Nothing happens to e, but that it may be cancelled, its row grow old or its lock
\* expire.
Rests(e) ==
  /\ \A u \in Task : ExeOf(u) = e => SamePC(u)
  /\ e \in ready' <=> e \in ready
  /\ \/ log'[e] = log[e]
     \/ log[e] = "EM_EXECUCAO" /\ log'[e] = "CANCELADO"
     \/ Ages(e)
  /\ \/ running'[e] = running[e]
     \/ /\ running'[e] = NoWorker
        /\ \A u \in Task : ExeOf(u) = e /\ WorkerOf(u) = running[e] => pc[u] \notin Holding

\* A drain of e is started: e is in the line.
Starts(t) == KindOf(t) = "drain" /\ Moves(t, "idle", "check") /\ OnLine(ExeOf(t)) /\ SameData(ExeOf(t))

\* The broker delivers the message, or gets it back.
Delivers(t) ==
  LET e == ExeOf(t) IN
  /\ KindOf(t) = "message" /\ log'[e] = log[e] /\ running'[e] = running[e]
  /\ \/ Moves(t, "idle", "check") /\ e \in ready /\ e \notin ready'
     \/ Moves(t, "check", "idle") /\ (e \in ready => e \in ready')

\* t goes on and leaves nothing behind but its own program counter.
GoesOnly(t) ==
  LET e == ExeOf(t) IN
  /\ SameData(e)
  /\ \/ Moves(t, "check", "lock") /\ log[e] \notin Final
     \/ KindOf(t) = "message" /\ Moves(t, "check", "ack")
     \/ KindOf(t) = "drain" /\ Moves(t, "check", "release")
     \/ KindOf(t) = "message" /\ Moves(t, "lock", "ack")
     \/ KindOf(t) = "drain" /\ Moves(t, "lock", "release")
     \/ KindOf(t) = "message" /\ (Moves(t, "enqueue", "run") \/ Moves(t, "enqueue", "mark"))
     \/ KindOf(t) = "message" /\ Moves(t, "ack", "idle")
     \/ KindOf(t) = "drain" /\ Moves(t, "slot", "full")
     \/ Moves(t, "fail", "remark") /\ granted'[t] = e
     \/ Moves(t, "fail", "finalize") /\ ~OnLine(e)'

\* t writes the status of its execution.
Writes(t) ==
  LET e == ExeOf(t) IN
  /\ running'[e] = running[e] /\ (e \in ready' <=> e \in ready)
  /\ \/ KindOf(t) = "message" /\ Moves(t, "mark", "enqueued") /\ log'[e] = "AGUARDANDO_LOCK_SERIAL"
     \/ KindOf(t) = "drain" /\ Moves(t, "slot", "run") /\ log'[e] = "EM_EXECUCAO"
     \/ Moves(t, "run", "succeeded") /\ log'[e] = "SUCESSO"
     \/ Moves(t, "run", "failed") /\ log'[e] \in {"ERRO", "CANCELADO"}

\* t takes the running lock or gives it back.
Locks(t) ==
  LET e == ExeOf(t) IN
  /\ log'[e] = log[e] /\ (e \in ready' <=> e \in ready)
  /\ \/ /\ Moves(t, "lock", IF KindOf(t) = "message" THEN "enqueue" ELSE "slot")
        /\ running[e] = NoWorker /\ running'[e] = WorkerOf(t)
     \/ /\ pc[t] \in DOMAIN AfterUnlock /\ Moves(t, pc[t], AfterUnlock[pc[t]])
        /\ running'[e] = IF running[e] = WorkerOf(t) THEN NoWorker ELSE running[e]

\* t is through, and may start a drain of its own execution.
Proceeds(t) ==
  LET e == ExeOf(t) IN
  /\ running'[e] = running[e] /\ (e \in ready' <=> e \in ready)
  /\ \/ pc[t] \in {"release", "requeue"} /\ log'[e] = log[e]
     \/ pc[t] = "remark" /\ log'[e] = "AGUARDANDO_LOCK_SERIAL"
     \/ pc[t] = "finalize" /\ log'[e] = "ERRO"
  /\ pc'[t] \in IF KindOf(t) = "message" THEN {"ack"} ELSE {"idle", "check"}
  /\ pc'[t] = "check" => OnLine(e)
  /\ \A u \in Task : ExeOf(u) = e /\ u # t =>
       /\ granted'[u] = granted[u]
       /\ \/ pc'[u] = pc[u]
          \/ KindOf(u) = "drain" /\ pc[u] = "idle" /\ pc'[u] = "check" /\ OnLine(e)

Acts(t) == Delivers(t) \/ GoesOnly(t) \/ Writes(t) \/ Locks(t) \/ Proceeds(t)

Changes(e) == Rests(e) \/ \E t \in Task : ExeOf(t) = e /\ (Starts(t) \/ Acts(t))

(* Every step is one of these for every execution.                          *)

\* Other executions rest, or one of their drains is started.
Alone(x) == \A e \in Exe : e # x => Rests(e) \/ \E d \in Task : ExeOf(d) = e /\ Starts(d)

LEMMA GotoFrame ==
  ASSUME TypeOK, NEW t \in Task, NEW label, Goto(t, label), granted' = granted
  PROVE  /\ Moves(t, pc[t], label)
         /\ \A u \in Task : ExeOf(u) # ExeOf(t) => SamePC(u)
BY GotoMoves DEF Moves, SamePC

LEMMA RestsBy ==
  ASSUME NEW e \in Exe, \A u \in Task : ExeOf(u) = e => SamePC(u), SameData(e)
  PROVE  Rests(e)
BY DEF Rests, SameData

LEMMA GotoAlone ==
  ASSUME TypeOK, NEW t \in Task, NEW label, Goto(t, label), granted' = granted,
         \A e \in Exe : e # ExeOf(t) => SameData(e)
  PROVE  Alone(ExeOf(t))
BY GotoFrame, RestsBy DEF Alone

\* A drain is started, if anybody was promoted.
LEMMA StartFrame ==
  ASSUME NEW p \in [Task -> PC], NEW w \in Worker, NEW next \in ExeOrNone,
         StartDrain(p, w, next), next \in Exe => OnLine(next),
         NEW e \in Exe
  PROVE  \A u \in Task : ExeOf(u) = e =>
           \/ pc'[u] = p[u]
           \/ /\ p[u] = "idle" /\ pc'[u] = "check" /\ u = Drain(w, e) /\ e = next
              /\ KindOf(u) = "drain" /\ OnLine(e)
<1> SUFFICES ASSUME NEW u \in Task, ExeOf(u) = e, pc'[u] # p[u]
             PROVE  /\ p[u] = "idle" /\ pc'[u] = "check" /\ u = Drain(w, e) /\ e = next
                    /\ KindOf(u) = "drain" /\ OnLine(e)
  OBVIOUS
<1>1. p[u] = "idle" /\ pc'[u] = "check" /\ next \in Exe /\ u = Drain(w, next)
  BY StartMoves
<1>2. ExeOf(u) = next /\ KindOf(u) = "drain"
  BY <1>1, TaskFacts
<1> QED
  BY <1>1, <1>2

\* The same of executions that were not stirred before.
LEMMA StartAlone ==
  ASSUME NEW p \in [Task -> PC], NEW w \in Worker, NEW next \in ExeOrNone,
         StartDrain(p, w, next), next \in Exe => OnLine(next),
         NEW e \in Exe, SameData(e),
         \A u \in Task : ExeOf(u) = e => p[u] = pc[u] /\ granted'[u] = granted[u]
  PROVE  Rests(e) \/ \E d \in Task : ExeOf(d) = e /\ Starts(d)
<1>1. \A u \in Task : ExeOf(u) = e =>
        \/ pc'[u] = pc[u]
        \/ /\ pc[u] = "idle" /\ pc'[u] = "check" /\ u = Drain(w, e)
           /\ KindOf(u) = "drain" /\ OnLine(e)
  BY StartFrame
<1>2. CASE \A u \in Task : ExeOf(u) = e => pc'[u] = pc[u]
  BY <1>2, RestsBy DEF SamePC
<1>3. ASSUME NEW d \in Task, ExeOf(d) = e, pc'[d] # pc[d] PROVE Starts(d)
  <2>1. /\ pc[d] = "idle" /\ pc'[d] = "check" /\ d = Drain(w, e)
        /\ KindOf(d) = "drain" /\ OnLine(e)
    BY <1>1, <1>3
  <2>2. \A u \in Task : ExeOf(u) = e /\ u # d => SamePC(u)
    BY <1>1, <2>1 DEF SamePC
  <2> QED
    BY <1>3, <2>1, <2>2 DEF Starts, Moves
<1> QED
  BY <1>2, <1>3

\* t is through with the lock.
LEMMA ProceedFrame ==
  ASSUME TypeOK, NEW t \in Task, NEW next \in ExeOrNone, Proceed(t, next),
         next \in Exe => OnLine(next),
         \A u \in Task : u # t => granted'[u] = granted[u],
         \A e \in Exe : e # ExeOf(t) => SameData(e)
  PROVE  /\ pc'[t] \in IF KindOf(t) = "message" THEN {"ack"} ELSE {"idle", "check"}
         /\ pc'[t] = "check" => OnLine(ExeOf(t))
         /\ \A u \in Task : ExeOf(u) = ExeOf(t) /\ u # t =>
              /\ granted'[u] = granted[u]
              /\ \/ pc'[u] = pc[u]
                 \/ /\ KindOf(u) = "drain" /\ pc[u] = "idle" /\ pc'[u] = "check"
                    /\ OnLine(ExeOf(t))
         /\ Alone(ExeOf(t))
<1> DEFINE p == [pc EXCEPT ![t] = IF KindOf(t) = "message" THEN "ack" ELSE "idle"]
           w == WorkerOf(t)
           x == ExeOf(t)
<1>1. p \in [Task -> PC] /\ w \in Worker /\ x \in Exe /\ StartDrain(p, w, next)
  BY TaskParts DEF TypeOK, PC, Proceed
<1>2. /\ p[t] = IF KindOf(t) = "message" THEN "ack" ELSE "idle"
      /\ \A u \in Task : u # t => p[u] = pc[u]
  BY DEF TypeOK
<1> HIDE DEF p, w, x
<1>3. \A u \in Task : ExeOf(u) = x =>
        \/ pc'[u] = p[u]
        \/ /\ p[u] = "idle" /\ pc'[u] = "check" /\ KindOf(u) = "drain" /\ OnLine(x)
  BY <1>1, StartFrame
<1>4. ASSUME NEW e \in Exe, e # x
      PROVE  Rests(e) \/ \E d \in Task : ExeOf(d) = e /\ Starts(d)
  <2>1. \A u \in Task : ExeOf(u) = e => p[u] = pc[u] /\ granted'[u] = granted[u]
    BY <1>2, <1>4 DEF x
  <2>2. SameData(e)
    BY <1>4 DEF x
  <2> QED
    BY <1>1, <2>1, <2>2, StartAlone
<1>5. pc'[t] \in IF KindOf(t) = "message" THEN {"ack"} ELSE {"idle", "check"}
  BY <1>2, <1>3 DEF x
<1>6. pc'[t] = "check" => OnLine(x)
  BY <1>2, <1>3 DEF x
<1> QED
  BY <1>2, <1>3, <1>4, <1>5, <1>6 DEF x, Alone

LEMMA MessageChanges ==
  ASSUME TypeOK, Calm, KindInv, NEW w \in Worker, NEW e \in Exe,
         Deliver(w, e) \/ MessageStep(w, e)
  PROVE  Acts(Message(w, e)) /\ Alone(e)
<1> DEFINE t == Message(w, e)
<1>0. t \in Task /\ KindOf(t) = "message" /\ ExeOf(t) = e /\ granted' = granted
      /\ running' = running
  BY TaskFacts DEF Deliver, MessageStep, CheckMessage, EnqueueSerial, MarkWaiting, Settle
<1> HIDE DEF t
<1> SUFFICES Acts(t) /\ Alone(e)
  BY DEF t
<1>1. \A kind \in {"database", "redis", "reply"} : ~Fault(kind)
  BY CalmFaults
<1>2. ASSUME NEW label, Goto(t, label)
      PROVE  /\ Moves(t, pc[t], label)
             /\ (\A x \in Exe : x # e => SameData(x)) => Alone(e)
  BY <1>0, <1>2, GotoFrame, GotoAlone
<1>3. CASE Deliver(w, e)
  <2>1. pc[t] = "idle" /\ e \in ready /\ Goto(t, "check") /\ ready' = ready \ {e} /\ log' = log
    BY <1>3 DEF Deliver, t
  <2> QED
    BY <1>0, <1>2, <2>1 DEF Acts, Delivers, SameData
<1>4. CASE CheckMessage(w, e)
  <2>1. pc[t] = "check" /\ log' = log
    BY <1>4 DEF CheckMessage, t
  <2>2. CASE ready' = ready /\ (Goto(t, "ack") \/ (log[e] \notin Final /\ Goto(t, "lock")))
    BY <1>0, <1>2, <2>1, <2>2 DEF Acts, GoesOnly, SameData
  <2>3. CASE Goto(t, "idle") /\ ready' = ready \cup (unacked[w] \cap {e})
    BY <1>0, <1>2, <2>1, <2>3 DEF Acts, Delivers, SameData
  <2> QED
    BY <1>1, <1>4, <2>2, <2>3 DEF CheckMessage, t
<1>5. CASE EnqueueSerial(w, e)
  <2>1. pc[t] = "enqueue" /\ log' = log /\ ready' = ready
        /\ (Goto(t, "run") \/ Goto(t, "mark"))
    BY <1>1, <1>5 DEF EnqueueSerial, t
  <2> QED
    BY <1>0, <1>2, <2>1 DEF Acts, GoesOnly, SameData
<1>6. CASE MarkWaiting(w, e)
  <2>1. /\ pc[t] = "mark" /\ ready' = ready /\ Goto(t, "enqueued")
        /\ log' = [log EXCEPT ![e] = "AGUARDANDO_LOCK_SERIAL"]
    BY <1>1, <1>6 DEF MarkWaiting, SetLog, t
  <2> QED
    BY <1>0, <1>2, <2>1 DEF Acts, Writes, SameData, TypeOK
<1>7. CASE Settle(w, e)
  <2>1. pc[t] \in {"ack", "nack"} /\ Goto(t, "idle") /\ log' = log
        /\ (pc[t] = "ack" => ready' = ready)
    BY <1>7 DEF Settle, t
  <2>2. pc[t] = "ack"
    BY <1>0, <2>1 DEF KindInv, MessagePC
  <2> QED
    BY <1>0, <1>2, <2>1, <2>2 DEF Acts, GoesOnly, SameData
<1> QED
  BY <1>3, <1>4, <1>5, <1>6, <1>7 DEF MessageStep, t

LEMMA DrainChanges ==
  ASSUME TypeOK, Calm, SlotInv, HolderInv, NEW w \in Worker, NEW e \in Exe,
         DrainStep(w, e)
  PROVE  Acts(Drain(w, e)) /\ Alone(e)
<1> DEFINE t == Drain(w, e)
<1>0. t \in Task /\ KindOf(t) = "drain" /\ ExeOf(t) = e /\ granted' = granted
      /\ running' = running /\ ready' = ready
  BY TaskFacts DEF DrainStep, CheckDrain, TakeSlot, RequeueAtHead
<1> HIDE DEF t
<1> SUFFICES Acts(t) /\ Alone(e)
  BY DEF t
<1>1. \A kind \in {"database", "redis", "reply"} : ~Fault(kind)
  BY CalmFaults
<1>2. ASSUME NEW label, Goto(t, label)
      PROVE  /\ Moves(t, pc[t], label)
             /\ (\A x \in Exe : x # e => SameData(x)) => Alone(e)
  BY <1>0, <1>2, GotoFrame, GotoAlone
<1>3. CASE CheckDrain(w, e)
  <2>1. /\ pc[t] = "check" /\ log' = log
        /\ Goto(t, "release") \/ (log[e] \notin Final /\ Goto(t, "lock"))
    BY <1>1, <1>3 DEF CheckDrain, t
  <2> QED
    BY <1>0, <1>2, <2>1 DEF Acts, GoesOnly, SameData
<1>4. CASE TakeSlot(w, e)
  <2>1. /\ pc[t] = "slot"
        /\ \/ Goto(t, "run") /\ log' = [log EXCEPT ![e] = "EM_EXECUCAO"]
           \/ Goto(t, "full") /\ log' = log
    BY <1>1, <1>4 DEF TakeSlot, SetLog, t
  <2> QED
    BY <1>0, <1>2, <2>1 DEF Acts, Writes, GoesOnly, SameData, TypeOK
<1>5. CASE RequeueAtHead(w, e)
  <2>1. PICK next \in ExeOrNone : RequeueAtHeadAndClaimNext(e, next) /\ Proceed(t, next)
    BY <1>5 DEF RequeueAtHead, t
  <2>2. pc[t] = "requeue" /\ log' = log
    BY <1>5 DEF RequeueAtHead, t
  <2>3. OwnsSlot(t, e)
    BY <1>0, <2>2 DEF OwnsSlot
  <2>4. HeldBy(e) /\ OnLine(e) /\ Live \ {e} = {} /\ LRem(processing, e) = <<>>
    BY <1>0, <2>3, OwnerHolds
  <2>5. ClaimNext({}, LPushIfAbsent(waitList, e), <<>>, next)
    BY <2>1, <2>4 DEF RequeueAtHeadAndClaimNext
  <2>6. next = e
    BY <2>4, <2>5, StayRefines
  <2>7. \A x \in Exe : SameData(x)
    BY <1>0, <2>2 DEF SameData
  <2> QED
    BY <1>0, <2>1, <2>2, <2>4, <2>6, <2>7, ProceedFrame DEF Acts, Proceeds
<1> QED
  BY <1>3, <1>4, <1>5 DEF DrainStep, t

LEMMA CommonChanges ==
  ASSUME TypeOK, Calm, SlotInv, HolderInv, KindInv, NEW t \in Task, CommonStep(t)
  PROVE  Acts(t) /\ Alone(ExeOf(t))
<1> DEFINE e == ExeOf(t)
<1>0. e \in Exe /\ WorkerOf(t) \in Worker /\ KindOf(t) \in {"message", "drain"}
  BY TaskParts
<1>1. \A kind \in {"database", "redis", "reply"} : ~Fault(kind)
  BY CalmFaults
<1>2. ASSUME NEW label, Goto(t, label), granted' = granted
      PROVE  /\ Moves(t, pc[t], label)
             /\ (\A x \in Exe : x # e => SameData(x)) => Alone(e)
  BY <1>2, GotoFrame, GotoAlone
<1> HIDE DEF e
<1>3. ready' = ready
  BY DEF CommonStep, AcquireRunningLock, FinishRun, ReleaseRunningLock, ReleaseSlot,
         FailAttempt, RecordFailure, ScriptFails
<1>4. CASE AcquireRunningLock(t)
  <2>1. pc[t] = "lock" /\ log' = log /\ granted' = granted
    BY <1>4 DEF AcquireRunningLock
  <2>2. CASE /\ running[e] = NoWorker
             /\ running' = [running EXCEPT ![e] = WorkerOf(t)]
             /\ Goto(t, IF KindOf(t) = "message" THEN "enqueue" ELSE "slot")
    BY <1>0, <1>2, <1>3, <2>1, <2>2 DEF Acts, Locks, SameData, TypeOK, e
  <2>3. CASE running' = running /\ Goto(t, IF KindOf(t) = "message" THEN "ack" ELSE "release")
    <3>1. Alone(e) /\ SameData(e)
      BY <1>0, <1>2, <1>3, <2>1, <2>3 DEF SameData
    <3>2. Moves(t, "lock", IF KindOf(t) = "message" THEN "ack" ELSE "release")
      BY <1>2, <2>1, <2>3
    <3> QED
      BY <1>0, <3>1, <3>2 DEF Acts, GoesOnly, e
  <2> QED
    BY <1>1, <1>4, <2>2, <2>3 DEF AcquireRunningLock, e
<1>5. CASE FinishRun(t)
  <2>1. pc[t] = "run" /\ granted' = granted /\ running' = running
    BY <1>5 DEF FinishRun
  <2>2. PICK result \in {"SUCESSO", "ERRO", "CANCELADO"} :
          /\ log' = [log EXCEPT ![e] = result]
          /\ Goto(t, IF result = "SUCESSO" THEN "succeeded" ELSE "failed")
    BY <1>1, <1>5 DEF FinishRun, SetLog, e
  <2>3. Alone(e) /\ log'[e] = result
    BY <1>0, <1>2, <1>3, <2>1, <2>2 DEF SameData, TypeOK
  <2>4. Moves(t, "run", IF result = "SUCESSO" THEN "succeeded" ELSE "failed")
    BY <1>2, <2>1, <2>2
  <2> QED
    BY <1>3, <2>1, <2>2, <2>3, <2>4 DEF Acts, Writes, e
<1>6. CASE ReleaseRunningLock(t)
  <2>1. /\ pc[t] \in DOMAIN AfterUnlock /\ Goto(t, AfterUnlock[pc[t]])
        /\ running' = [running EXCEPT ![e] = IF @ = WorkerOf(t) THEN NoWorker ELSE @]
        /\ log' = log /\ granted' = granted
    BY <1>1, <1>6 DEF ReleaseRunningLock, e
  <2>2. Alone(e) /\ Moves(t, pc[t], AfterUnlock[pc[t]])
    BY <1>0, <1>2, <1>3, <2>1 DEF SameData, TypeOK
  <2>3. running'[e] = IF running[e] = WorkerOf(t) THEN NoWorker ELSE running[e]
    BY <1>0, <2>1 DEF TypeOK
  <2> QED
    BY <1>3, <2>1, <2>2, <2>3 DEF Acts, Locks, e
<1>7. CASE ReleaseSlot(t)
  <2>1. PICK next \in ExeOrNone : ReleaseSlotAndPopNext(e, next) /\ Proceed(t, next)
    BY <1>7 DEF ReleaseSlot, e
  <2>2. pc[t] = "release" /\ log' = log /\ granted' = granted /\ running' = running
    BY <1>7 DEF ReleaseSlot
  <2>3. OwnsSlot(t, e)
    BY <2>2 DEF OwnsSlot, e
  <2>4. HeldBy(e) /\ Live \ {e} = {} /\ LRem(processing, e) = <<>>
    BY <1>0, <2>3, OwnerHolds
  <2>5. ClaimNext({}, waitList, <<>>, next)
    BY <2>1, <2>4 DEF ReleaseSlotAndPopNext
  <2>6. next \in Exe => OnLine(next)
    BY <1>0, <2>4, <2>5, HeadIsNext
  <2>7. \A x \in Exe : SameData(x)
    BY <1>3, <2>2 DEF SameData
  <2> QED
    BY <1>0, <2>1, <2>2, <2>6, <2>7, ProceedFrame DEF Acts, Proceeds, SameData, e
<1>8. CASE FailAttempt(t)
  <2>1. PICK exhausted \in BOOLEAN, next \in ExeOrNone :
          /\ FailAttemptAndClaimNext(e, exhausted, next)
          /\ Goto(t, IF exhausted THEN "finalize" ELSE "remark")
          /\ granted' = [granted EXCEPT ![t] = next]
    BY <1>8 DEF FailAttempt, e
  <2>2. pc[t] = "fail" /\ log' = log /\ running' = running
    BY <1>8 DEF FailAttempt
  <2>3. OwnsSlot(t, e)
    BY <2>2 DEF OwnsSlot, e
  <2>4. HeldBy(e) /\ Live \ {e} = {} /\ LRem(processing, e) = <<>>
    BY <1>0, <2>3, OwnerHolds
  <2>5. \A x \in Exe : SameData(x)
    BY <1>3, <2>2 DEF SameData
  <2>6. /\ Moves(t, "fail", IF exhausted THEN "finalize" ELSE "remark")
        /\ \A u \in Task : ExeOf(u) # e => SamePC(u)
    BY <2>1, <2>2, GotoMoves DEF Moves, SamePC, TypeOK, e
  <2>7. Alone(e)
    BY <2>5, <2>6, RestsBy DEF Alone
  <2>8. granted'[t] = next
    BY <2>1 DEF TypeOK
  <2>9. CASE exhausted
    <3>1. ClaimNext({}, waitList, <<>>, next)
      BY <2>1, <2>4, <2>9 DEF FailAttemptAndClaimNext
    <3>2. ~OnLine(e)'
      BY <1>0, <2>4, <3>1, HeadIsNext
    <3> QED
      BY <1>0, <2>5, <2>6, <2>7, <2>9, <3>2 DEF Acts, GoesOnly, e
  <2>10. CASE ~exhausted
    <3>1. ClaimNext({}, LPushIfAbsent(waitList, e), <<>>, next)
      BY <2>1, <2>4, <2>10 DEF FailAttemptAndClaimNext
    <3>2. next = e
      BY <1>0, <2>4, <3>1, StayRefines
    <3> QED
      BY <1>0, <2>5, <2>6, <2>7, <2>8, <2>10, <3>2 DEF Acts, GoesOnly, e
  <2> QED
    BY <2>9, <2>10
<1>9. CASE RecordFailure(t)
  <2> DEFINE status == IF pc[t] = "remark" THEN "AGUARDANDO_LOCK_SERIAL" ELSE "ERRO"
  <2>1. /\ pc[t] \in {"remark", "finalize"} /\ Proceed(t, granted[t])
        /\ granted' = [granted EXCEPT ![t] = NoExe] /\ running' = running
        /\ log' = [log EXCEPT ![e] = status]
    BY <1>1, <1>9 DEF RecordFailure, SetLog, e
  <2>2. log'[e] = status /\ \A x \in Exe : x # e => SameData(x)
    BY <1>0, <1>3, <2>1 DEF SameData, TypeOK
  <2>3. granted[t] \in ExeOrNone /\ \A u \in Task : u # t => granted'[u] = granted[u]
    BY <2>1 DEF TypeOK
  <2>4. granted[t] \in Exe => OnLine(granted[t])
    BY OwnerHolds DEF OwnsSlot
  <2> QED
    BY <1>0, <1>3, <2>1, <2>2, <2>3, <2>4, ProceedFrame DEF Acts, Proceeds, e
<1>10. CASE ScriptFails(t)
  BY <1>1, <1>10 DEF ScriptFails
<1> QED
  BY <1>4, <1>5, <1>6, <1>7, <1>8, <1>9, <1>10 DEF CommonStep, e

LEMMA WorkerChanges ==
  ASSUME TypeOK, Calm, SlotInv, HolderInv, NEW w \in Worker,
         Recover(w) \/ Crash(w) \/ Restart(w) \/ ChannelLoss(w),
         NEW e \in Exe
  PROVE  Rests(e) \/ \E d \in Task : ExeOf(d) = e /\ Starts(d)
<1>1. SameData(e) /\ granted' = granted
  BY CalmFaults DEF Recover, RecoverReclaim, RecoverPromote, Crash, Restart, ChannelLoss, SameData
<1>2. CASE RecoverPromote(w)
  <2>1. PICK next \in ExeOrNone : ReleaseSlotAndPopNext(NoExe, next) /\ StartDrain(pc, w, next)
    BY <1>2 DEF RecoverPromote
  <2>2. next \in Exe => OnLine(next)
    BY <2>1, RecoveryPromotes
  <2>3. pc \in [Task -> PC]
    BY DEF TypeOK
  <2> QED
    BY <1>1, <2>1, <2>2, <2>3, StartAlone
<1>3. CASE RecoverReclaim(w) \/ Restart(w)
  BY <1>1, <1>3, RestsBy DEF RecoverReclaim, Restart, SamePC
<1> QED
  BY <1>2, <1>3, CalmFaults DEF Recover, Crash, ChannelLoss

LEMMA OthersRest ==
  ASSUME TypeOK, Calm, NEW e \in Exe,
         WatchdogQuery \/ \E x \in Exe : Watchdog(x) \/ Expiry(x) \/ Environment(x)
  PROVE  Rests(e)
<1>1. pc' = pc /\ granted' = granted /\ ready' = ready
  BY OthersLeaveTasks
<1>2. ASSUME NEW x \in Exe, Cancel(x) PROVE Rests(e)
  BY <1>1, <1>2 DEF Cancel, SetLog, Rests, SamePC, TypeOK
<1>3. ASSUME NEW x \in Exe, RunningLockExpires(x) PROVE Rests(e)
  BY <1>1, <1>3, HoldsBy DEF RunningLockExpires, Rests, SamePC, TypeOK
<1>4. ASSUME NEW x \in Exe, RowAges(x) PROVE Rests(e)
  <2>1. running' = running /\ (log'[e] = log[e] \/ Ages(e))
    BY <1>4 DEF RowAges, SetLog, Ages, TypeOK
  <2> QED
    BY <1>1, <1>4, <2>1 DEF Rests, SamePC, RowAges
<1>5. ASSUME NEW x \in Exe, Watchdog(x) \/ Expiry(x) \/ Environment(x),
             ~Cancel(x), ~RunningLockExpires(x), ~RowAges(x)
      PROVE  Rests(e)
  <2>1. log' = log /\ running' = running
    BY <1>5, CalmFaults DEF Watchdog, WatchdogLooksInWait, WatchdogLooksInProcessing, WatchdogPushes,
         WatchdogMoves, Expiry, LeaseRunsOut, consumerVars,
         Environment, Stall, Heartbeat, AttemptsTtlEnds
  <2> QED
    BY <1>1, <2>1 DEF Rests, SamePC
<1>6. CASE WatchdogQuery
  BY <1>1, <1>6 DEF WatchdogQuery, Rests, SamePC
<1> QED
  BY <1>2, <1>3, <1>4, <1>5, <1>6

\* No run is left behind.
LEMMA CalmAwaits ==
  ASSUME Calm, left = {}, NEW t \in Task
  PROVE  ~Unawaited(t)
BY CalmFaults DEF Unawaited, HardTimeout, LeftRunEnds

LEMMA NextChanges ==
  ASSUME TypeOK, Calm, left = {}, KindInv, SlotInv, HolderInv, Next, NEW e \in Exe
  PROVE  Changes(e)
<1>1. ASSUME NEW w \in Worker, NEW x \in Exe, Deliver(w, x) \/ MessageStep(w, x)
      PROVE  Changes(e)
  BY <1>1, MessageChanges, TaskFacts DEF Changes, Alone
<1>2. ASSUME NEW w \in Worker, NEW x \in Exe, DrainStep(w, x)
      PROVE  Changes(e)
  BY <1>2, DrainChanges, TaskFacts DEF Changes, Alone
<1>3. ASSUME NEW t \in Task, CommonStep(t) PROVE Changes(e)
  BY <1>3, CommonChanges DEF Changes, Alone
<1>4. ASSUME NEW w \in Worker, Recover(w) \/ Crash(w) \/ Restart(w) \/ ChannelLoss(w)
      PROVE  Changes(e)
  BY <1>4, WorkerChanges DEF Changes
<1>5. CASE WatchdogQuery \/ \E x \in Exe : Watchdog(x) \/ Expiry(x) \/ Environment(x)
  BY <1>5, OthersRest DEF Changes
<1> QED
  BY <1>1, <1>2, <1>3, <1>4, <1>5, CalmAwaits DEF Next

LEMMA KindsStay ==
  ASSUME TypeOK, Calm, left = {}, KindInv, SlotInv, HolderInv, Next
  PROVE  KindInv'
<1> DEFINE Mine(t) == IF KindOf(t) = "message" THEN MessagePC ELSE DrainPC
<1> SUFFICES ASSUME NEW u \in Task PROVE pc'[u] \in Mine(u)
  BY DEF KindInv, KindOf
<1>0. ExeOf(u) \in Exe /\ pc[u] \in Mine(u) /\ KindOf(u) \in {"message", "drain"}
  BY TaskParts DEF KindInv
<1>1. CASE pc'[u] = pc[u]
  BY <1>0, <1>1
<1>2. ASSUME NEW t \in Task, ExeOf(t) = ExeOf(u), Starts(t) \/ Acts(t), t # u, pc'[u] # pc[u]
      PROVE  pc'[u] \in Mine(u)
  BY <1>2 DEF Starts, Acts, Delivers, GoesOnly, Writes, Locks, Proceeds, Moves, SamePC, DrainPC
<1>3. CASE Starts(u) \/ Delivers(u) \/ GoesOnly(u) \/ Writes(u)
  BY <1>0, <1>3 DEF Starts, Delivers, GoesOnly, Writes, Moves, DrainPC, MessagePC
<1>4. CASE Locks(u)
  BY <1>0, <1>4 DEF Locks, Moves, DrainPC, MessagePC, AfterUnlock
<1>5. CASE Proceeds(u)
  BY <1>0, <1>5 DEF Proceeds, DrainPC, MessagePC
<1>6. Changes(ExeOf(u))
  BY <1>0, NextChanges
<1> QED
  BY <1>1, <1>2, <1>3, <1>4, <1>5, <1>6 DEF Changes, Rests, SamePC, Acts

-----------------------------------------------------------------------------
(* What it does to the line.                                                *)

\* Every holder has its owner.
OwnedInv == \A h \in holders : \E t \in Task : OwnsSlot(t, h)

\* Its row is old, or it was when the watchdog asked.
Old(e) == log[e] = "AGUARDANDO_STALE" \/ e \in watchdog.stuck \/ watchdog.exe = e

\* Its message is gone: what holds the slot for it was promoted, and is a claim.
PastMessage(e) ==
  /\ e \notin ready
  /\ \A t \in Task : KindOf(t) = "message" /\ ExeOf(t) = e => pc[t] = "idle"
  /\ e \in holders => e \in Members(processing)

OldInv == \A e \in Exe : Old(e) => PastMessage(e)

\* Between its looks the watchdog misses nothing, and what it pushes is not in line.
WatchInv ==
  /\ watchdog.exe = NoExe <=> watchdog.step = "idle"
  /\ \A e \in Exe : watchdog.exe = e =>
       /\ e \notin Members(waitList)
       /\ watchdog.step = "absent" => e \notin holders

\* An execution joins by the message that brings it or by the watchdog.
Enters(x) == \E t \in Task : /\ KindOf(t) = "message" /\ ExeOf(t) = x
                            /\ pc[t] = "enqueue" /\ pc'[t] \in {"run", "mark"}
Pushed(x) == watchdog.exe = x /\ watchdog'.exe = NoExe
Joins(x) == Enters(x) \/ Pushed(x)

LineKept ==
  /\ HolderInv' /\ FifoStep /\ OwnedInv'
  /\ \A x \in Exe : OnLine(x)' => OnLine(x) \/ Joins(x)
  /\ \A x \in Exe : x \in Members(waitList') => x \in Members(waitList) \/ Joins(x)
  /\ \A x \in holders' : \/ x \in Members(processing')
                         \/ x \in holders /\ x \notin Members(processing)
                         \/ Enters(x)

\* Nobody new in the line.
LEMMA KeptByAll ==
  ASSUME HolderInv', FifoStep, OwnedInv', NobodyJoins, Claims
  PROVE  LineKept
BY DEF LineKept, NobodyJoins, Claims

LEMMA OwnersGoOn ==
  ASSUME OwnedInv, holders' \subseteq holders, granted' = granted, NEW t \in Task,
         \A u \in Task : u # t => pc'[u] = pc[u],
         pc[t] \in Owning(t) => pc'[t] \in Owning(t)
  PROVE  OwnedInv'
<1> SUFFICES ASSUME NEW h \in holders' PROVE \E u \in Task : OwnsSlot(u, h)'
  BY DEF OwnedInv
<1>1. PICK u \in Task : OwnsSlot(u, h)
  BY DEF OwnedInv
<1>2. OwnsSlot(u, h)'
  BY <1>1, OwnsBy, OwnsByAfter
<1> QED
  BY <1>2

LEMMA OwnersRest ==
  ASSUME OwnedInv, holders' \subseteq holders, granted' = granted, pc' = pc
  PROVE  OwnedInv'
<1> SUFFICES ASSUME NEW h \in holders' PROVE \E u \in Task : OwnsSlot(u, h)'
  BY DEF OwnedInv
<1>1. PICK u \in Task : OwnsSlot(u, h)
  BY DEF OwnedInv
<1>2. OwnsSlot(u, h)'
  BY <1>1, OwnsBy, OwnsByAfter
<1> QED
  BY <1>2

\* Who is promoted and drained has an owner.
LEMMA DrainOwns ==
  ASSUME NEW p \in [Task -> PC], NEW w \in Worker, NEW next \in Exe, StartDrain(p, w, next)
  PROVE  Drain(w, next) \in Task /\ OwnsSlot(Drain(w, next), next)'
<1>1. Drain(w, next) \in Task /\ ExeOf(Drain(w, next)) = next /\ KindOf(Drain(w, next)) = "drain"
  BY TaskFacts
<1>2. pc'[Drain(w, next)] = "check"
  BY <1>1, NoExeAssumption DEF StartDrain
<1> QED
  BY <1>1, <1>2, OwnsByAfter DEF Owning

LEMMA ProceedOwns ==
  ASSUME TypeOK, NEW t \in Task, NEW next \in Exe, Proceed(t, next), holders' = {next}
  PROVE  OwnedInv'
<1> DEFINE p == [pc EXCEPT ![t] = IF KindOf(t) = "message" THEN "ack" ELSE "idle"]
<1>1. p \in [Task -> PC] /\ WorkerOf(t) \in Worker /\ StartDrain(p, WorkerOf(t), next)
  BY TaskParts DEF TypeOK, PC, Proceed
<1> HIDE DEF p
<1>2. OwnsSlot(Drain(WorkerOf(t), next), next)' /\ Drain(WorkerOf(t), next) \in Task
  BY <1>1, DrainOwns
<1> QED
  BY <1>2 DEF OwnedInv

\* A step that leaves the lock alone.
LEMMA LockRests ==
  ASSUME HolderInv, UNCHANGED <<holders, lapsed, waitList, processing>>, OwnedInv'
  PROVE  LineKept
<1>1. HolderInv' /\ FifoStep
  BY DEF HolderInv, Free, HeldBy, FifoStep, Line
<1>2. NobodyJoins /\ Claims
  BY DEF NobodyJoins, Claims, OnLine
<1> QED
  BY <1>1, <1>2, KeptByAll

\* One that keeps its place.
LEMMA StaysKept ==
  ASSUME HolderInv', Line' = Line, OwnedInv', NEW e \in Exe, e \in holders,
         holders' = {e}, waitList' = waitList, processing' = <<e>>
  PROVE  LineKept
<1>1. NobodyJoins
  BY DEF NobodyJoins, OnLine
<1>2. Claims
  BY SingletonList DEF Claims
<1> QED
  BY <1>1, <1>2, KeptByAll DEF FifoStep

LEMMA MessageLine ==
  ASSUME TypeOK, Calm, SlotInv, HolderInv, OwnedInv, NEW w \in Worker, NEW e \in Exe,
         Deliver(w, e) \/ MessageStep(w, e)
  PROVE  LineKept
<1> DEFINE t == Message(w, e)
<1>0. t \in Task /\ KindOf(t) = "message" /\ ExeOf(t) = e /\ granted' = granted
  BY TaskFacts DEF Deliver, MessageStep, CheckMessage, EnqueueSerial, MarkWaiting, Settle
<1> HIDE DEF t
<1>1. CASE EnqueueSerial(w, e)
  <2>1. PICK acquired \in BOOLEAN :
          /\ TryAcquireOrEnqueue(e, acquired)
          /\ Goto(t, IF acquired THEN "run" ELSE "mark")
    BY <1>1, CalmFaults DEF EnqueueSerial, t
  <2>2. /\ pc[t] = "enqueue" /\ pc'[t] = IF acquired THEN "run" ELSE "mark"
        /\ \A u \in Task : u # t => pc'[u] = pc[u]
    BY <1>0, <1>1, <2>1, GotoMoves DEF EnqueueSerial, t
  <2>3. HolderInv' /\ FifoStep
    BY <2>1, TryRefines DEF FifoStep
  <2>4. /\ OnlyJoins(e) /\ holders' = IF acquired THEN {e} ELSE holders
        /\ processing' = processing
    BY <2>1, TryJoins
  <2>5. OwnedInv'
    <3>1. CASE acquired
      <4>1. OwnsSlot(t, e)'
        BY <1>0, <2>2, <3>1, OwnsByAfter DEF Owning
      <4> QED
        BY <1>0, <2>4, <3>1, <4>1 DEF OwnedInv
    <3>2. CASE ~acquired
      <4>1. pc[t] \notin Owning(t)
        BY <1>0, <2>2 DEF Owning
      <4> QED
        BY <1>0, <2>2, <2>4, <3>2, <4>1, OwnersGoOn
    <3> QED
      BY <3>1, <3>2
  <2>6. Enters(e)
    BY <1>0, <2>2 DEF Enters
  <2>7. \A x \in holders' : \/ x \in Members(processing')
                            \/ x \in holders /\ x \notin Members(processing)
                            \/ Enters(x)
    BY <2>4, <2>6, HolderInvGives
  <2>8. /\ \A x \in Exe : OnLine(x)' => OnLine(x) \/ Joins(x)
        /\ \A x \in Exe : x \in Members(waitList') => x \in Members(waitList) \/ Joins(x)
    BY <2>4, <2>6 DEF OnlyJoins, Joins
  <2> QED
    BY <2>3, <2>5, <2>7, <2>8 DEF LineKept
<1>2. CASE ~EnqueueSerial(w, e)
  <2>1. UNCHANGED lockVars
    BY <1>2 DEF Deliver, MessageStep, CheckMessage, MarkWaiting, Settle
  <2>2. PICK label : Goto(t, label) /\ pc[t] \in {"idle", "check", "mark", "ack", "nack"}
    BY <1>2 DEF Deliver, MessageStep, CheckMessage, MarkWaiting, Settle, t
  <2>3. pc[t] \notin Owning(t) /\ \A u \in Task : u # t => pc'[u] = pc[u]
    BY <1>0, <2>2, GotoMoves DEF Owning
  <2>4. OwnedInv'
    BY <1>0, <2>1, <2>3, OwnersGoOn DEF lockVars
  <2> QED
    BY <2>1, <2>4, LockRests DEF lockVars
<1> QED
  BY <1>1, <1>2

LEMMA DrainLine ==
  ASSUME TypeOK, Calm, SlotInv, HolderInv, OwnedInv, NEW w \in Worker, NEW e \in Exe,
         DrainStep(w, e)
  PROVE  LineKept
<1> DEFINE t == Drain(w, e)
<1>0. t \in Task /\ KindOf(t) = "drain" /\ ExeOf(t) = e /\ granted' = granted
  BY TaskFacts DEF DrainStep, CheckDrain, TakeSlot, RequeueAtHead
<1> HIDE DEF t
<1>1. CASE RequeueAtHead(w, e)
  <2>1. PICK next \in ExeOrNone : RequeueAtHeadAndClaimNext(e, next) /\ Proceed(t, next)
    BY <1>1 DEF RequeueAtHead, t
  <2>2. OwnsSlot(t, e)
    BY <1>0, <1>1 DEF RequeueAtHead, OwnsSlot, t
  <2>3. HeldBy(e) /\ OnLine(e) /\ Live \ {e} = {} /\ LRem(processing, e) = <<>>
    BY <1>0, <2>2, OwnerHolds
  <2>4. ClaimNext({}, LPushIfAbsent(waitList, e), <<>>, next)
    BY <2>1, <2>3 DEF RequeueAtHeadAndClaimNext
  <2>5. /\ HolderInv' /\ Line' = Line
        /\ next = e /\ holders' = {e} /\ waitList' = waitList /\ processing' = <<e>>
    BY <2>3, <2>4, StayRefines
  <2>6. OwnedInv' /\ e \in holders
    BY <1>0, <2>1, <2>3, <2>5, ProceedOwns DEF HeldBy
  <2> QED
    BY <2>5, <2>6, StaysKept
<1>2. CASE CheckDrain(w, e) \/ TakeSlot(w, e)
  <2>1. UNCHANGED lockVars
    BY <1>2 DEF CheckDrain, TakeSlot
  <2>2. PICK label \in {"release", "lock", "run", "full"} : Goto(t, label)
    BY <1>2, CalmFaults DEF CheckDrain, TakeSlot, t
  <2>3. pc'[t] \in Owning(t) /\ \A u \in Task : u # t => pc'[u] = pc[u]
    BY <1>0, <2>2, GotoMoves DEF Owning
  <2>4. OwnedInv'
    BY <1>0, <2>1, <2>3, OwnersGoOn DEF lockVars
  <2> QED
    BY <2>1, <2>4, LockRests DEF lockVars
<1> QED
  BY <1>1, <1>2 DEF DrainStep

LEMMA CommonLine ==
  ASSUME TypeOK, Calm, SlotInv, HolderInv, OwnedInv, NEW t \in Task, CommonStep(t)
  PROVE  LineKept
<1> DEFINE e == ExeOf(t)
<1>0. e \in Exe /\ WorkerOf(t) \in Worker
  BY TaskParts
<1> HIDE DEF e
<1>1. ASSUME pc[t] \in {"release", "fail"}
      PROVE  HeldBy(e) /\ OnLine(e) /\ Live \ {e} = {} /\ LRem(processing, e) = <<>>
  BY <1>0, <1>1, OwnerHolds DEF OwnsSlot, e
\* The holder leaves, and the next one is drained or granted to t.
<1>2. ASSUME NEW next \in ExeOrNone, HeldBy(e), ClaimNext({}, waitList, <<>>, next),
             next \in Exe => OwnedInv' \/ OwnsSlot(t, next)'
      PROVE  LineKept
  <2>1. HolderInv' /\ FifoStep
    BY <1>0, <1>2, LeaveRefines DEF FifoStep
  <2>2. /\ next \in Exe => holders' = {next}
        /\ next \notin Exe => holders' = {}
        /\ NobodyJoins /\ Claims
    BY <1>0, <1>2, HeadIsNext
  <2>3. OwnedInv'
    BY <1>2, <2>2 DEF OwnedInv
  <2> QED
    BY <2>1, <2>2, <2>3, KeptByAll
<1>3. CASE ReleaseSlot(t)
  <2>1. PICK next \in ExeOrNone : ReleaseSlotAndPopNext(e, next) /\ Proceed(t, next)
    BY <1>3 DEF ReleaseSlot, e
  <2>2. HeldBy(e) /\ Live \ {e} = {} /\ LRem(processing, e) = <<>>
    BY <1>1, <1>3 DEF ReleaseSlot
  <2>3. ClaimNext({}, waitList, <<>>, next)
    BY <2>1, <2>2 DEF ReleaseSlotAndPopNext
  <2>4. next \in Exe => holders' = {next}
    BY <1>0, <2>2, <2>3, HeadIsNext
  <2>5. next \in Exe => OwnedInv'
    BY <2>1, <2>4, ProceedOwns
  <2> QED
    BY <1>2, <2>2, <2>3, <2>5
<1>4. CASE FailAttempt(t)
  <2>1. PICK exhausted \in BOOLEAN, next \in ExeOrNone :
          /\ FailAttemptAndClaimNext(e, exhausted, next)
          /\ granted' = [granted EXCEPT ![t] = next]
    BY <1>4 DEF FailAttempt, e
  <2>2. HeldBy(e) /\ OnLine(e) /\ Live \ {e} = {} /\ LRem(processing, e) = <<>>
    BY <1>1, <1>4 DEF FailAttempt
  <2>3. OwnsSlot(t, next)'
    BY <2>1, OwnsByAfter DEF TypeOK
  <2>4. CASE exhausted
    <3>1. ClaimNext({}, waitList, <<>>, next)
      BY <2>1, <2>2, <2>4 DEF FailAttemptAndClaimNext
    <3> QED
      BY <1>2, <2>2, <2>3, <3>1
  <2>5. CASE ~exhausted
    <3>1. ClaimNext({}, LPushIfAbsent(waitList, e), <<>>, next)
      BY <2>1, <2>2, <2>5 DEF FailAttemptAndClaimNext
    <3>2. /\ HolderInv' /\ Line' = Line
          /\ next = e /\ holders' = {e} /\ waitList' = waitList /\ processing' = <<e>>
      BY <1>0, <2>2, <3>1, StayRefines
    <3>3. OwnedInv' /\ e \in holders
      BY <2>2, <2>3, <3>2 DEF OwnedInv, HeldBy
    <3> QED
      BY <1>0, <3>2, <3>3, StaysKept
  <2> QED
    BY <2>4, <2>5
<1>5. CASE RecordFailure(t)
  <2>1. /\ pc[t] \in {"remark", "finalize"} /\ Proceed(t, granted[t])
        /\ granted' = [granted EXCEPT ![t] = NoExe] /\ UNCHANGED lockVars
    BY <1>5 DEF RecordFailure
  <2>2. CASE granted[t] \in Exe
    <3>1. OwnsSlot(t, granted[t])
      BY DEF OwnsSlot
    <3>2. HeldBy(granted[t])
      BY <2>2, <3>1, OwnerHolds
    <3>3. holders' = {granted[t]}
      BY <2>1, <3>2 DEF HeldBy, lockVars
    <3>4. OwnedInv'
      BY <2>1, <2>2, <3>3, ProceedOwns
    <3> QED
      BY <2>1, <3>4, LockRests DEF lockVars
  <2>3. CASE granted[t] = NoExe
    <3>1. \A u \in Task : u # t => pc'[u] = pc[u]
      BY <2>1, <2>3, NoExeAssumption DEF Proceed, StartDrain, TypeOK
    <3>2. pc[t] \notin Owning(t) /\ granted' = granted
      BY <2>1, <2>3 DEF Owning, TypeOK
    <3>3. OwnedInv'
      BY <2>1, <3>1, <3>2, OwnersGoOn DEF lockVars
    <3> QED
      BY <2>1, <3>3, LockRests DEF lockVars
  <2> QED
    BY <2>2, <2>3 DEF TypeOK, ExeOrNone
<1>6. CASE ScriptFails(t)
  BY <1>6, CalmFaults DEF ScriptFails
<1>7. CASE AcquireRunningLock(t) \/ FinishRun(t) \/ ReleaseRunningLock(t)
  <2>1. UNCHANGED lockVars /\ granted' = granted
    BY <1>7 DEF AcquireRunningLock, FinishRun, ReleaseRunningLock
  <2>2. PICK label : /\ Goto(t, label)
                     /\ pc[t] \in Owning(t) => label \in Owning(t)
    <3>1. CASE AcquireRunningLock(t)
      BY <3>1 DEF AcquireRunningLock, Owning
    <3>2. CASE FinishRun(t)
      BY <3>2 DEF FinishRun, Owning
    <3>3. CASE ReleaseRunningLock(t)
      BY <3>3 DEF ReleaseRunningLock, Owning, AfterUnlock
    <3> QED
      BY <1>7, <3>1, <3>2, <3>3
  <2>3. OwnedInv'
    BY <2>1, <2>2, GotoMoves, OwnersGoOn DEF lockVars
  <2> QED
    BY <2>1, <2>3, LockRests DEF lockVars
<1> QED
  BY <1>3, <1>4, <1>5, <1>6, <1>7 DEF CommonStep

LEMMA WorkerLine ==
  ASSUME TypeOK, Calm, HolderInv, OwnedInv, NEW w \in Worker,
         Recover(w) \/ Crash(w) \/ Restart(w) \/ ChannelLoss(w)
  PROVE  LineKept
<1>1. granted' = granted
  BY CalmFaults DEF Recover, RecoverReclaim, RecoverPromote, Crash, Restart, ChannelLoss
<1>2. CASE RecoverPromote(w)
  <2>1. PICK next \in ExeOrNone : ReleaseSlotAndPopNext(NoExe, next) /\ StartDrain(pc, w, next)
    BY <1>2 DEF RecoverPromote
  <2>2. HolderInv' /\ FifoStep
    BY <2>1, RecoveryRefines DEF Releases, FifoStep
  <2>3. /\ next \in Exe => holders' = {next}
        /\ next \notin Exe => next = NoExe /\ holders' = holders
        /\ NobodyJoins /\ Claims
    BY <2>1, RecoveryPromotes
  <2>4. CASE next \in Exe
    <3>1. Drain(w, next) \in Task /\ OwnsSlot(Drain(w, next), next)'
      BY <2>1, <2>4, DrainOwns DEF TypeOK
    <3>2. OwnedInv'
      BY <2>3, <2>4, <3>1 DEF OwnedInv
    <3> QED
      BY <2>2, <2>3, <3>2, KeptByAll
  <2>5. CASE next \notin Exe
    <3>1. OwnedInv'
      BY <1>1, <2>1, <2>3, <2>5, OwnersRest DEF StartDrain
    <3> QED
      BY <2>2, <2>3, <3>1, KeptByAll
  <2> QED
    BY <2>4, <2>5
<1>3. CASE RecoverReclaim(w)
  <2>1. ReclaimOrphans /\ pc' = pc
    BY <1>3 DEF RecoverReclaim
  <2>2. HolderInv' /\ FifoStep /\ NobodyJoins /\ holders' = holders /\ Claims
    BY <2>1, RecoveryRefines, ReclaimJoins DEF FifoStep
  <2>3. OwnedInv'
    BY <1>1, <2>1, <2>2, OwnersRest
  <2> QED
    BY <2>2, <2>3, KeptByAll
<1>4. CASE Restart(w)
  <2>1. pc' = pc /\ UNCHANGED lockVars
    BY <1>4 DEF Restart
  <2>2. OwnedInv'
    BY <1>1, <2>1, OwnersRest DEF lockVars
  <2> QED
    BY <2>1, <2>2, LockRests DEF lockVars
<1> QED
  BY <1>2, <1>3, <1>4, CalmFaults DEF Recover, Crash, ChannelLoss

\* The watchdog brings back only what has left the line; no lease runs out, because
\* every holder has its owner.
LEMMA OthersLine ==
  ASSUME TypeOK, Calm, HolderInv, OwnedInv, WatchInv,
         WatchdogQuery \/ \E x \in Exe : Watchdog(x) \/ Expiry(x) \/ Environment(x)
  PROVE  LineKept
<1>1. pc' = pc /\ granted' = granted
  BY OthersLeaveTasks
<1>2. ASSUME NEW x \in Exe, WatchdogPushes(x) PROVE LineKept
  <2>1. /\ waitList' = RPush(waitList, x) /\ UNCHANGED <<holders, processing, lapsed>>
        /\ watchdog.exe = x /\ watchdog.step = "absent" /\ watchdog'.exe = NoExe
    BY <1>2 DEF WatchdogPushes, WatchdogMoves
  <2>2. x \notin holders \cup Members(waitList)
    BY <2>1 DEF WatchInv
  <2>3. HolderInv' /\ FifoStep
    BY <2>1, <2>2, PushJoins DEF FifoStep, HolderInv
  <2>4. OwnedInv'
    BY <1>1, <2>1, OwnersRest
  <2>5. Members(waitList') = Members(waitList) \cup {x}
    BY <2>1, PushList DEF HolderInv
  <2>6. Joins(x)
    BY <2>1 DEF Joins, Pushed
  <2>7. \A y \in Exe : OnLine(y)' => OnLine(y) \/ y = x
    BY <2>1, <2>5 DEF OnLine
  <2> QED
    BY <2>1, <2>3, <2>4, <2>5, <2>6, <2>7 DEF LineKept
<1>3. ASSUME NEW x \in Exe, LeaseRunsOut(x) PROVE FALSE
  BY <1>3 DEF LeaseRunsOut, LeaseLapses, OwnedInv
<1>4. ASSUME NEW x \in Exe, Heartbeat(x) PROVE FALSE
  BY <1>4 DEF Heartbeat, HolderInv
<1>5. ASSUME UNCHANGED <<holders, lapsed, waitList, processing>> PROVE LineKept
  <2>1. OwnedInv'
    BY <1>1, <1>5, OwnersRest
  <2> QED
    BY <1>5, <2>1, LockRests
<1>6. ASSUME NEW x \in Exe, Watchdog(x) \/ Expiry(x) \/ Environment(x)
      PROVE  LineKept
  <2>1. CASE ~WatchdogPushes(x)
    <3>1. UNCHANGED <<holders, lapsed, waitList, processing>>
      BY <1>3, <1>4, <1>6, <2>1, CalmFaults DEF Watchdog, WatchdogLooksInWait,
           WatchdogLooksInProcessing, WatchdogMoves, Expiry, RunningLockExpires, RowAges, lockVars,
           Environment, Cancel, Stall, AttemptsTtlEnds, AttemptsExpire
    <3> QED
      BY <1>5, <3>1
  <2> QED
    BY <1>2, <2>1
<1>7. CASE WatchdogQuery
  BY <1>5, <1>7 DEF WatchdogQuery, lockVars
<1> QED
  BY <1>6, <1>7

LEMMA NextLine ==
  ASSUME TypeOK, Calm, left = {}, SlotInv, HolderInv, OwnedInv, WatchInv, Next
  PROVE  LineKept
BY MessageLine, DrainLine, CommonLine, WorkerLine, OthersLine, CalmAwaits DEF Next

-----------------------------------------------------------------------------
(* Which tasks of one execution are alive together.                         *)

Handles(t, e) == t \in Task /\ ExeOf(t) = e

\* The message of e is in the broker, or a handler has not entered it yet.
Fresh(e) ==
  \/ e \in ready
  \/ \E m \in Task : Handles(m, e) /\ KindOf(m) = "message" /\ pc[m] \in {"check", "lock", "enqueue"}

\* There is one message, in the broker or with one handler.
OneMessage(e) ==
  \A m \in Task : Handles(m, e) /\ KindOf(m) = "message" /\ pc[m] # "idle" =>
    /\ e \notin ready
    /\ \A n \in Task : Handles(n, e) /\ KindOf(n) = "message" /\ pc[n] # "idle" => n = m

\* Nobody has touched an execution whose message nobody has entered.
FreshInv(e) ==
  Fresh(e) => /\ ~OnLine(e) /\ log[e] \in {"EM_EXECUCAO", "CANCELADO"}
              /\ \A d \in Task : Handles(d, e) /\ KindOf(d) = "drain" => pc[d] = "idle"

\* The running lock is its holder's, and there is one holder.
LockHeld(e) ==
  \A t \in Task : Handles(t, e) /\ pc[t] \in Holding =>
    /\ running[e] = WorkerOf(t)
    /\ \A u \in Task : Handles(u, e) /\ pc[u] \in Holding => u = t

\* While a handler that entered e holds the running lock, no drain of e gets to run.
EnteringInv(e) ==
  \A m, d \in Task : /\ Handles(m, e) /\ pc[m] \in {"mark", "enqueued"}
                     /\ Handles(d, e) /\ KindOf(d) = "drain"
                     => pc[d] \in {"idle", "check", "lock", "release"}

\* After a failed attempt the slot is still e's own.
RemarkInv(e) == \A t \in Task : Handles(t, e) /\ pc[t] = "remark" => granted[t] = e

\* After the last one e has left the line.  The watchdog, which had asked before, may
\* put it back; but the failed run is on record, and a drain skips what is decided.
GoneInv(e) ==
  \A t \in Task : Handles(t, e) /\ pc[t] = "finalize" =>
    /\ e \notin ready
    /\ \A u \in Task : Handles(u, e) /\ u # t =>
         pc[u] \in IF KindOf(u) = "message" THEN {"idle", "ack"} ELSE {"idle", "check", "release"}

FailedInv(e) ==
  \A t \in Task : Handles(t, e) /\ pc[t] \in {"failed", "fail", "finalize"} =>
    log[e] \in {"ERRO", "CANCELADO"}

\* Whoever may still write the status does not find a success.
Undecided(e) ==
  \A t \in Task : Handles(t, e) =>
    /\ pc[t] \in {"lock", "enqueue", "mark", "slot", "failed", "full", "fail", "requeue",
                  "remark", "finalize"} => log[e] # "SUCESSO"
    /\ pc[t] = "run" => log[e] \in {"EM_EXECUCAO", "CANCELADO"}

ExeInv(e) ==
  /\ OneMessage(e) /\ FreshInv(e) /\ LockHeld(e) /\ EnteringInv(e)
  /\ RemarkInv(e) /\ GoneInv(e) /\ FailedInv(e) /\ Undecided(e)

\* All that an owner of the slot leaves of the other tasks of its execution.
LEMMA BesideOwner ==
  ASSUME TypeOK, KindInv, SlotInv, HolderInv, NEW e \in Exe, ExeInv(e),
         NEW t \in Task, OwnsSlot(t, e), NEW u \in Task, Handles(u, e), u # t
  PROVE  /\ pc[u] \in {"idle", "ack", "mark", "enqueued", "finalize"} /\ ~Fresh(e) /\ OnLine(e)
         /\ pc[u] = "finalize" /\ Handles(t, e) => pc[t] \in {"idle", "ack", "check", "release"}
<1>1. OnLine(e)
  BY OwnerHolds
<1>2. ~Fresh(e)
  BY <1>1 DEF ExeInv, FreshInv
<1>3. pc[u] \notin Owning(u) /\ granted[u] = NoExe
  BY OthersUnowned
<1>4. pc[u] # "remark"
  BY <1>3, NoExeAssumption DEF ExeInv, RemarkInv
<1>5. KindOf(u) = "message" => pc[u] \notin {"check", "lock", "enqueue"}
  BY <1>2 DEF Fresh
<1>6. KindOf(u) \in {"message", "drain"} /\ pc[u] \in IF KindOf(u) = "message" THEN MessagePC ELSE DrainPC
  BY TaskParts DEF KindInv
<1>7. pc[u] = "finalize" /\ Handles(t, e) => pc[t] \in {"idle", "ack", "check", "release"}
  BY DEF ExeInv, GoneInv
<1> QED
  BY <1>1, <1>2, <1>3, <1>4, <1>5, <1>6, <1>7 DEF Owning, MessagePC, DrainPC

LEMMA OneMessageStays ==
  ASSUME TypeOK, NEW e \in Exe, ExeInv(e), Changes(e), KindInv
  PROVE  OneMessage(e)'
<1>0. OneMessage(e)
  BY DEF ExeInv
<1>1. ASSUME NEW m \in Task, Handles(m, e), KindOf(m) = "message", pc'[m] # "idle",
             pc[m] # "idle", e \in ready' => e \in ready,
             \A n \in Task : Handles(n, e) /\ KindOf(n) = "message" /\ pc'[n] # "idle" => pc[n] # "idle"
      PROVE  /\ e \notin ready'
             /\ \A n \in Task : Handles(n, e) /\ KindOf(n) = "message" /\ pc'[n] # "idle" => n = m
  BY <1>0, <1>1 DEF OneMessage
<1>2. ASSUME e \in ready' => e \in ready,
             \A n \in Task : Handles(n, e) /\ KindOf(n) = "message" /\ pc'[n] # "idle" => pc[n] # "idle"
      PROVE  OneMessage(e)'
  BY <1>1, <1>2 DEF OneMessage, Handles, KindOf, ExeOf
<1>3. CASE Rests(e)
  BY <1>2, <1>3 DEF Rests, SamePC, Handles
<1>4. ASSUME NEW t \in Task, ExeOf(t) = e, Starts(t) \/ GoesOnly(t) \/ Writes(t) \/ Locks(t) \/ Proceeds(t)
      PROVE  OneMessage(e)'
  <2>1. e \in ready' => e \in ready
    BY <1>4 DEF Starts, GoesOnly, Writes, Locks, Proceeds, SameData
  <2>2. ASSUME NEW n \in Task, Handles(n, e), KindOf(n) = "message", pc'[n] # pc[n]
        PROVE  pc[n] # "idle"
    BY <1>4, <2>2 DEF Starts, GoesOnly, Writes, Locks, Proceeds, Moves, SamePC, Handles, AfterUnlock
  <2> QED
    BY <1>2, <2>1, <2>2
<1>5. ASSUME NEW t \in Task, ExeOf(t) = e, Delivers(t)
      PROVE  OneMessage(e)'
  <2>1. \A n \in Task : Handles(n, e) /\ n # t => pc'[n] = pc[n]
    BY <1>5 DEF Delivers, Moves, SamePC, Handles
  <2>2. CASE Moves(t, "idle", "check") /\ e \in ready /\ e \notin ready'
    BY <1>0, <2>1, <2>2 DEF OneMessage, Handles, KindOf, ExeOf
  <2>3. CASE Moves(t, "check", "idle")
    <3>1. pc[t] = "check" /\ pc'[t] = "idle" /\ KindOf(t) = "message" /\ Handles(t, e)
      BY <1>5, <2>3 DEF Moves, Delivers, Handles
    <3>2. \A n \in Task : Handles(n, e) /\ KindOf(n) = "message" => pc'[n] = "idle"
      BY <1>0, <2>1, <3>1 DEF OneMessage
    <3> QED
      BY <3>2 DEF OneMessage, Handles, KindOf, ExeOf
  <2> QED
    BY <1>5, <2>2, <2>3 DEF Delivers
<1> QED
  BY <1>3, <1>4, <1>5 DEF Changes, Acts

LEMMA FreshStays ==
  ASSUME TypeOK, NEW e \in Exe, ExeInv(e), OldInv, KindInv, Changes(e),
         OnLine(e)' => OnLine(e) \/ Joins(e)
  PROVE  FreshInv(e)'
<1> SUFFICES ASSUME Fresh(e)'
             PROVE  /\ ~OnLine(e)' /\ log'[e] \in {"EM_EXECUCAO", "CANCELADO"}
                    /\ \A d \in Task : Handles(d, e) /\ KindOf(d) = "drain" => pc'[d] = "idle"
  BY DEF FreshInv, Handles, KindOf, ExeOf
<1>0. OneMessage(e) /\ FreshInv(e)
  BY DEF ExeInv
<1>1. \/ e \in ready'
      \/ \E m \in Task : Handles(m, e) /\ KindOf(m) = "message" /\ pc'[m] \in {"check", "lock", "enqueue"}
  BY DEF Fresh, Handles, KindOf, ExeOf
<1>2. Fresh(e)
  <2>1. CASE Rests(e)
    BY <1>1, <2>1 DEF Rests, SamePC, Handles, Fresh
  <2>2. ASSUME NEW t \in Task, ExeOf(t) = e, Starts(t) \/ GoesOnly(t) \/ Writes(t) \/ Proceeds(t)
        PROVE  Fresh(e)
    BY <1>1, <2>2 DEF Starts, GoesOnly, Writes, Proceeds, SameData, Moves, SamePC, Handles, Fresh
  <2>3. ASSUME NEW t \in Task, ExeOf(t) = e, Locks(t)
        PROVE  Fresh(e)
    BY <1>1, <2>3 DEF Locks, Moves, SamePC, Handles, Fresh, AfterUnlock
  <2>4. ASSUME NEW t \in Task, ExeOf(t) = e, Delivers(t)
        PROVE  Fresh(e)
    BY <2>4 DEF Delivers, Moves, Handles, Fresh
  <2> QED
    BY <2>1, <2>2, <2>3, <2>4 DEF Changes, Acts
<1>3. /\ ~OnLine(e) /\ log[e] \in {"EM_EXECUCAO", "CANCELADO"}
      /\ \A d \in Task : Handles(d, e) /\ KindOf(d) = "drain" => pc[d] = "idle"
  BY <1>0, <1>2 DEF FreshInv
<1>4. ASSUME NEW m \in Task, Handles(m, e), KindOf(m) = "message"
      PROVE  pc[m] \in {"idle", "check", "lock", "enqueue"}
  BY <1>0, <1>2, <1>4 DEF OneMessage, Fresh
<1>7. ~Pushed(e)
  <2>1. Old(e) => ~Fresh(e)
    BY DEF OldInv, PastMessage, Fresh, Handles
  <2> QED
    BY <1>2, <2>1 DEF Old, Pushed
<1>5. CASE Rests(e)
  <2>2. ~Joins(e)
    BY <1>5, <1>7 DEF Joins, Enters, Rests, SamePC
  <2> QED
    BY <1>3, <1>5, <2>2 DEF Rests, Ages, SamePC, Handles
<1>6. ASSUME NEW t \in Task, ExeOf(t) = e, Starts(t) \/ Acts(t)
      PROVE  /\ ~OnLine(e)' /\ log'[e] \in {"EM_EXECUCAO", "CANCELADO"}
             /\ \A d \in Task : Handles(d, e) /\ KindOf(d) = "drain" => pc'[d] = "idle"
  <2>1. Handles(t, e) /\ KindOf(t) \in {"message", "drain"} /\ ~Starts(t)
    BY <1>3, <1>6, TaskParts DEF Handles, Starts
  <2>2. KindOf(t) = "message"
    BY <1>3, <1>6, <2>1 DEF Acts, Delivers, GoesOnly, Writes, Locks, Proceeds, Moves, AfterUnlock
  <2>3. pc[t] \in {"idle", "check", "lock", "enqueue"}
    BY <1>4, <2>1, <2>2
  <2>4. Delivers(t) \/ GoesOnly(t) \/ Locks(t)
    BY <1>6, <2>1, <2>3 DEF Acts, Writes, Proceeds, Moves
  <2>5. log'[e] = log[e] /\ \A u \in Task : Handles(u, e) /\ u # t => pc'[u] = pc[u]
    BY <1>6, <2>4 DEF Delivers, GoesOnly, Locks, Moves, SamePC, SameData, Handles
  <2>6. ~Joins(e)
    <3>2. ASSUME NEW m \in Task, Handles(m, e), KindOf(m) = "message", pc[m] = "enqueue",
                 pc'[m] \in {"run", "mark"}
          PROVE  FALSE
      <4>1. m = t
        BY <2>5, <3>2
      <4>2. e \notin ready /\ \A n \in Task : Handles(n, e) /\ KindOf(n) = "message" /\ n # t => pc[n] = "idle"
        BY <1>0, <3>2, <4>1 DEF OneMessage
      <4>3. e \notin ready'
        BY <1>6, <2>4, <3>2, <4>1, <4>2 DEF Delivers, GoesOnly, Locks, SameData, Moves
      <4> QED
        BY <1>1, <2>5, <3>2, <4>1, <4>2, <4>3
    <3> QED
      BY <1>7, <3>2 DEF Joins, Enters, Handles
  <2> QED
    BY <1>3, <2>2, <2>5, <2>6
<1> QED
  BY <1>5, <1>6 DEF Changes

LEMMA LockHeldStays ==
  ASSUME TypeOK, NEW e \in Exe, ExeInv(e), Changes(e)
  PROVE  LockHeld(e)'
<1>0. LockHeld(e)
  BY DEF ExeInv
<1>1. ASSUME \A u \in Task : Handles(u, e) => pc'[u] \notin Holding
      PROVE  LockHeld(e)'
  BY <1>1 DEF LockHeld, Handles, ExeOf
<1>2. ASSUME running'[e] = running[e],
             \A u \in Task : Handles(u, e) /\ pc'[u] \in Holding => pc[u] \in Holding
      PROVE  LockHeld(e)'
  BY <1>0, <1>2 DEF LockHeld, Handles, ExeOf, WorkerOf
<1>3. CASE Rests(e)
  <2>1. CASE running'[e] = running[e]
    BY <1>2, <1>3, <2>1 DEF Rests, SamePC, Handles
  <2>2. CASE \A u \in Task : ExeOf(u) = e /\ WorkerOf(u) = running[e] => pc[u] \notin Holding
    <3>1. \A u \in Task : Handles(u, e) => pc[u] \notin Holding
      BY <1>0, <2>2 DEF LockHeld, Handles
    <3> QED
      BY <1>1, <1>3, <3>1 DEF Rests, SamePC, Handles
  <2> QED
    BY <1>3, <2>1, <2>2 DEF Rests
<1>4. ASSUME NEW t \in Task, ExeOf(t) = e, Starts(t) \/ Delivers(t) \/ GoesOnly(t) \/ Writes(t) \/ Proceeds(t)
      PROVE  LockHeld(e)'
  <2>1. running'[e] = running[e]
    BY <1>4 DEF Starts, Delivers, GoesOnly, Writes, Proceeds, SameData
  <2>2. ASSUME NEW u \in Task, Handles(u, e), pc'[u] \in Holding PROVE pc[u] \in Holding
    BY <1>4, <2>2 DEF Starts, Delivers, GoesOnly, Writes, Proceeds, Moves, SamePC, Handles, Holding, AfterUnlock
  <2> QED
    BY <1>2, <2>1, <2>2
<1>5. ASSUME NEW t \in Task, ExeOf(t) = e, Locks(t)
      PROVE  LockHeld(e)'
  <2>0. WorkerOf(t) \in Worker /\ Handles(t, e)
    BY <1>5, TaskParts DEF Handles
  <2>1. CASE /\ Moves(t, "lock", IF KindOf(t) = "message" THEN "enqueue" ELSE "slot")
             /\ running[e] = NoWorker /\ running'[e] = WorkerOf(t)
    <3>1. \A u \in Task : Handles(u, e) => pc[u] \notin Holding
      BY <1>0, <2>1, NoWorkerAssumption, TaskParts DEF LockHeld
    <3>2. \A u \in Task : Handles(u, e) /\ u # t => pc'[u] \notin Holding
      BY <1>5, <2>1, <3>1 DEF Moves, SamePC, Handles
    <3> QED
      BY <2>0, <2>1, <3>2 DEF LockHeld, Handles, ExeOf, WorkerOf
  <2>2. CASE pc[t] \in DOMAIN AfterUnlock /\ Moves(t, pc[t], AfterUnlock[pc[t]])
    <3>1. pc[t] \in Holding /\ pc'[t] \notin Holding
      BY <2>2 DEF Moves, Holding, AfterUnlock
    <3>2. \A u \in Task : Handles(u, e) /\ u # t => pc[u] \notin Holding
      BY <1>0, <2>0, <3>1 DEF LockHeld
    <3> QED
      BY <1>1, <1>5, <2>2, <3>1, <3>2 DEF Moves, SamePC, Handles
  <2> QED
    BY <1>5, <2>1, <2>2 DEF Locks
<1> QED
  BY <1>3, <1>4, <1>5 DEF Changes, Acts

LEMMA EnteringStays ==
  ASSUME TypeOK, KindInv, NEW e \in Exe, ExeInv(e), Changes(e)
  PROVE  EnteringInv(e)'
<1> SUFFICES ASSUME NEW m \in Task, NEW d \in Task, Handles(m, e), pc'[m] \in {"mark", "enqueued"},
                    Handles(d, e), KindOf(d) = "drain"
             PROVE  pc'[d] \in {"idle", "check", "lock", "release"}
  BY DEF EnteringInv, Handles, KindOf, ExeOf
<1>0. EnteringInv(e) /\ LockHeld(e) /\ FreshInv(e)
  BY DEF ExeInv
<1>1. pc[m] \in {"mark", "enqueued"} \/ (KindOf(m) = "message" /\ pc[m] = "enqueue" /\ pc'[d] = pc[d])
  <2>1. CASE Rests(e)
    BY <2>1 DEF Rests, SamePC, Handles
  <2>2. ASSUME NEW t \in Task, ExeOf(t) = e, Starts(t) \/ Acts(t)
        PROVE  pc[m] \in {"mark", "enqueued"} \/ (KindOf(m) = "message" /\ pc[m] = "enqueue" /\ pc'[d] = pc[d])
    BY <2>2 DEF Starts, Acts, Delivers, GoesOnly, Writes, Locks, Proceeds, Moves, SamePC, Handles, AfterUnlock
  <2> QED
    BY <2>1, <2>2 DEF Changes
<1>2. CASE KindOf(m) = "message" /\ pc[m] = "enqueue" /\ pc'[d] = pc[d]
  BY <1>0, <1>2 DEF FreshInv, Fresh
<1>3. CASE pc[m] \in {"mark", "enqueued"}
  <2>1. pc[d] \in {"idle", "check", "lock", "release"}
    BY <1>0, <1>3 DEF EnteringInv
  <2>2. running[e] # NoWorker
    BY <1>0, <1>3, NoWorkerAssumption, TaskParts DEF LockHeld, Holding, AfterUnlock
  <2>3. CASE Rests(e)
    BY <2>1, <2>3 DEF Rests, SamePC, Handles
  <2>4. ASSUME NEW t \in Task, ExeOf(t) = e, Starts(t) \/ Delivers(t) \/ GoesOnly(t) \/ Writes(t) \/ Proceeds(t)
        PROVE  pc'[d] \in {"idle", "check", "lock", "release"}
    BY <2>1, <2>4 DEF Starts, Delivers, GoesOnly, Writes, Proceeds, Moves, SamePC, Handles
  <2>5. ASSUME NEW t \in Task, ExeOf(t) = e, Locks(t)
        PROVE  pc'[d] \in {"idle", "check", "lock", "release"}
    BY <2>1, <2>2, <2>5 DEF Locks, Moves, SamePC, Handles, AfterUnlock
  <2> QED
    BY <2>3, <2>4, <2>5 DEF Changes, Acts
<1> QED
  BY <1>1, <1>2, <1>3

LEMMA RemarkStays ==
  ASSUME TypeOK, NEW e \in Exe, ExeInv(e), Changes(e)
  PROVE  RemarkInv(e)'
<1> SUFFICES ASSUME NEW u \in Task, Handles(u, e), pc'[u] = "remark"
             PROVE  granted'[u] = e
  BY DEF RemarkInv, Handles, ExeOf
<1>0. pc[u] = "remark" => granted[u] = e
  BY DEF ExeInv, RemarkInv
<1>1. CASE Rests(e)
  BY <1>0, <1>1 DEF Rests, SamePC, Handles
<1>2. ASSUME NEW t \in Task, ExeOf(t) = e, Starts(t) \/ Acts(t)
      PROVE  granted'[u] = e
  BY <1>0, <1>2 DEF Starts, Acts, Delivers, GoesOnly, Writes, Locks, Proceeds, Moves, SamePC, Handles, AfterUnlock
<1> QED
  BY <1>1, <1>2 DEF Changes

LEMMA GoneStays ==
  ASSUME TypeOK, KindInv, SlotInv, HolderInv, NEW e \in Exe, ExeInv(e), Changes(e)
  PROVE  GoneInv(e)'
<1> DEFINE Beside(v) == IF KindOf(v) = "message" THEN {"idle", "ack"} ELSE {"idle", "check", "release"}
<1> SUFFICES ASSUME NEW u \in Task, Handles(u, e), pc'[u] = "finalize"
             PROVE  /\ e \notin ready'
                    /\ \A v \in Task : Handles(v, e) /\ v # u => pc'[v] \in Beside(v)
  BY DEF GoneInv, Handles, ExeOf, KindOf
<1>0. OneMessage(e) /\ EnteringInv(e) /\ GoneInv(e) /\ FailedInv(e)
  BY DEF ExeInv
<1>1. pc[u] = "finalize" \/ (GoesOnly(u) /\ Moves(u, "fail", "finalize"))
  <2>1. CASE Rests(e)
    BY <2>1 DEF Rests, SamePC, Handles
  <2>2. ASSUME NEW t \in Task, ExeOf(t) = e, Starts(t) \/ Acts(t), t # u
        PROVE  pc[u] = "finalize"
    BY <2>2 DEF Starts, Acts, Delivers, GoesOnly, Writes, Locks, Proceeds, Moves, SamePC, Handles
  <2>3. CASE Starts(u) \/ Delivers(u) \/ Writes(u) \/ Locks(u) \/ Proceeds(u)
    BY <2>3 DEF Starts, Delivers, Writes, Locks, Proceeds, Moves, AfterUnlock
  <2>4. CASE GoesOnly(u)
    BY <2>4 DEF GoesOnly, Moves, Handles
  <2> QED
    BY <2>1, <2>2, <2>3, <2>4 DEF Changes, Acts
<1>2. CASE pc[u] = "finalize"
  <2>1. /\ e \notin ready /\ log[e] \in Final
        /\ \A v \in Task : Handles(v, e) /\ v # u => pc[v] \in Beside(v)
    BY <1>0, <1>2 DEF GoneInv, FailedInv, Final
  <2>2. CASE Rests(e)
    BY <2>1, <2>2 DEF Rests, SamePC, Handles
  <2>3. ASSUME NEW t \in Task, ExeOf(t) = e, Starts(t) \/ Acts(t)
        PROVE  /\ e \notin ready'
               /\ \A v \in Task : Handles(v, e) /\ v # u => pc'[v] \in Beside(v)
    <3>1. t # u /\ Handles(t, e)
      BY <1>2, <2>3 DEF Starts, Acts, Delivers, GoesOnly, Writes, Locks, Proceeds, Moves, AfterUnlock, Handles
    <3>2. pc[t] \in Beside(t) /\ KindOf(t) \in {"message", "drain"}
      BY <2>1, <3>1, TaskParts
    <3>3. CASE Starts(t)
      BY <2>1, <2>3, <3>1, <3>3 DEF Starts, Moves, SamePC, SameData, Handles
    <3>4. CASE Delivers(t)
      BY <2>1, <3>1, <3>2, <3>4 DEF Delivers, Moves, Handles
    <3>5. CASE GoesOnly(t)
      <4>1. /\ SameData(e) /\ \A v \in Task : Handles(v, e) /\ v # t => pc'[v] = pc[v]
            /\ pc'[t] \in {"ack", "release", "idle"}
            /\ pc'[t] = "ack" => KindOf(t) = "message"
            /\ pc'[t] = "release" => KindOf(t) = "drain"
        BY <2>1, <2>3, <3>1, <3>2, <3>5 DEF GoesOnly, Moves, SamePC, Handles
      <4> QED
        BY <2>1, <3>1, <4>1, <3>2 DEF SameData
    <3>6. CASE Writes(t) \/ Locks(t)
      BY <3>2, <3>6 DEF Writes, Locks, Moves, AfterUnlock
    <3>7. CASE Proceeds(t)
      BY <2>1, <2>3, <3>1, <3>2, <3>7 DEF Proceeds, Handles
    <3> QED
      BY <2>3, <3>3, <3>4, <3>5, <3>6, <3>7 DEF Acts
  <2> QED
    BY <2>2, <2>3 DEF Changes
<1>3. CASE GoesOnly(u) /\ Moves(u, "fail", "finalize")
  <2>1. OwnsSlot(u, e) /\ pc[u] = "fail"
    BY <1>3, OwnsBy DEF Moves, Owning, Handles
  <2>2. ~Fresh(e)
    <3>1. CASE \E v \in Task : Handles(v, e) /\ v # u
      BY <2>1, <3>1, BesideOwner
    <3>2. OnLine(e)
      BY <2>1, OwnerHolds
    <3> QED
      BY <3>2 DEF ExeInv, FreshInv
  <2>3. ASSUME NEW v \in Task, Handles(v, e), v # u PROVE pc'[v] \in Beside(v)
    <3>1. pc[v] \in {"idle", "ack", "mark", "enqueued"}
      BY <2>1, <2>3, BesideOwner
    <3>2. KindOf(v) \in {"message", "drain"} /\ KindOf(u) \in {"message", "drain"}
      BY TaskParts
    <3>3. pc[v] \in {"mark", "enqueued", "ack"} => KindOf(v) = "message"
      BY <3>2 DEF KindInv, DrainPC
    <3>4. pc[v] \notin {"mark", "enqueued"}
      BY <1>0, <2>1, <2>3, <3>2, <3>3 DEF EnteringInv, OneMessage
    <3> QED
      BY <1>3, <2>3, <3>1, <3>2, <3>3, <3>4 DEF Moves, SamePC, Handles
  <2> QED
    BY <1>3, <2>2, <2>3 DEF GoesOnly, SameData, Fresh, Handles
<1> QED
  BY <1>1, <1>2, <1>3

LEMMA FailedStays ==
  ASSUME TypeOK, KindInv, SlotInv, HolderInv, NEW e \in Exe, ExeInv(e), Changes(e)
  PROVE  FailedInv(e)'
<1> DEFINE Failed == {"failed", "fail", "finalize"}
<1> SUFFICES ASSUME NEW u \in Task, Handles(u, e), pc'[u] \in Failed
             PROVE  log'[e] \in {"ERRO", "CANCELADO"}
  BY DEF FailedInv, Handles, ExeOf
<1>0. OneMessage(e) /\ EnteringInv(e) /\ GoneInv(e) /\ FailedInv(e) /\ LockHeld(e)
  BY DEF ExeInv
<1>1. pc[u] \in Failed => log[e] \in {"ERRO", "CANCELADO"}
  BY <1>0 DEF FailedInv
<1>2. CASE Rests(e)
  BY <1>1, <1>2 DEF Rests, Ages, SamePC, Handles
<1>3. ASSUME NEW t \in Task, ExeOf(t) = e, Starts(t) \/ Acts(t)
      PROVE  log'[e] \in {"ERRO", "CANCELADO"}
  <2>1. CASE t = u
    <3>1. CASE Starts(t) \/ Delivers(t) \/ Proceeds(t)
      BY <1>3, <2>1, <3>1 DEF Starts, Delivers, Proceeds, Moves
    <3>2. CASE GoesOnly(t)
      BY <1>1, <1>3, <2>1, <3>2 DEF GoesOnly, Moves, SameData
    <3>3. CASE Writes(t)
      BY <1>3, <2>1, <3>3 DEF Writes, Moves
    <3>4. CASE Locks(t)
      BY <1>1, <1>3, <2>1, <3>4 DEF Locks, Moves, AfterUnlock
    <3> QED
      BY <1>3, <3>1, <3>2, <3>3, <3>4 DEF Acts
  <2>2. CASE t # u
    <3>1. pc[u] \in Failed /\ log[e] \in {"ERRO", "CANCELADO"} /\ Handles(t, e)
      BY <1>1, <1>3, <2>2 DEF Starts, Acts, Delivers, GoesOnly, Writes, Locks, Proceeds, Moves, SamePC, Handles
    <3>2. pc[t] \notin {"mark", "slot", "run", "remark"}
      <4>1. CASE pc[u] = "finalize"
        BY <1>0, <2>2, <3>1, <4>1 DEF GoneInv
      <4>2. CASE pc[u] \in {"failed", "fail"}
        <5>1. OwnsSlot(u, e)
          BY <4>2, OwnsBy DEF Owning, Handles
        <5>2. pc[t] \in {"idle", "ack", "mark", "enqueued", "finalize"}
          BY <2>2, <3>1, <5>1, BesideOwner
        <5>3. pc[t] = "mark" => KindOf(t) = "message"
          BY TaskParts DEF KindInv, DrainPC
        <5>4. pc[t] # "mark"
          BY <1>0, <2>2, <3>1, <4>2, <5>3, TaskParts DEF EnteringInv, OneMessage
        <5> QED
          BY <5>2, <5>4
      <4> QED
        BY <3>1, <4>1, <4>2
    <3>3. CASE Starts(t) \/ Delivers(t) \/ GoesOnly(t) \/ Locks(t)
      BY <1>3, <3>1, <3>3 DEF Starts, Delivers, GoesOnly, Locks, SameData
    <3>4. CASE Writes(t)
      BY <3>2, <3>4 DEF Writes, Moves
    <3>5. CASE Proceeds(t)
      BY <1>3, <3>1, <3>2, <3>5 DEF Proceeds
    <3> QED
      BY <1>3, <3>3, <3>4, <3>5 DEF Acts
  <2> QED
    BY <2>1, <2>2
<1> QED
  BY <1>2, <1>3 DEF Changes

LEMMA UndecidedStays ==
  ASSUME TypeOK, KindInv, SlotInv, HolderInv, NEW e \in Exe, ExeInv(e), Changes(e)
  PROVE  Undecided(e)'
<1> DEFINE Open(t) == pc'[t] \in {"lock", "enqueue", "mark", "slot", "failed", "full", "fail",
                                  "requeue", "remark", "finalize"}
<1> SUFFICES ASSUME NEW u \in Task, Handles(u, e)
             PROVE  /\ Open(u) => log'[e] # "SUCESSO"
                    /\ pc'[u] = "run" => log'[e] \in {"EM_EXECUCAO", "CANCELADO"}
  BY DEF Undecided, Handles, ExeOf
<1>0. FreshInv(e) /\ LockHeld(e) /\ GoneInv(e) /\ Undecided(e) /\ RemarkInv(e)
  BY DEF ExeInv
<1>1. /\ pc[u] \in {"lock", "enqueue", "mark", "slot", "failed", "full", "fail", "requeue",
                    "remark", "finalize"} => log[e] # "SUCESSO"
      /\ pc[u] = "run" => log[e] \in {"EM_EXECUCAO", "CANCELADO"}
  BY <1>0 DEF Undecided
<1>2. CASE Rests(e)
  BY <1>1, <1>2 DEF Rests, Ages, SamePC, Handles
<1>3. ASSUME NEW t \in Task, ExeOf(t) = e, Starts(t) \/ Delivers(t) \/ GoesOnly(t)
      PROVE  /\ Open(u) => log'[e] # "SUCESSO"
             /\ pc'[u] = "run" => log'[e] \in {"EM_EXECUCAO", "CANCELADO"}
  <2>1. log'[e] = log[e]
    BY <1>3 DEF Starts, Delivers, GoesOnly, SameData
  <2>2. CASE u # t
    BY <1>1, <1>3, <2>1, <2>2 DEF Starts, Delivers, GoesOnly, Moves, SamePC, Handles
  <2>3. CASE u = t
    <3>1. pc[u] = "enqueue" /\ KindOf(u) = "message" => log[e] \in {"EM_EXECUCAO", "CANCELADO"}
      BY <1>0 DEF FreshInv, Fresh
    <3>2. CASE Starts(t) \/ Delivers(t)
      BY <2>3, <3>2 DEF Starts, Delivers, Moves
    <3> QED
      BY <1>1, <1>3, <2>1, <2>3, <3>1, <3>2 DEF GoesOnly, Moves, Handles, Final
  <2> QED
    BY <2>2, <2>3
<1>4. ASSUME NEW t \in Task, ExeOf(t) = e, Locks(t)
      PROVE  /\ Open(u) => log'[e] # "SUCESSO"
             /\ pc'[u] = "run" => log'[e] \in {"EM_EXECUCAO", "CANCELADO"}
  BY <1>1, <1>4 DEF Locks, Moves, SamePC, Handles, AfterUnlock
<1>5. ASSUME NEW t \in Task, ExeOf(t) = e, Writes(t)
      PROVE  /\ Open(u) => log'[e] # "SUCESSO"
             /\ pc'[u] = "run" => log'[e] \in {"EM_EXECUCAO", "CANCELADO"}
  <2>1. u # t => pc'[u] = pc[u]
    BY <1>5 DEF Writes, Moves, SamePC, Handles
  <2>2. CASE Moves(t, "mark", "enqueued") /\ log'[e] = "AGUARDANDO_LOCK_SERIAL"
    <3>1. u # t => pc[u] # "run"
      BY <1>0, <1>5, <2>2 DEF LockHeld, Holding, Moves, Handles
    <3> QED
      BY <2>1, <2>2, <3>1 DEF Moves
  <2>3. CASE Moves(t, "slot", "run") /\ log'[e] = "EM_EXECUCAO"
    BY <2>3
  <2>4. CASE Moves(t, "run", "succeeded") \/ (Moves(t, "run", "failed") /\ log'[e] \in {"ERRO", "CANCELADO"})
    <3>1. OwnsSlot(t, e) /\ pc[t] = "run"
      BY <1>5, <2>4, OwnsBy DEF Moves, Owning
    <3>2. u # t => pc[u] \in {"idle", "ack", "mark", "enqueued"}
      BY <1>5, <3>1, BesideOwner DEF Handles
    <3>3. u # t => pc[u] # "mark"
      BY <1>0, <1>5, <3>1 DEF LockHeld, Holding, Handles
    <3> QED
      BY <2>1, <2>4, <3>2, <3>3 DEF Moves
  <2> QED
    BY <1>5, <2>2, <2>3, <2>4 DEF Writes
<1>6. ASSUME NEW t \in Task, ExeOf(t) = e, Proceeds(t)
      PROVE  /\ Open(u) => log'[e] # "SUCESSO"
             /\ pc'[u] = "run" => log'[e] \in {"EM_EXECUCAO", "CANCELADO"}
  <2>1. CASE u = t
    BY <1>6, <2>1 DEF Proceeds
  <2>2. CASE u # t
    <3>1. pc'[u] = pc[u] \/ pc'[u] = "check"
      BY <1>6, <2>2 DEF Proceeds, Handles
    <3>2. CASE log'[e] = log[e]
      BY <1>1, <3>1, <3>2
    <3>3. CASE pc[t] = "remark" /\ log'[e] = "AGUARDANDO_LOCK_SERIAL"
      <4>1. OwnsSlot(t, e)
        BY <1>0, <1>6, <3>3 DEF RemarkInv, OwnsSlot, Handles
      <4>2. pc[u] \in {"idle", "ack", "mark", "enqueued"}
        BY <1>6, <2>2, <3>3, <4>1, BesideOwner DEF Handles
      <4> QED
        BY <3>1, <3>3, <4>2
    <3>4. CASE pc[t] = "finalize" /\ log'[e] = "ERRO"
      <4>1. pc[u] \in {"idle", "ack", "check", "release"}
        BY <1>0, <1>6, <2>2, <3>4 DEF GoneInv, Handles
      <4> QED
        BY <3>1, <4>1
    <3> QED
      BY <1>6, <3>2, <3>3, <3>4 DEF Proceeds
  <2> QED
    BY <2>1, <2>2
<1> QED
  BY <1>2, <1>3, <1>4, <1>5, <1>6 DEF Changes, Acts

LEMMA WatchdogAlone ==
  ASSUME TypeOK, Next
  PROVE  watchdog' = watchdog \/ WatchdogQuery \/ \E x \in Exe : Watchdog(x)
<1>1. ASSUME NEW w \in Worker, NEW x \in Exe, Deliver(w, x) \/ MessageStep(w, x) \/ DrainStep(w, x)
      PROVE  watchdog' = watchdog
  BY <1>1 DEF Deliver, MessageStep, CheckMessage, EnqueueSerial, MarkWaiting, Settle,
     DrainStep, CheckDrain, TakeSlot, RequeueAtHead
<1>2. ASSUME NEW t \in Task, CommonStep(t) PROVE watchdog' = watchdog
  BY <1>2 DEF CommonStep, AcquireRunningLock, FinishRun, ReleaseRunningLock, ReleaseSlot,
     FailAttempt, RecordFailure, ScriptFails
<1>3. ASSUME NEW t \in Task, Unawaited(t) PROVE watchdog' = watchdog
  BY <1>3 DEF Unawaited, HardTimeout, LeftRunEnds
<1>4. ASSUME NEW w \in Worker, Recover(w) \/ Crash(w) \/ Restart(w) \/ ChannelLoss(w)
      PROVE  watchdog' = watchdog
  BY <1>4 DEF Recover, RecoverReclaim, RecoverPromote, Crash, Restart, ChannelLoss
<1>5. ASSUME NEW x \in Exe, Expiry(x) \/ Environment(x) PROVE watchdog' = watchdog
  BY <1>5 DEF Expiry, LeaseRunsOut, RunningLockExpires, RowAges, consumerVars,
     Environment, Cancel, Stall, Heartbeat, AttemptsTtlEnds
<1> QED
  BY <1>1, <1>2, <1>3, <1>4, <1>5 DEF Next

\* Old is what was old, or ages now.
LEMMA OldFrom ==
  ASSUME TypeOK, Next, NEW e \in Exe, Changes(e), Old(e)'
  PROVE  Old(e) \/ (Rests(e) /\ Ages(e))
<1>1. log'[e] = "AGUARDANDO_STALE" => log[e] = "AGUARDANDO_STALE" \/ (Rests(e) /\ Ages(e))
  BY DEF Changes, Rests, Starts, Acts, Delivers, GoesOnly, Writes, Locks, Proceeds, SameData
<1>2. CASE watchdog' = watchdog
  BY <1>1, <1>2 DEF Old
<1>3. CASE WatchdogQuery
  BY <1>1, <1>3 DEF Old, WatchdogQuery, Stale, TypeOK
<1>4. ASSUME NEW x \in Exe, Watchdog(x), watchdog'.exe = e \/ e \in watchdog'.stuck
      PROVE  e \in watchdog.stuck \/ watchdog.exe = e
  BY <1>4, NoExeAssumption DEF Watchdog, WatchdogLooksInWait, WatchdogLooksInProcessing,
     WatchdogPushes, WatchdogMoves
<1> QED
  BY <1>1, <1>2, <1>3, <1>4, WatchdogAlone DEF Old

LEMMA PastStays ==
  ASSUME TypeOK, NEW e \in Exe, PastMessage(e), Changes(e), LineKept
  PROVE  PastMessage(e)' /\ ~Enters(e)
<1>1. /\ e \notin ready
      /\ \A t \in Task : KindOf(t) = "message" /\ ExeOf(t) = e => pc[t] = "idle"
      /\ e \in holders => e \in Members(processing)
  BY DEF PastMessage
<1>2. ~Enters(e)
  BY <1>1 DEF Enters
<1>3. e \in holders' => e \in Members(processing')
  BY <1>1, <1>2 DEF LineKept
<1>4. /\ e \notin ready'
      /\ \A t \in Task : KindOf(t) = "message" /\ ExeOf(t) = e => pc'[t] = "idle"
  <2>1. CASE Rests(e)
    BY <1>1, <2>1 DEF Rests, SamePC
  <2>2. ASSUME NEW t \in Task, ExeOf(t) = e, Starts(t) \/ Acts(t)
        PROVE  /\ e \notin ready'
               /\ \A u \in Task : KindOf(u) = "message" /\ ExeOf(u) = e => pc'[u] = "idle"
    <3>1. KindOf(t) # "message"
      BY <1>1, <2>2 DEF Starts, Acts, Delivers, GoesOnly, Writes, Locks, Proceeds, Moves, AfterUnlock
    <3> QED
      BY <1>1, <2>2, <3>1 DEF Starts, Acts, Delivers, GoesOnly, Writes, Locks, Proceeds, Moves, SamePC, SameData
  <2> QED
    BY <2>1, <2>2 DEF Changes
<1> QED
  BY <1>2, <1>3, <1>4 DEF PastMessage, KindOf, ExeOf

\* What ages has no owner, and its message is gone.
LEMMA AgesPast ==
  ASSUME TypeOK, NEW e \in Exe, ExeInv(e), OwnedInv, LineKept, Rests(e), Ages(e)
  PROVE  PastMessage(e)'
<1>1. \A t \in Task : (ExeOf(t) = e => pc[t] = "idle") /\ granted[t] # e
  BY DEF Ages, ExeInv, Undecided, Handles
<1>2. e \notin ready
  BY DEF Ages, ExeInv, FreshInv, Fresh
<1>3. e \notin holders
  <2>1. \A t \in Task : ~OwnsSlot(t, e)
    BY <1>1, OwnsBy DEF Owning
  <2> QED
    BY <2>1 DEF OwnedInv
<1>4. PastMessage(e)
  BY <1>1, <1>2, <1>3 DEF PastMessage
<1>5. Changes(e)
  BY DEF Changes
<1> QED
  BY <1>4, <1>5, PastStays

LEMMA OldStays ==
  ASSUME TypeOK, OwnedInv, OldInv, Next, LineKept, \A e \in Exe : ExeInv(e) /\ Changes(e)
  PROVE  OldInv' /\ \A e \in Exe : Old(e) => ~Enters(e)
<1>1. ASSUME NEW e \in Exe, Old(e) PROVE PastMessage(e)' /\ ~Enters(e)
  BY <1>1, PastStays DEF OldInv
<1>2. ASSUME NEW e \in Exe, Old(e)' PROVE PastMessage(e)'
  BY <1>1, <1>2, OldFrom, AgesPast
<1> QED
  BY <1>1, <1>2 DEF OldInv

LEMMA WatchStays ==
  ASSUME TypeOK, OldInv, WatchInv, Next, LineKept, \A e \in Exe : Old(e) => ~Enters(e)
  PROVE  WatchInv'
<1> DEFINE Seen(e) == /\ e \notin Members(waitList')
                      /\ watchdog'.step = "absent" => e \notin holders'
<1> SUFFICES /\ watchdog'.exe = NoExe <=> watchdog'.step = "idle"
             /\ \A e \in Exe : watchdog'.exe = e => Seen(e)
  BY DEF WatchInv
<1>1. CASE watchdog' = watchdog
  <2>1. ASSUME NEW e \in Exe, watchdog.exe = e PROVE Seen(e)
    <3>1. ~Joins(e)
      BY <1>1, <2>1, NoExeAssumption DEF Joins, Pushed, Old
    <3> QED
      BY <1>1, <2>1, <3>1 DEF LineKept, WatchInv, OnLine
  <2> QED
    BY <1>1, <2>1 DEF WatchInv
<1>2. CASE WatchdogQuery
  <2>1. watchdog'.exe = watchdog.exe /\ watchdog'.step = watchdog.step /\ watchdog.step = "idle"
    BY <1>2 DEF WatchdogQuery, TypeOK
  <2> QED
    BY <2>1, NoExeAssumption DEF WatchInv
<1>3. ASSUME NEW x \in Exe, WatchdogLooksInWait(x)
      PROVE  /\ watchdog'.exe = NoExe <=> watchdog'.step = "idle"
             /\ \A e \in Exe : watchdog'.exe = e => Seen(e)
  <2>1. /\ waitList' = waitList
        /\ \/ watchdog'.step = "idle" /\ watchdog'.exe = NoExe
           \/ watchdog'.step = "notWaiting" /\ watchdog'.exe = x /\ x \notin Members(waitList)
    BY <1>3 DEF WatchdogLooksInWait, WatchdogMoves
  <2> QED
    BY <2>1, NoExeAssumption
<1>4. ASSUME NEW x \in Exe, WatchdogLooksInProcessing(x)
      PROVE  /\ watchdog'.exe = NoExe <=> watchdog'.step = "idle"
             /\ \A e \in Exe : watchdog'.exe = e => Seen(e)
  <2>1. /\ waitList' = waitList /\ holders' = holders /\ watchdog.exe = x
        /\ \/ watchdog'.step = "idle" /\ watchdog'.exe = NoExe
           \/ watchdog'.step = "absent" /\ watchdog'.exe = x /\ x \notin Members(processing)
    BY <1>4 DEF WatchdogLooksInProcessing, WatchdogMoves
  <2>2. x \in holders => x \in Members(processing)
    BY <2>1 DEF OldInv, Old, PastMessage
  <2> QED
    BY <2>1, <2>2, NoExeAssumption DEF WatchInv
<1>5. ASSUME NEW x \in Exe, WatchdogPushes(x)
      PROVE  watchdog'.exe = NoExe /\ watchdog'.step = "idle"
  BY <1>5 DEF WatchdogPushes, WatchdogMoves
<1> QED
  BY <1>1, <1>2, <1>3, <1>4, <1>5, WatchdogAlone, NoExeAssumption DEF Watchdog

-----------------------------------------------------------------------------
(* All of it, and what it gives.                                            *)

CalmInv ==
  /\ left = {} /\ KindInv /\ HolderInv /\ OwnedInv /\ OldInv /\ WatchInv
  /\ \A e \in Exe : ExeInv(e)

LEMMA CalmInit == Init => CalmInv
<1> SUFFICES ASSUME Init PROVE CalmInv
  OBVIOUS
<1>1. \A t \in Task : pc[t] = "idle" /\ granted[t] = NoExe
  BY DEF Init
<1>2. KindInv
  BY <1>1 DEF KindInv, MessagePC, DrainPC
<1>3. HolderInv /\ holders = {} /\ Members(waitList) = {}
  BY HolderInit DEF Init, LockInit, Members
<1>4. OwnedInv
  BY <1>3 DEF OwnedInv
<1>5. WatchInv /\ OldInv /\ left = {}
  BY NoExeAssumption DEF WatchInv, OldInv, Old, Init
<1>6. ASSUME NEW e \in Exe PROVE ExeInv(e)
  <2>1. log[e] = "EM_EXECUCAO" /\ ~OnLine(e)
    BY <1>3 DEF Init, OnLine
  <2> QED
    BY <1>1, <2>1 DEF ExeInv, OneMessage, FreshInv, LockHeld, EnteringInv, RemarkInv, GoneInv,
       FailedInv, Undecided, Handles, Holding, AfterUnlock
<1> QED
  BY <1>2, <1>3, <1>4, <1>5, <1>6 DEF CalmInv

LEMMA NextKeepsCalm ==
  ASSUME Calm, TypeOK, SlotInv, CalmInv, Next
  PROVE  CalmInv' /\ FifoStep /\ \A e \in Exe : Changes(e)
<1>1. /\ left = {} /\ KindInv /\ HolderInv /\ OwnedInv /\ OldInv /\ WatchInv
      /\ \A e \in Exe : ExeInv(e)
  BY DEF CalmInv
<1>2. LineKept
  BY <1>1, NextLine
<1>3. HolderInv' /\ OwnedInv' /\ FifoStep /\ \A e \in Exe : OnLine(e)' => OnLine(e) \/ Joins(e)
  BY <1>2 DEF LineKept
<1>4. \A e \in Exe : Changes(e)
  BY <1>1, NextChanges
<1>5. KindInv'
  BY <1>1, KindsStay
<1>6. OldInv' /\ WatchInv'
  <2>1. OldInv' /\ \A e \in Exe : Old(e) => ~Enters(e)
    BY <1>1, <1>2, <1>4, OldStays
  <2> QED
    BY <1>1, <1>2, <2>1, WatchStays
<1>7. ASSUME NEW e \in Exe PROVE ExeInv(e)'
  <2>1. OneMessage(e)' /\ FreshInv(e)'
    BY <1>1, <1>3, <1>4, OneMessageStays, FreshStays
  <2>2. LockHeld(e)' /\ EnteringInv(e)' /\ RemarkInv(e)'
    BY <1>1, <1>4, LockHeldStays, EnteringStays, RemarkStays
  <2>3. GoneInv(e)' /\ FailedInv(e)' /\ Undecided(e)'
    BY <1>1, <1>4, GoneStays, FailedStays, UndecidedStays
  <2> QED
    BY <2>1, <2>2, <2>3 DEF ExeInv
<1>8. left' = {}
  <2>1. FaultKinds \cap {"crash", "hardTimeout"} = {}
    BY DEF Calm
  <2> QED
    BY <1>1, <2>1, NextLeavesNothing
<1> QED
  BY <1>3, <1>4, <1>5, <1>6, <1>7, <1>8 DEF CalmInv

LEMMA CalmStutters == CalmInv /\ UNCHANGED vars => CalmInv'
BY DEF vars, lockVars, consumerVars, CalmInv, KindInv, HolderInv, Free, HeldBy, OwnedInv, OwnsSlot,
   OldInv, Old, PastMessage, WatchInv, OnLine, ExeInv, OneMessage, FreshInv, Fresh, LockHeld,
   EnteringInv, RemarkInv, GoneInv, FailedInv, Undecided, Handles, KindOf, ExeOf, WorkerOf

LEMMA StepKeepsCalm ==
  ASSUME Calm
  PROVE  TypeOK /\ SlotInv /\ CalmInv /\ [Next]_vars =>
           CalmInv' /\ [Fifo!FifoNext]_Line /\ (UNCHANGED vars \/ \A e \in Exe : Changes(e))
<1> SUFFICES ASSUME TypeOK, SlotInv, CalmInv, [Next]_vars
             PROVE  CalmInv' /\ [Fifo!FifoNext]_Line /\ (UNCHANGED vars \/ \A e \in Exe : Changes(e))
  OBVIOUS
<1>1. CASE UNCHANGED vars
  BY <1>1, CalmStutters DEF vars, lockVars, Line
<1>2. CASE Next
  <2>1. CalmInv' /\ FifoStep /\ \A e \in Exe : Changes(e)
    BY <1>2, NextKeepsCalm
  <2> QED
    BY <2>1 DEF FifoStep, Fifo!FifoNext
<1> QED
  BY <1>1, <1>2

\* A status that says success is not one that anybody is about to write.
LEMMA SuccessStays ==
  ASSUME TypeOK, KindInv, SlotInv, HolderInv, NEW e \in Exe, ExeInv(e), Changes(e), log[e] = "SUCESSO"
  PROVE  log'[e] = "SUCESSO"
<1>1. \A t \in Task : ExeOf(t) = e =>
        pc[t] \notin {"lock", "enqueue", "mark", "slot", "failed", "full", "fail", "requeue",
                      "remark", "finalize", "run"}
  BY DEF ExeInv, Undecided, Handles
<1> QED
  BY <1>1 DEF Changes, Rests, Ages, Starts, Acts, Delivers, GoesOnly, Writes, Locks, Proceeds, SameData, Moves

THEOREM CalmInvariant ==
  ASSUME Calm
  PROVE  Spec => [](TypeOK /\ SlotInv /\ CalmInv)
<1>1. "stall" \notin FaultKinds
  BY DEF Calm
<1>2. Spec => [](TypeOK /\ SlotInv)
  BY <1>1, SlotInvariant
<1>3. Init => CalmInv
  BY CalmInit
<1>4. TypeOK /\ SlotInv /\ CalmInv /\ [Next]_vars => CalmInv'
  BY StepKeepsCalm
<1> QED
  BY <1>2, <1>3, <1>4, PTL DEF Spec

\* The consumer is a line served in order: nobody is overtaken, whatever
\* redeliveries, drains, recoveries and the watchdog do, when no call is lost
\* and no worker dies.  The scripts alone give this only to callers that keep
\* the discipline of HolderSpec; this says the consumer keeps it.
THEOREM ConsumerImplementsFifo ==
  ASSUME FaultKinds \subseteq {"capacity", "cancel", "attemptsTtl"}
  PROVE  Spec => ImplementsFifo
<1>0. Calm
  BY DEF Calm
<1>1. Spec => [](TypeOK /\ SlotInv /\ CalmInv)
  BY <1>0, CalmInvariant
<1>2. Init => Fifo!FifoInit
  BY HolderInit DEF Init
<1>3. TypeOK /\ SlotInv /\ CalmInv /\ [Next]_vars => [Fifo!FifoNext]_Line
  BY <1>0, StepKeepsCalm
<1> QED
  BY <1>1, <1>2, <1>3, PTL DEF Spec, ImplementsFifo, Fifo!FifoSpec

\* Under the same faults - no hard timeout above all, whose abandoned run writes its
\* outcome over that of the retry, or is itself marked as waiting - no second copy of a
\* message, no drain and no watchdog writes over a success.
THEOREM SuccessesAreFinal ==
  ASSUME FaultKinds \subseteq {"capacity", "cancel", "attemptsTtl"}
  PROVE  Spec => SuccessIsFinal
<1> DEFINE Stays == \A e \in Exe : log[e] = "SUCESSO" => log'[e] = "SUCESSO"
<1>0. Calm
  BY DEF Calm
<1>1. Spec => [](TypeOK /\ SlotInv /\ CalmInv)
  BY <1>0, CalmInvariant
<1>2. TypeOK /\ SlotInv /\ CalmInv /\ [Next]_vars => [Stays]_vars
  BY <1>0, StepKeepsCalm, SuccessStays DEF CalmInv
<1> QED
  BY <1>1, <1>2, PTL DEF Spec, SuccessIsFinal

\* The line, and the scripts' claims, are in order.
THEOREM NobodyWaitsTwice ==
  ASSUME FaultKinds \subseteq {"capacity", "cancel", "attemptsTtl"}
  PROVE  Spec => []QueuedOnce
<1>0. Calm
  BY DEF Calm
<1>1. Spec => [](TypeOK /\ SlotInv /\ CalmInv)
  BY <1>0, CalmInvariant
<1>2. ASSUME HolderInv, TypeOK PROVE QueuedOnce
  <2>1. waitList \in Seq(Exe) /\ processing \in Seq(Exe) /\ Distinct(waitList)
    BY <1>2 DEF HolderInv, Free, HeldBy, TypeOK, LockTypeOK
  <2>2. CASE Free
    <3>1. Members(processing) = {} /\ Distinct(processing)
      BY <2>2, EmptyList DEF Free
    <3> QED
      BY <2>1, <2>2, <3>1, ApartIsQueuedOnce DEF Free, Apart
  <2>3. ASSUME NEW h \in Exe, HeldBy(h) PROVE QueuedOnce
    <3>1. Members(processing) \subseteq {h} /\ Distinct(processing)
      <4>1. CASE processing = <<>>
        BY <4>1, EmptyList
      <4>2. CASE processing = <<h>>
        BY <4>2, SingletonList
      <4> QED
        BY <2>3, <4>1, <4>2 DEF HeldBy
    <3> QED
      BY <2>1, <2>3, <3>1, ApartIsQueuedOnce DEF HeldBy, Apart
  <2> QED
    BY <1>2, <2>2, <2>3 DEF HolderInv
<1> QED
  BY <1>1, <1>2, PTL DEF CalmInv

-----------------------------------------------------------------------------
(* The lock in the hands of the consumer, under every fault.  The theorems  *)
(* of LockSpec do not apply as they stand: the watchdog pushes without a    *)
(* script.                                                                  *)

\* Nothing but the scripts and the watchdog touches the lock in Redis.
UsesScripts == \/ LockNext \/ UNCHANGED lockVars
               \/ \E e \in Exe : WatchdogPushes(e)

LEMMA NextUsesScripts == [Next]_vars => UsesScripts
<1> SUFFICES ASSUME [Next]_vars PROVE UsesScripts
  OBVIOUS
<1>1. ASSUME NEW w \in Worker, NEW e \in Exe, Deliver(w, e) \/ MessageStep(w, e) \/ DrainStep(w, e)
      PROVE  UsesScripts
  BY <1>1 DEF UsesScripts, LockNext, Tries, Requeues, Deliver, MessageStep, CheckMessage,
     EnqueueSerial, MarkWaiting, Settle, DrainStep, CheckDrain, TakeSlot, RequeueAtHead
<1>2. ASSUME NEW t \in Task, NEW exhausted \in BOOLEAN, NEW next \in ExeOrNone,
             FailAttemptAndClaimNext(ExeOf(t), exhausted, next)
      PROVE  LockNext
  BY <1>2, TaskParts DEF LockNext, Retries, Exhausts
<1>3. ASSUME NEW t \in Task, NEW next \in ExeOrNone,
             ReleaseSlotAndPopNext(ExeOf(t), next) \/ RequeueAtHeadAndClaimNext(ExeOf(t), next)
      PROVE  LockNext
  BY <1>3, TaskParts DEF LockNext, Releases, Requeues, ExeOrNone
<1>4. ASSUME NEW t \in Task, CommonStep(t) PROVE UsesScripts
  <2>1. CASE AcquireRunningLock(t) \/ FinishRun(t) \/ ReleaseRunningLock(t) \/ RecordFailure(t)
    BY <2>1 DEF UsesScripts, AcquireRunningLock, FinishRun, ReleaseRunningLock, RecordFailure
  <2>2. CASE ReleaseSlot(t) \/ FailAttempt(t)
    BY <1>2, <1>3, <2>2 DEF UsesScripts, ReleaseSlot, FailAttempt
  <2>3. CASE ScriptFails(t)
    BY <1>2, <1>3, <2>3 DEF UsesScripts, ScriptFails
  <2> QED
    BY <1>4, <2>1, <2>2, <2>3 DEF CommonStep
<1>5. ASSUME NEW w \in Worker, Recover(w) \/ Crash(w) \/ Restart(w) \/ ChannelLoss(w)
      PROVE  UsesScripts
  BY <1>5 DEF UsesScripts, LockNext, Releases, ExeOrNone, Recover, RecoverReclaim, RecoverPromote,
     Crash, Restart, ChannelLoss
<1>6. ASSUME NEW e \in Exe, Watchdog(e) \/ Expiry(e) \/ Environment(e) PROVE UsesScripts
  BY <1>6 DEF UsesScripts, LockNext, lockVars, Watchdog, WatchdogLooksInWait,
     WatchdogLooksInProcessing, WatchdogMoves, Expiry, LeaseRunsOut, RunningLockExpires, RowAges,
     Environment, Cancel, Stall, Heartbeat, AttemptsTtlEnds
<1>7. ASSUME WatchdogQuery \/ \E t \in Task : Unawaited(t) PROVE UsesScripts
  BY <1>7 DEF UsesScripts, WatchdogQuery, Unawaited, HardTimeout, LeftRunEnds
<1> QED
  BY <1>1, <1>4, <1>5, <1>6, <1>7 DEF Next, UsesScripts, vars

LEMMA ScriptsKeepOneHolder ==
  ASSUME OneHolder, UsesScripts
  PROVE  OneHolder'
<1>1. ASSUME NEW e, NEW waiting, NEW claimed, NEW next, ClaimNext(Live \ {e}, waiting, claimed, next)
      PROVE  OneHolder'
  BY <1>1 DEF ClaimNext, Live, OneHolder
<1>2. CASE LockNext
  BY <1>1, <1>2 DEF LockNext, Tries, TryAcquireOrEnqueue, Requeues, RequeueAtHeadAndClaimNext,
     Retries, Exhausts, FailAttemptAndClaimNext, Releases, ReleaseSlotAndPopNext, ReclaimOrphans,
     RenewLease, LeaseLapses, AttemptsExpire, OneHolder, Live
<1>3. CASE UNCHANGED lockVars \/ \E e \in Exe : WatchdogPushes(e)
  BY <1>3 DEF lockVars, WatchdogPushes, WatchdogMoves, OneHolder
<1> QED
  BY <1>2, <1>3 DEF UsesScripts

\* Whatever fails, the slot of the routine has at most one holder in Redis.
THEOREM ConsumerHasOneHolder == Spec => []OneHolder
<1>1. Init => OneHolder
  BY DEF Init, LockInit, OneHolder
<1>2. OneHolder /\ [Next]_vars => OneHolder'
  BY NextUsesScripts, ScriptsKeepOneHolder
<1> QED
  BY <1>1, <1>2, PTL DEF Spec

\* A script for x takes nobody but x out of the lists, even where they hold an
\* execution twice.
LEMMA ScriptsLoseNobody ==
  ASSUME LockTypeOK, UsesScripts, NEW e \in Exe, Queued(e), ~Queued(e)'
  PROVE  Releases(e) \/ Exhausts(e)
<1>0. waitList \in Seq(Exe) /\ processing \in Seq(Exe)
  BY DEF LockTypeOK
<1>1. ASSUME NEW x, NEW waiting \in Seq(Exe), Members(waitList) \subseteq Members(waiting), NEW next,
             ClaimNext(Live \ {x}, waiting, LRem(processing, x), next)
      PROVE  e = x /\ e \notin Members(waiting)
  <2>1. LRem(processing, x) \in Seq(Exe) /\ Members(LRem(processing, x)) = Members(processing) \ {x}
    BY <1>0, LRemProperties
  <2>2. Members(waitList') \cup Members(processing') = Members(waiting) \cup Members(LRem(processing, x))
    BY <1>1, <2>1, ClaimMembers
  <2> QED
    BY <1>1, <2>1, <2>2 DEF Queued
<1>2. ASSUME NEW x \in ExeOrNone, Releases(x) PROVE Releases(e)
  <2>1. PICK next \in ExeOrNone : ReleaseSlotAndPopNext(x, next)
    BY <1>2 DEF Releases
  <2>2. e = x
    BY <1>0, <1>1, <2>1 DEF ReleaseSlotAndPopNext
  <2> QED
    BY <1>2, <2>2
<1>3. ASSUME NEW x \in Exe, NEW next,
             ClaimNext(Live \ {x}, LPushIfAbsent(waitList, x), LRem(processing, x), next)
      PROVE  FALSE
  <2>1. /\ LPushIfAbsent(waitList, x) \in Seq(Exe)
        /\ Members(LPushIfAbsent(waitList, x)) = Members(waitList) \cup {x}
    BY PushedMembers
  <2> QED
    BY <1>1, <1>3, <2>1
<1>4. ASSUME NEW x \in Exe, Exhausts(x) PROVE Exhausts(e)
  <2>1. PICK next \in ExeOrNone : FailAttemptAndClaimNext(x, TRUE, next)
    BY <1>4 DEF Exhausts
  <2>2. ClaimNext(Live \ {x}, waitList, LRem(processing, x), next)
    BY <2>1 DEF FailAttemptAndClaimNext
  <2>3. e = x
    BY <1>0, <1>1, <2>2
  <2> QED
    BY <1>4, <2>3
<1>5. ASSUME NEW x \in Exe, Requeues(x) \/ Retries(x) PROVE FALSE
  BY <1>3, <1>5 DEF Requeues, RequeueAtHeadAndClaimNext, Retries, FailAttemptAndClaimNext
<1>6. ASSUME NEW x \in Exe, waitList' \in {waitList, RPush(waitList, x)}, processing' = processing
      PROVE  FALSE
  <2>1. Members(RPush(waitList, x)) = Members(waitList) \cup {x}
    BY <1>0, PushList
  <2> QED
    BY <1>6, <2>1 DEF Queued
<1>7. ASSUME NEW x \in Exe,
             Tries(x) \/ RenewLease(x) \/ LeaseLapses(x) \/ AttemptsExpire(x) \/ WatchdogPushes(x)
      PROVE  FALSE
  BY <1>6, <1>7 DEF Tries, TryAcquireOrEnqueue, RenewLease, LeaseLapses, AttemptsExpire,
     WatchdogPushes, WatchdogMoves
<1>8. ~ReclaimOrphans /\ ~UNCHANGED lockVars
  BY ReclaimIgnores, ListsStutter
<1> QED
  BY <1>2, <1>4, <1>5, <1>7, <1>8 DEF UsesScripts, LockNext

\* Whatever fails, what is in the lists leaves them by its own release or its
\* last failure, never as a side effect of another execution.
THEOREM ConsumerLosesNobody == Spec => NoSilentLoss
<1> DEFINE Noticed == \A e \in Members(waitList) \cup Members(processing) :
                        e \notin Members(waitList') \cup Members(processing')
                          => Releases(e) \/ Exhausts(e)
<1>1. ASSUME TypeOK, [Next]_vars PROVE Noticed
  <2>1. LockTypeOK /\ UsesScripts
    BY <1>1, NextUsesScripts DEF TypeOK
  <2>2. Members(waitList) \cup Members(processing) \subseteq Exe
    BY <2>1, ElementOfSeq DEF LockTypeOK, Members
  <2>3. ASSUME NEW e \in Members(waitList) \cup Members(processing),
               e \notin Members(waitList') \cup Members(processing')
        PROVE  Releases(e) \/ Exhausts(e)
    BY <2>1, <2>2, <2>3, ScriptsLoseNobody DEF Queued
  <2> QED
    BY <2>3
<1>2. TypeOK /\ [Next]_vars => [Noticed]_lockVars
  BY <1>1
<1> QED
  BY <1>2, TypeCorrect, PTL DEF Spec, NoSilentLoss

-----------------------------------------------------------------------------
\* Whatever fails - stalls, crashes, lost calls and answers, lost channels, any number of
\* them -, no script gives an execution a second place: where there is one, the watchdog
\* has pushed it between its looks ("nao duplica nada" holds of the scripts, not of the
\* LPOS, LPOS, RPUSH of tryRecover).
THEOREM ScriptsDoubleNobody == Spec => OnlyWatchdogDoubles
<1> DEFINE Undoubled == QueuedOnce => QueuedOnce' \/ \E e \in Exe : WatchdogPushes(e)
<1>1. LockInv => QueuedOnce
  BY ApartIsQueuedOnce DEF LockInv, LockTypeOK
<1>2. (LockInv => QueuedOnce)'
  BY <1>1, PTL
<1>3. ASSUME TypeOK, OneHolder, [Next]_vars PROVE Undoubled
  <2>1. SUFFICES ASSUME QueuedOnce, ~\E e \in Exe : WatchdogPushes(e) PROVE QueuedOnce'
    OBVIOUS
  <2>2. LockInv
    BY <1>3, <2>1, ApartIsQueuedOnce DEF LockInv, TypeOK, LockTypeOK
  <2>3. [LockNext]_lockVars
    BY <1>3, <2>1, NextUsesScripts DEF UsesScripts
  <2> QED
    BY <1>2, <2>2, <2>3, NextKeeps
<1>4. TypeOK /\ OneHolder /\ [Next]_vars => [Undoubled]_vars
  BY <1>3
<1> QED
  BY <1>4, TypeCorrect, ConsumerHasOneHolder, PTL DEF Spec, OnlyWatchdogDoubles

=============================================================================
