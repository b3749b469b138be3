------------------------- MODULE BatchPublisherProofs -------------------------
(***************************************************************************)
(* Theorems about BatchPublisher, for any number of submissions, batches of *)
(* any size, and under every fault.                                         *)
(***************************************************************************)
EXTENDS BatchPublisher, TLAPS

(* The invariant -----------------------------------------------------------*)
\* Whoever submitted is in the batch or behind it, once.
Lined(first, rest) ==
  /\ \A j, k \in 1..Len(first) : first[j] = first[k] => j = k
  /\ \A j, k \in 1..Len(rest) : rest[j] = rest[k] => j = k
  /\ \A j \in 1..Len(first), k \in 1..Len(rest) : first[j] # rest[k]

LineInv ==
  /\ buffer \in Seq(Item) /\ batch \in Seq(Item) /\ Len(batch) <= BatchSize /\ sent \in 0..Len(batch)
  /\ Lined(batch, buffer)
  /\ flush = "idle" => batch = <<>>

OtherTypes ==
  /\ flushTimer \in BOOLEAN /\ flush \in Step /\ dbInserted \in BOOLEAN
  /\ connection \in {"none", "open", "rejected"} /\ channelUp \in BOOLEAN
  /\ returned \subseteq Item
  /\ row \in [Item -> {"none", "EM_EXECUCAO", "SUCESSO", "ERRO"}]
  /\ message \in [Item -> Message]
  /\ promise \in [Item -> {"none", "pending", "resolved", "rejected"}]
  /\ marker \subseteq Item /\ marking \subseteq Item
  /\ faults \in [left : 0..MaxFaults, seen : SUBSET FaultKinds]

\* How far the flush is.
FlushInv ==
  /\ sent # 0 => dbInserted
  /\ flush \in {"channel", "insert"} => sent = 0
  /\ flush \in {"confirm", "settle"} => sent = Len(batch)
  /\ flush \in {"publish", "drain", "confirm", "settle"} => dbInserted
  /\ Without({"channel", "crash"}) =>
       /\ flush \in {"insert", "publish", "drain", "confirm", "settle"} => channelUp
       /\ flush = "failed" => sent = 0

Waits(i) == \E k \in 1..Len(buffer) : buffer[k] = i
Unsent(i) == \E k \in (sent + 1)..Len(batch) : batch[k] = i
Sent(i) == \E k \in 1..sent : batch[k] = i
Accepted(i) == message[i] \in {"queued", "running", "done"}
Untouched(i) == row[i] = "none" /\ message[i] = "none" /\ i \notin returned

\* What is true of an item follows from where it is.
ItemInv(i) ==
  /\ Waits(i) \/ Sent(i) \/ Unsent(i) => promise[i] = "pending"
  /\ promise[i] = "none" \/ Waits(i) \/ (Unsent(i) /\ flush \in {"channel", "insert"}) => Untouched(i)
  /\ Unsent(i) => message[i] = "none" /\ i \notin returned
  /\ Sent(i) /\ channelUp /\ flush \in {"publish", "drain", "confirm"} => message[i] # "none" \/ i \in returned
  /\ Sent(i) /\ flush = "settle" => Accepted(i) \/ i \in returned
  /\ i \in returned => message[i] = "none"
  /\ row[i] = "SUCESSO" => message[i] = "done"
  /\ message[i] = "done" => row[i] \in {"SUCESSO", "ERRO"}
  /\ promise[i] = "resolved" => Accepted(i)
  /\ Without({"channel", "crash"}) /\ promise[i] = "rejected" => message[i] = "none"
  /\ Without({"crash", "lostInsert", "database"}) =>
       /\ row[i] = "EM_EXECUCAO" => Sent(i) \/ Unsent(i) \/ message[i] \in {"queued", "running"}
       /\ (Sent(i) \/ Unsent(i)) /\ ~dbInserted => row[i] = "none"

PublisherInv == LineInv /\ OtherTypes /\ FlushInv /\ \A i \in Item : ItemInv(i)

(* The line ----------------------------------------------------------------*)
In(i, s) == \E k \in 1..Len(s) : s[k] = i
Once(s) == \A j, k \in 1..Len(s) : s[j] = s[k] => j = k

LEMMA BatchParts == ASSUME LineInv, NEW i PROVE InBatch(i) <=> Sent(i) \/ Unsent(i)
<1>1. InBatch(i) <=> \E k \in 1..Len(batch) : batch[k] = i
  BY DEF InBatch, ToSet, LineInv
<1>2. 1..Len(batch) = 1..sent \cup (sent + 1)..Len(batch)
  BY DEF LineInv
<1> QED
  BY <1>1, <1>2 DEF Sent, Unsent

\* The next batch is the head of the line.
LEMMA NextBatch ==
  ASSUME NEW w \in Seq(Item), Once(w), NEW n, n = IF Len(w) < BatchSize THEN Len(w) ELSE BatchSize,
         batch' = SubSeq(w, 1, n), buffer' = SubSeq(w, n + 1, Len(w)), sent' = 0, flush' = "idle" => w = <<>>
  PROVE  /\ LineInv'
         /\ \A i : Waits(i)' \/ Unsent(i)' => In(i, w)
         /\ \A i : ~Sent(i)'
<1>1. Len(w) \in Nat /\ n \in 0..Len(w) /\ n <= BatchSize
  BY BatchSizeAssumption
<1>2. batch' \in Seq(Item) /\ Len(batch') = n /\ \A k \in 1..n : batch'[k] = w[k]
  BY <1>1
<1>3. buffer' \in Seq(Item) /\ Len(buffer') = Len(w) - n /\ \A k \in 1..(Len(w) - n) : buffer'[k] = w[n + k]
  BY <1>1
<1>4. Lined(batch', buffer')
  <2>1. \A j, k \in 1..Len(w) : w[j] = w[k] => j = k
    BY DEF Once
  <2>2. \A k \in 1..n : k \in 1..Len(w)
    BY <1>1
  <2>3. \A k \in 1..(Len(w) - n) : k \in Nat /\ n + k \in 1..Len(w)
    BY <1>1
  <2>4. \A j, k \in 1..Len(batch') : batch'[j] = batch'[k] => j = k
    BY <1>2, <2>1, <2>2
  <2>5. \A j, k \in 1..Len(buffer') : buffer'[j] = buffer'[k] => j = k
    <3> SUFFICES ASSUME NEW j \in 1..(Len(w) - n), NEW k \in 1..(Len(w) - n), buffer'[j] = buffer'[k]
                 PROVE  j = k
      BY <1>3
    <3>2. w[n + j] = w[n + k] /\ n + j \in 1..Len(w) /\ n + k \in 1..Len(w)
      BY <1>3, <2>3
    <3>1. n + j = n + k
      BY <2>1, <3>2
    <3> QED
      BY <3>1, <1>1, <2>3
  <2>6. \A j \in 1..Len(batch'), k \in 1..Len(buffer') : batch'[j] # buffer'[k]
    <3> SUFFICES ASSUME NEW j \in 1..n, NEW k \in 1..(Len(w) - n), batch'[j] = buffer'[k]
                 PROVE  FALSE
      BY <1>2, <1>3
    <3>1. j = n + k
      BY <1>2, <1>3, <2>1, <2>2, <2>3
    <3> QED
      BY <3>1, <1>1, <2>3
  <2> QED
    BY <2>4, <2>5, <2>6 DEF Lined
<1>5. flush' = "idle" => batch' = <<>>
  BY <1>1, <1>2
<1>6. LineInv'
  BY <1>1, <1>2, <1>3, <1>4, <1>5 DEF LineInv
<1>7. ASSUME NEW i, Waits(i)' \/ Unsent(i)' PROVE In(i, w)
  <2>1. CASE Waits(i)'
    <3>1. PICK k \in 1..Len(buffer') : buffer'[k] = i
      BY <2>1 DEF Waits
    <3>3. k \in 1..(Len(w) - n) /\ w[n + k] = i
      BY <1>3, <3>1
    <3>2. n + k \in 1..Len(w)
      BY <1>1, <3>3
    <3> QED
      BY <3>3, <3>2 DEF In
  <2>2. CASE Unsent(i)'
    BY <1>1, <1>2, <2>2 DEF Unsent, In
  <2> QED
    BY <1>7, <2>1, <2>2
<1>8. \A i : ~Sent(i)'
  BY DEF Sent
<1> QED
  BY <1>6, <1>7, <1>8

\* An item that submits joins the line at its end.
LEMMA Joins ==
  ASSUME LineInv, NEW i \in Item, ~Waits(i)
  PROVE  /\ Append(buffer, i) \in Seq(Item) /\ Once(Append(buffer, i))
         /\ Len(Append(buffer, i)) = Len(buffer) + 1
         /\ \A j : In(j, Append(buffer, i)) <=> j = i \/ Waits(j)
<1> DEFINE w == Append(buffer, i)
<1>1. /\ w \in Seq(Item) /\ Len(w) = Len(buffer) + 1 /\ Len(buffer) \in Nat
      /\ w[Len(buffer) + 1] = i /\ \A k \in 1..Len(buffer) : w[k] = buffer[k]
  BY DEF LineInv
<1> HIDE DEF w
<1>2. Once(w)
  BY <1>1 DEF Once, LineInv, Lined, Waits
<1>3. \A j : In(j, w) <=> j = i \/ Waits(j)
  BY <1>1 DEF In, Waits
<1> QED
  BY <1>1, <1>2, <1>3 DEF w

LEMMA LineFacts ==
  ASSUME LineInv
  PROVE  /\ buffer \in Seq(Item) /\ Once(buffer) /\ \A i : In(i, buffer) <=> Waits(i)
         /\ \A i : Waits(i) => ~Sent(i) /\ ~Unsent(i)
         /\ \A i : Sent(i) => ~Unsent(i)
<1>1. sent \in Nat /\ sent <= Len(batch) /\ Len(batch) \in Nat
  BY DEF LineInv
<1>2. \A i : Waits(i) => ~Sent(i) /\ ~Unsent(i)
  BY <1>1 DEF LineInv, Lined, Waits, Sent, Unsent
<1>3. \A i : Sent(i) => ~Unsent(i)
  BY <1>1 DEF LineInv, Lined, Sent, Unsent
<1> QED
  BY <1>2, <1>3 DEF LineInv, Lined, Once, In, Waits

\* What flush() does to the line, when there is something to take and no flush is under way.
LEMMA LineAfterStart ==
  ASSUME LineInv, NEW w \in Seq(Item), Once(w), \A i : In(i, w) => ~Sent(i) /\ ~Unsent(i),
         \/ StartFlush(w)
         \/ buffer' = w /\ flushTimer' = TRUE /\ UNCHANGED <<flush, batch, sent, dbInserted>>
  PROVE  /\ LineInv' /\ flushTimer' \in BOOLEAN
         /\ \/ /\ UNCHANGED <<flush, sent, dbInserted>>
               /\ \A i : (Waits(i)' <=> In(i, w)) /\ (Sent(i)' <=> Sent(i)) /\ (Unsent(i)' <=> Unsent(i))
            \/ /\ flush = "idle" /\ flush' = "channel" /\ sent' = 0 /\ ~dbInserted'
               /\ \A i : (Waits(i)' \/ Unsent(i)' => In(i, w)) /\ ~Sent(i)'
<1>1. CASE buffer' = w /\ flushTimer' \in BOOLEAN /\ UNCHANGED <<flush, batch, sent, dbInserted>>
  <2>1. \A i : (Waits(i)' <=> In(i, w)) /\ (Sent(i)' <=> Sent(i)) /\ (Unsent(i)' <=> Unsent(i))
    BY <1>1 DEF Waits, In, Sent, Unsent
  <2>2. \A j \in 1..Len(batch), k \in 1..Len(w) : batch[j] # w[k]
    <3> SUFFICES ASSUME NEW j \in 1..Len(batch), NEW k \in 1..Len(w), batch[j] = w[k]
                 PROVE  FALSE
      OBVIOUS
    <3>1. In(w[k], w)
      BY DEF In
    <3>2. j \in 1..sent \/ j \in (sent + 1)..Len(batch)
      BY DEF LineInv
    <3>3. Sent(w[k]) \/ Unsent(w[k])
      BY <3>2 DEF Sent, Unsent
    <3> QED
      BY <3>1, <3>3
  <2>3. Lined(batch', buffer')
    BY <1>1, <2>2 DEF Lined, Once, LineInv
  <2>4. LineInv'
    BY <1>1, <2>3 DEF LineInv
  <2> QED
    BY <1>1, <2>1, <2>4
<1>2. CASE StartFlush(w) /\ w # <<>> /\ flush = "idle"
  <2>1. PICK n : n = IF Len(w) < BatchSize THEN Len(w) ELSE BatchSize
    OBVIOUS
  <2>2. /\ batch' = SubSeq(w, 1, n) /\ buffer' = SubSeq(w, n + 1, Len(w)) /\ flushTimer' = FALSE
        /\ flush' = "channel" /\ sent' = 0 /\ dbInserted' = FALSE
    BY <1>2, <2>1 DEF StartFlush
  <2>3. LineInv' /\ (\A i : Waits(i)' \/ Unsent(i)' => In(i, w)) /\ (\A i : ~Sent(i)')
    BY <2>1, <2>2, NextBatch
  <2> QED
    BY <1>2, <2>2, <2>3
<1> QED
  BY <1>1, <1>2 DEF StartFlush

\* The end of a flush takes the next batch.
LEMMA LineAfterEnd ==
  ASSUME LineInv, flushTimer \in BOOLEAN, EndFlush
  PROVE  /\ LineInv' /\ flushTimer' \in BOOLEAN
         /\ flush' \in {"idle", "channel"} /\ sent' = 0 /\ ~dbInserted' /\ dbInserted' \in BOOLEAN
         /\ \A i : (Waits(i)' \/ Unsent(i)' => Waits(i)) /\ ~Sent(i)'
<1>1. PICK n : n = IF Len(buffer) < BatchSize THEN Len(buffer) ELSE BatchSize
  OBVIOUS
<1>2. /\ batch' = SubSeq(buffer, 1, n) /\ buffer' = SubSeq(buffer, n + 1, Len(buffer))
      /\ flush' = (IF buffer = <<>> THEN "idle" ELSE "channel") /\ sent' = 0 /\ dbInserted' = FALSE
      /\ flushTimer' = IF buffer = <<>> THEN flushTimer ELSE FALSE
  BY <1>1 DEF EndFlush
<1>3. buffer \in Seq(Item) /\ Once(buffer) /\ \A i : In(i, buffer) <=> Waits(i)
  BY LineFacts
<1>4. flush' = "idle" => buffer = <<>>
  BY <1>2
<1>5. LineInv' /\ (\A i : Waits(i)' \/ Unsent(i)' => In(i, buffer)) /\ (\A i : ~Sent(i)')
  BY <1>1, <1>2, <1>3, <1>4, NextBatch
<1> QED
  BY <1>2, <1>3, <1>5

\* A line that does not move.
LEMMA SameLine ==
  ASSUME LineInv, UNCHANGED <<buffer, batch, sent>>, flush' = "idle" => flush = "idle"
  PROVE  LineInv' /\ \A i : (Waits(i)' <=> Waits(i)) /\ (Sent(i)' <=> Sent(i)) /\ (Unsent(i)' <=> Unsent(i))
BY DEF LineInv, Lined, Waits, Sent, Unsent

LEMMA NoneSent == ASSUME sent = 0, NEW i PROVE ~Sent(i)
BY DEF Sent

LEMMA AllSent == ASSUME LineInv, sent = Len(batch), NEW i PROVE ~Unsent(i)
BY DEF Unsent, LineInv

\* A fault that happened stays known.
LEMMA FaultFacts ==
  ASSUME faults \in [left : 0..MaxFaults, seen : SUBSET FaultKinds], NEW kind, Fault(kind)
  PROVE  /\ faults' \in [left : 0..MaxFaults, seen : SUBSET FaultKinds]
         /\ faults'.seen = faults.seen \cup {kind}
BY FaultsAssumption DEF Fault

LEMMA Grows ==
  ASSUME NEW K, faults.seen \subseteq faults'.seen, Without(K)'
  PROVE  Without(K)
BY DEF Without

(* Each action preserves it ------------------------------------------------*)
\* A step of the flush that does not move the line, for the parts about single items.
LEMMA KeepsLine ==
  ASSUME PublisherInv, UNCHANGED <<buffer, batch, sent>>, flush' # "idle"
  PROVE  LineInv' /\ \A i : (Waits(i)' <=> Waits(i)) /\ (Sent(i)' <=> Sent(i)) /\ (Unsent(i)' <=> Unsent(i))
BY SameLine DEF PublisherInv

LEMMA GetChannelKeeps == ASSUME PublisherInv, GetChannel PROVE PublisherInv'
<1>1. /\ UNCHANGED <<buffer, batch, sent, flushTimer, dbInserted, returned, row, message, promise, marker, marking>>
      /\ flush = "channel" /\ flush' \in {"insert", "failed"} /\ sent = 0
      /\ flush' = "insert" => channelUp' /\ UNCHANGED faults
      /\ channelUp' \in BOOLEAN /\ connection' \in {"none", "open", "rejected"}
  BY DEF GetChannel, Goto, Fails, brokerVars, callerVars, PublisherInv, OtherTypes, FlushInv
<1>2. /\ faults' \in [left : 0..MaxFaults, seen : SUBSET FaultKinds] /\ faults.seen \subseteq faults'.seen
  BY FaultFacts DEF GetChannel, Fails, PublisherInv, OtherTypes
<1>3. LineInv' /\ \A i : (Waits(i)' <=> Waits(i)) /\ ~Sent(i)' /\ ~Sent(i) /\ (Unsent(i)' <=> Unsent(i))
  BY <1>1, KeepsLine, NoneSent
<1>4. OtherTypes'
  BY <1>1, <1>2 DEF OtherTypes, PublisherInv, Step
<1>5. FlushInv'
  BY <1>1 DEF FlushInv, PublisherInv
<1>6. ASSUME NEW i \in Item PROVE ItemInv(i)'
  BY <1>1, <1>2, <1>3, Grows DEF ItemInv, Untouched, Accepted, PublisherInv
<1> QED
  BY <1>3, <1>4, <1>5, <1>6 DEF PublisherInv

LEMMA InsertRowsKeeps == ASSUME PublisherInv, InsertRows PROVE PublisherInv'
<1>1. /\ UNCHANGED <<buffer, batch, sent, flushTimer, connection, channelUp, returned, message, promise, marker, marking>>
      /\ flush = "insert" /\ flush' \in {"publish", "failed"} /\ sent = 0
      /\ flush' = "publish" => dbInserted' /\ UNCHANGED faults
      /\ dbInserted' \in BOOLEAN
      /\ \/ UNCHANGED <<row, dbInserted>>
         \/ Inserted /\ (dbInserted' \/ "lostInsert" \in faults'.seen)
  <2>1. /\ UNCHANGED <<connection, channelUp, returned, message, promise, marker, marking>>
        /\ flush = "insert" /\ sent = 0 /\ dbInserted \in BOOLEAN
    BY DEF InsertRows, callerVars, PublisherInv, OtherTypes, FlushInv
  <2>2. CASE Inserted /\ flush' = "publish" /\ dbInserted' = TRUE /\ UNCHANGED <<buffer, flushTimer, batch, sent, faults>>
    BY <2>1, <2>2
  <2>3. CASE Fails("database") /\ UNCHANGED row
    BY <2>1, <2>3 DEF Fails, Goto
  <2>4. CASE Fails("lostInsert") /\ Inserted
    BY <2>1, <2>4, FaultFacts DEF Fails, Goto, PublisherInv, OtherTypes
  <2> QED
    BY <2>2, <2>3, <2>4 DEF InsertRows
<1>2. /\ faults' \in [left : 0..MaxFaults, seen : SUBSET FaultKinds] /\ faults.seen \subseteq faults'.seen
  BY FaultFacts DEF InsertRows, Fails, PublisherInv, OtherTypes
<1>3. LineInv' /\ \A i : (Waits(i)' <=> Waits(i)) /\ ~Sent(i)' /\ ~Sent(i) /\ (Unsent(i)' <=> Unsent(i))
  BY <1>1, KeepsLine, NoneSent
<1>4. \A i : InBatch(i) <=> Unsent(i)
  BY <1>3, BatchParts DEF PublisherInv
<1>5. \A i \in Item : row'[i] = row[i] \/ (Unsent(i) /\ row'[i] = "EM_EXECUCAO" /\ (dbInserted' \/ "lostInsert" \in faults'.seen))
  BY <1>1, <1>4 DEF Inserted
<1>6. row' \in [Item -> {"none", "EM_EXECUCAO", "SUCESSO", "ERRO"}]
  BY <1>1 DEF Inserted, PublisherInv, OtherTypes
<1>7. OtherTypes'
  BY <1>1, <1>2, <1>6 DEF OtherTypes, PublisherInv, Step
<1>8. FlushInv'
  BY <1>1 DEF FlushInv, PublisherInv, Without
<1>9. ASSUME NEW i \in Item PROVE ItemInv(i)'
  <2>1. /\ Without({"channel", "crash"})' => Without({"channel", "crash"})
        /\ Without({"crash", "lostInsert", "database"})' => Without({"crash", "lostInsert", "database"})
    BY <1>2, Grows
  <2>2. Without({"crash", "lostInsert", "database"})' => "lostInsert" \notin faults'.seen
    BY DEF Without
  <2>3. ItemInv(i)
    BY DEF PublisherInv
  <2>4. Waits(i) => ~Unsent(i)
    BY LineFacts DEF PublisherInv
  <2>5. UNCHANGED dbInserted \/ dbInserted' \/ "lostInsert" \in faults'.seen
    BY <1>1
  <2> QED
    BY <1>1, <1>3, <1>5, <2>1, <2>2, <2>3, <2>4, <2>5 DEF ItemInv, Untouched, Accepted
<1> QED
  BY <1>3, <1>7, <1>8, <1>9 DEF PublisherInv

LEMMA PublishKeeps == ASSUME PublisherInv, Publish PROVE PublisherInv'
<1>1. CASE ~channelUp
  <2>1. /\ UNCHANGED <<buffer, batch, sent, flushTimer, dbInserted, connection, channelUp, returned, row, message, promise, marker, marking, faults>>
        /\ flush = "publish" /\ flush' = "failed"
    BY <1>1 DEF Publish, callerVars
  <2>2. LineInv' /\ \A i : (Waits(i)' <=> Waits(i)) /\ (Sent(i)' <=> Sent(i)) /\ (Unsent(i)' <=> Unsent(i))
    BY <2>1, KeepsLine
  <2>3. OtherTypes'
    BY <2>1 DEF OtherTypes, PublisherInv, Step
  <2>4. FlushInv'
    BY <1>1, <2>1 DEF FlushInv, PublisherInv, Without
  <2>5. ASSUME NEW i \in Item PROVE ItemInv(i)'
    BY <2>1, <2>2 DEF ItemInv, Untouched, Accepted, PublisherInv, Without
  <2> QED
    BY <2>2, <2>3, <2>4, <2>5 DEF PublisherInv
<1>2. CASE channelUp
  <2>1. PICK n \in sent..Len(batch) :
          /\ (n = Len(batch) /\ flush' = "confirm" /\ UNCHANGED faults) \/ (n > sent /\ flush' = "drain" /\ Fault("buffer"))
          /\ sent' = n
          /\ message' = [i \in Item |-> IF \E k \in (sent + 1)..n : batch[k] = i THEN "wire" ELSE message[i]]
    BY <1>2 DEF Publish
  <2>2. /\ UNCHANGED <<buffer, batch, flushTimer, dbInserted, connection, channelUp, returned, row, promise, marker, marking>>
        /\ flush = "publish" /\ dbInserted
    BY DEF Publish, callerVars, PublisherInv, FlushInv
  <2>3. /\ faults' \in [left : 0..MaxFaults, seen : SUBSET FaultKinds] /\ faults.seen \subseteq faults'.seen
    BY <2>1, FaultFacts DEF PublisherInv, OtherTypes
  <2> DEFINE Moved(i) == \E k \in (sent + 1)..n : batch[k] = i
  <2>4. /\ sent \in Nat /\ n \in Nat /\ Len(batch) \in Nat /\ sent <= n /\ n <= Len(batch)
        /\ buffer \in Seq(Item) /\ batch \in Seq(Item) /\ LineInv
    BY <2>1 DEF PublisherInv, LineInv
  <2>5. LineInv'
    BY <2>1, <2>2, <2>4 DEF LineInv, Lined
  <2>6. \A i : Waits(i)' <=> Waits(i)
    BY <2>2 DEF Waits
  <2>7. 1..n = 1..sent \cup (sent + 1)..n /\ (sent + 1)..Len(batch) = (sent + 1)..n \cup (n + 1)..Len(batch)
    BY <2>4
  <2>8. \A i : (Sent(i)' <=> Sent(i) \/ Moved(i)) /\ (Unsent(i) <=> Moved(i) \/ Unsent(i)')
    BY <2>1, <2>2, <2>7 DEF Sent, Unsent
  <2>9. \A i : (Sent(i)' => ~Unsent(i)') /\ (Waits(i)' => ~Sent(i)' /\ ~Unsent(i)') /\ (Sent(i) => ~Unsent(i))
    <3>1. \A i : Sent(i) => ~Unsent(i)
      BY LineFacts, <2>4
    <3>2. (\A i : Waits(i) => ~Sent(i) /\ ~Unsent(i))
      BY LineFacts, <2>4
    <3>3. \A j, k \in 1..Len(batch) : batch[j] = batch[k] => j = k
      BY <2>4 DEF LineInv, Lined
    <3>4. ASSUME NEW i, Sent(i)', Unsent(i)' PROVE FALSE
      <4>1. PICK j \in 1..n : batch[j] = i
        BY <2>1, <2>2, <3>4 DEF Sent
      <4>2. PICK k \in (n + 1)..Len(batch) : batch[k] = i
        BY <2>1, <2>2, <3>4 DEF Unsent
      <4> QED
        BY <2>4, <3>3, <4>1, <4>2
    <3> QED
      BY <2>6, <2>8, <3>1, <3>2, <3>4
  <2> HIDE DEF Moved
  <2>10. \A i \in Item : message'[i] = IF Moved(i) THEN "wire" ELSE message[i]
    BY <2>1 DEF Moved
  <2>11. message' \in [Item -> Message]
    BY <2>1 DEF PublisherInv, OtherTypes, Message
  <2>12. OtherTypes'
    BY <2>1, <2>2, <2>3, <2>11 DEF OtherTypes, PublisherInv, Step
  <2>13. FlushInv'
    BY <1>2, <2>1, <2>2 DEF FlushInv, PublisherInv
  <2>14. ASSUME NEW i \in Item PROVE ItemInv(i)'
    <3>1. /\ Without({"channel", "crash"})' => Without({"channel", "crash"})
          /\ Without({"crash", "lostInsert", "database"})' => Without({"crash", "lostInsert", "database"})
      BY <2>3, Grows
    <3>2. ItemInv(i) /\ flush' \in {"confirm", "drain"}
      BY <2>1 DEF PublisherInv
    <3>3. CASE Moved(i)
      BY <2>2, <2>6, <2>8, <2>9, <2>10, <3>1, <3>2, <3>3 DEF ItemInv, Untouched, Accepted
    <3>4. CASE ~Moved(i)
      BY <1>2, <2>2, <2>6, <2>8, <2>9, <2>10, <3>1, <3>2, <3>4 DEF ItemInv, Untouched, Accepted
    <3> QED
      BY <3>3, <3>4
  <2> QED
    BY <2>5, <2>12, <2>13, <2>14 DEF PublisherInv
<1> QED
  BY <1>1, <1>2

LEMMA DrainKeeps == ASSUME PublisherInv, Drain PROVE PublisherInv'
<1>1. /\ UNCHANGED <<buffer, batch, sent, flushTimer, dbInserted, connection, channelUp, returned, row, message, promise, marker, marking, faults>>
      /\ flush = "drain" /\ flush' = "publish" /\ channelUp
  BY DEF Drain, Goto, brokerVars, callerVars
<1>2. LineInv' /\ \A i : (Waits(i)' <=> Waits(i)) /\ (Sent(i)' <=> Sent(i)) /\ (Unsent(i)' <=> Unsent(i))
  BY <1>1, KeepsLine
<1>3. OtherTypes'
  BY <1>1 DEF OtherTypes, PublisherInv, Step
<1>4. FlushInv'
  BY <1>1 DEF FlushInv, PublisherInv
<1>5. ASSUME NEW i \in Item PROVE ItemInv(i)'
  BY <1>1, <1>2 DEF ItemInv, Untouched, Accepted, PublisherInv, Without
<1> QED
  BY <1>2, <1>3, <1>4, <1>5 DEF PublisherInv

LEMMA ConfirmKeeps == ASSUME PublisherInv, Confirm PROVE PublisherInv'
<1>1. /\ UNCHANGED <<buffer, batch, sent, flushTimer, dbInserted, connection, channelUp, returned, row, message, promise, marker, marking, faults>>
      /\ flush = "confirm"
      /\ \/ channelUp /\ flush' = "settle" /\ \A i \in ToSet(batch) : message[i] \notin {"wire", "returned"}
         \/ ~channelUp /\ flush' = "failed"
  BY DEF Confirm, Goto, brokerVars, callerVars
<1>2. LineInv' /\ \A i : (Waits(i)' <=> Waits(i)) /\ (Sent(i)' <=> Sent(i)) /\ (Unsent(i)' <=> Unsent(i))
  BY <1>1, KeepsLine
<1>3. OtherTypes'
  BY <1>1 DEF OtherTypes, PublisherInv, Step
<1>4. FlushInv'
  BY <1>1 DEF FlushInv, PublisherInv, Without
<1>5. ASSUME NEW i \in Item PROVE ItemInv(i)'
  <2>1. Sent(i) => i \in ToSet(batch)
    BY BatchParts DEF PublisherInv, InBatch
  <2>2. ItemInv(i) /\ message[i] \in Message
    BY DEF PublisherInv, OtherTypes
  <2> QED
    BY <1>1, <1>2, <2>1, <2>2 DEF ItemInv, Untouched, Accepted, Without, Message
<1> QED
  BY <1>2, <1>3, <1>4, <1>5 DEF PublisherInv

\* Both ends of a flush: what is left of an item when its batch is put away.
LEMMA SettleKeeps == ASSUME PublisherInv, Settle PROVE PublisherInv'
<1> DEFINE back == ToSet(batch) \cap returned
<1>1. /\ flush = "settle" /\ returned' = returned \ back
      /\ promise' = [i \in Item |-> CASE i \in back -> "rejected"
                                      [] InBatch(i) /\ i \notin back -> "resolved"
                                      [] OTHER -> promise[i]]
      /\ marking' = marking \cup (ToSet(batch) \ back)
      /\ EndFlush /\ UNCHANGED <<connection, channelUp, message, marker>>
      /\ \/ row' = [i \in Item |-> IF i \in back THEN "ERRO" ELSE row[i]] /\ UNCHANGED faults
         \/ back # {} /\ Fault("database") /\ UNCHANGED row
  BY DEF Settle, BookError
<1>2. /\ LineInv' /\ flushTimer' \in BOOLEAN /\ flush' \in {"idle", "channel"} /\ sent' = 0
      /\ ~dbInserted' /\ dbInserted' \in BOOLEAN
      /\ \A i : (Waits(i)' \/ Unsent(i)' => Waits(i)) /\ ~Sent(i)'
  BY <1>1, LineAfterEnd DEF PublisherInv, OtherTypes
<1>3. /\ \A i : Waits(i) => ~Sent(i)
      /\ \A i : InBatch(i) <=> Sent(i)
      /\ \A i : ~Unsent(i)
      /\ \A i : i \in back <=> Sent(i) /\ i \in returned
  <2>1. sent = Len(batch)
    BY <1>1 DEF PublisherInv, FlushInv
  <2>2. \A i : ~Unsent(i)
    BY <2>1, AllSent DEF PublisherInv
  <2>3. \A i : InBatch(i) <=> Sent(i)
    BY <2>2, BatchParts DEF PublisherInv
  <2> QED
    BY <2>2, <2>3, LineFacts DEF PublisherInv, InBatch
<1>4. ToSet(batch) \subseteq Item
  BY DEF PublisherInv, LineInv, ToSet
<1> HIDE DEF back
<1>5. /\ faults' \in [left : 0..MaxFaults, seen : SUBSET FaultKinds] /\ faults.seen \subseteq faults'.seen
      /\ UNCHANGED row => back = {} \/ "database" \in faults'.seen \/ row' = [i \in Item |-> IF i \in back THEN "ERRO" ELSE row[i]]
  BY <1>1, FaultFacts DEF PublisherInv, OtherTypes
<1>6. /\ row' \in [Item -> {"none", "EM_EXECUCAO", "SUCESSO", "ERRO"}]
      /\ \A i \in Item : \/ i \in back /\ (row'[i] = "ERRO" \/ (row'[i] = row[i] /\ "database" \in faults'.seen))
                         \/ i \notin back /\ row'[i] = row[i]
  <2>1. CASE row' = [i \in Item |-> IF i \in back THEN "ERRO" ELSE row[i]]
    BY <2>1 DEF PublisherInv, OtherTypes
  <2>2. CASE Fault("database") /\ UNCHANGED row
    BY <2>2, FaultFacts DEF PublisherInv, OtherTypes
  <2> QED
    BY <1>1, <2>1, <2>2
<1>7. /\ promise' \in [Item -> {"none", "pending", "resolved", "rejected"}]
      /\ \A i \in Item : \/ i \in back /\ promise'[i] = "rejected"
                         \/ Sent(i) /\ i \notin returned /\ promise'[i] = "resolved"
                         \/ ~Sent(i) /\ promise'[i] = promise[i]
  BY <1>1, <1>3 DEF PublisherInv, OtherTypes
<1>8. OtherTypes'
  BY <1>1, <1>2, <1>4, <1>5, <1>6, <1>7 DEF OtherTypes, PublisherInv, Step
<1>9. FlushInv'
  BY <1>2 DEF FlushInv
<1>10. ASSUME NEW i \in Item PROVE ItemInv(i)'
  <2>1. /\ Without({"channel", "crash"})' => Without({"channel", "crash"})
        /\ Without({"crash", "lostInsert", "database"})' => Without({"crash", "lostInsert", "database"})
    BY <1>5, Grows
  <2>2. Without({"crash", "lostInsert", "database"})' => "database" \notin faults'.seen
    BY DEF Without
  <2>3. ItemInv(i)
    BY DEF PublisherInv
  <2>4. CASE Sent(i)
    BY <1>1, <1>2, <1>3, <1>6, <1>7, <2>1, <2>2, <2>3, <2>4 DEF ItemInv, Untouched, Accepted
  <2>5. CASE ~Sent(i)
    BY <1>1, <1>2, <1>3, <1>6, <1>7, <2>1, <2>3, <2>5 DEF ItemInv, Untouched, Accepted
  <2> QED
    BY <2>4, <2>5
<1> QED
  BY <1>2, <1>8, <1>9, <1>10 DEF PublisherInv

LEMMA FailKeeps == ASSUME PublisherInv, Fail PROVE PublisherInv'
<1> DEFINE booked == IF dbInserted THEN ToSet(batch) ELSE {}
<1>1. /\ flush = "failed" /\ channelUp' = FALSE
      /\ promise' = [i \in Item |-> IF InBatch(i) THEN "rejected" ELSE promise[i]]
      /\ EndFlush /\ UNCHANGED <<connection, returned, message, marker, marking>>
      /\ \/ row' = [i \in Item |-> IF i \in booked THEN "ERRO" ELSE row[i]] /\ UNCHANGED faults
         \/ Fault("database") /\ UNCHANGED row
  BY DEF Fail, BookError
<1>2. /\ LineInv' /\ flushTimer' \in BOOLEAN /\ flush' \in {"idle", "channel"} /\ sent' = 0
      /\ ~dbInserted' /\ dbInserted' \in BOOLEAN
      /\ \A i : (Waits(i)' \/ Unsent(i)' => Waits(i)) /\ ~Sent(i)'
  BY <1>1, LineAfterEnd DEF PublisherInv, OtherTypes
<1>3. /\ \A i : Waits(i) => ~InBatch(i)
      /\ \A i : InBatch(i) <=> Sent(i) \/ Unsent(i)
      /\ \A i : i \in booked <=> InBatch(i) /\ dbInserted
      /\ Without({"channel", "crash"}) => \A i : ~Sent(i)
  BY <1>1, BatchParts, LineFacts, NoneSent DEF PublisherInv, InBatch, FlushInv
<1> HIDE DEF booked
<1>4. /\ faults' \in [left : 0..MaxFaults, seen : SUBSET FaultKinds] /\ faults.seen \subseteq faults'.seen
  BY <1>1, FaultFacts DEF PublisherInv, OtherTypes
<1>5. /\ row' \in [Item -> {"none", "EM_EXECUCAO", "SUCESSO", "ERRO"}]
      /\ \A i \in Item : \/ i \in booked /\ row'[i] = "ERRO"
                         \/ row'[i] = row[i] /\ (i \notin booked \/ "database" \in faults'.seen)
  <2>1. CASE row' = [i \in Item |-> IF i \in booked THEN "ERRO" ELSE row[i]]
    BY <2>1 DEF PublisherInv, OtherTypes
  <2>2. CASE Fault("database") /\ UNCHANGED row
    BY <2>2, FaultFacts DEF PublisherInv, OtherTypes
  <2> QED
    BY <1>1, <2>1, <2>2
<1>6. /\ promise' \in [Item -> {"none", "pending", "resolved", "rejected"}]
      /\ \A i \in Item : promise'[i] = IF InBatch(i) THEN "rejected" ELSE promise[i]
  BY <1>1 DEF PublisherInv, OtherTypes
<1>7. OtherTypes'
  BY <1>1, <1>2, <1>4, <1>5, <1>6 DEF OtherTypes, PublisherInv, Step
<1>8. FlushInv'
  BY <1>2 DEF FlushInv
<1>9. ASSUME NEW i \in Item PROVE ItemInv(i)'
  <2>1. /\ Without({"channel", "crash"})' => Without({"channel", "crash"})
        /\ Without({"crash", "lostInsert", "database"})' => Without({"crash", "lostInsert", "database"})
    BY <1>4, Grows
  <2>2. Without({"crash", "lostInsert", "database"})' => "database" \notin faults'.seen
    BY DEF Without
  <2>3. ItemInv(i)
    BY DEF PublisherInv
  <2>4. CASE InBatch(i)
    BY <1>1, <1>2, <1>3, <1>5, <1>6, <2>1, <2>2, <2>3, <2>4 DEF ItemInv, Untouched, Accepted
  <2>5. CASE ~InBatch(i)
    BY <1>1, <1>2, <1>3, <1>5, <1>6, <2>1, <2>3, <2>5 DEF ItemInv, Untouched, Accepted
  <2> QED
    BY <2>4, <2>5
<1> QED
  BY <1>2, <1>7, <1>8, <1>9 DEF PublisherInv

\* What an action does to the line when a flush may start.
LEMMA StartKeepsFlush ==
  ASSUME PublisherInv, UNCHANGED <<channelUp, faults>>,
         \/ UNCHANGED <<flush, sent, dbInserted>> /\ (Len(batch') = Len(batch))
         \/ flush' = "channel" /\ sent' = 0
  PROVE  FlushInv'
BY DEF FlushInv, PublisherInv, Without

LEMMA TimerFiresKeeps == ASSUME PublisherInv, TimerFires PROVE PublisherInv'
<1>1. /\ StartFlush(buffer)
      /\ UNCHANGED <<connection, channelUp, returned, row, message, promise, marker, marking, faults>>
  BY DEF TimerFires, brokerVars, callerVars
<1>2. /\ buffer \in Seq(Item) /\ Once(buffer) /\ (\A i : In(i, buffer) <=> Waits(i))
      /\ (\A i : Waits(i) => ~Sent(i) /\ ~Unsent(i))
  BY LineFacts DEF PublisherInv
<1>3. /\ LineInv' /\ flushTimer' \in BOOLEAN
      /\ \/ /\ UNCHANGED <<flush, sent, dbInserted>>
            /\ \A i : (Waits(i)' <=> In(i, buffer)) /\ (Sent(i)' <=> Sent(i)) /\ (Unsent(i)' <=> Unsent(i))
         \/ /\ flush = "idle" /\ flush' = "channel" /\ sent' = 0 /\ ~dbInserted'
            /\ \A i : (Waits(i)' \/ Unsent(i)' => In(i, buffer)) /\ ~Sent(i)'
  BY <1>1, <1>2, LineAfterStart DEF PublisherInv
<1>4. /\ dbInserted' \in BOOLEAN
      /\ UNCHANGED <<flush, batch, sent, dbInserted>> \/ (flush' = "channel" /\ sent' = 0)
  BY <1>1 DEF StartFlush, PublisherInv, OtherTypes
<1>5. OtherTypes'
  BY <1>1, <1>3, <1>4 DEF OtherTypes, PublisherInv, Step
<1>6. FlushInv'
  BY <1>1, <1>4, StartKeepsFlush
<1>7. flush = "idle" => \A i : ~Sent(i) /\ ~Unsent(i)
  BY DEF PublisherInv, LineInv, Sent, Unsent
<1>8. ASSUME NEW i \in Item PROVE ItemInv(i)'
  <2>1. ItemInv(i)
    BY DEF PublisherInv
  <2> QED
    BY <1>1, <1>2, <1>3, <1>7, <2>1 DEF ItemInv, Untouched, Accepted, Without
<1> QED
  BY <1>3, <1>5, <1>6, <1>8 DEF PublisherInv

LEMMA SubmitKeeps == ASSUME PublisherInv, NEW i \in Item, Submit(i) PROVE PublisherInv'
<1> DEFINE w == Append(buffer, i)
<1>1. /\ promise[i] = "none" /\ promise' = [promise EXCEPT ![i] = "pending"]
      /\ StartFlush(w) \/ (buffer' = w /\ flushTimer' = TRUE /\ UNCHANGED <<flush, batch, sent, dbInserted>>)
      /\ UNCHANGED <<connection, channelUp, returned, row, message, marker, marking, faults>>
  BY DEF Submit, brokerVars
<1>2. ItemInv(i) /\ ~Waits(i) /\ ~Sent(i) /\ ~Unsent(i) /\ Untouched(i)
  BY <1>1 DEF PublisherInv, ItemInv
<1>3. /\ w \in Seq(Item) /\ Once(w) /\ (\A j : In(j, w) <=> j = i \/ Waits(j))
  BY <1>2, Joins DEF PublisherInv
<1> HIDE DEF w
<1>4. \A j : Waits(j) => ~Sent(j) /\ ~Unsent(j)
  BY LineFacts DEF PublisherInv
<1>5. \A j : In(j, w) => ~Sent(j) /\ ~Unsent(j)
  BY <1>2, <1>3, <1>4
<1>6. /\ LineInv' /\ flushTimer' \in BOOLEAN
      /\ \/ /\ UNCHANGED <<flush, sent, dbInserted>>
            /\ \A j : (Waits(j)' <=> In(j, w)) /\ (Sent(j)' <=> Sent(j)) /\ (Unsent(j)' <=> Unsent(j))
         \/ /\ flush = "idle" /\ flush' = "channel" /\ sent' = 0 /\ ~dbInserted'
            /\ \A j : (Waits(j)' \/ Unsent(j)' => In(j, w)) /\ ~Sent(j)'
  BY <1>1, <1>3, <1>5, LineAfterStart DEF PublisherInv
<1>7. /\ dbInserted' \in BOOLEAN
      /\ UNCHANGED <<flush, batch, sent, dbInserted>> \/ (flush' = "channel" /\ sent' = 0)
  BY <1>1 DEF StartFlush, PublisherInv, OtherTypes
<1>8. OtherTypes'
  BY <1>1, <1>6, <1>7 DEF OtherTypes, PublisherInv, Step
<1>9. FlushInv'
  BY <1>1, <1>7, StartKeepsFlush
<1>10. flush = "idle" => \A j : ~Sent(j) /\ ~Unsent(j)
  BY DEF PublisherInv, LineInv, Sent, Unsent
<1>11. ASSUME NEW j \in Item PROVE ItemInv(j)'
  <2>1. ItemInv(j)
    BY DEF PublisherInv
  <2>2. promise'[j] = IF j = i THEN "pending" ELSE promise[j]
    BY <1>1 DEF PublisherInv, OtherTypes
  <2>3. CASE j = i
    BY <1>1, <1>2, <1>3, <1>6, <1>10, <2>1, <2>2, <2>3 DEF ItemInv, Untouched, Accepted, Without
  <2>4. CASE j # i
    BY <1>1, <1>3, <1>4, <1>6, <1>10, <2>1, <2>2, <2>4 DEF ItemInv, Untouched, Accepted, Without
  <2> QED
    BY <2>3, <2>4
<1> QED
  BY <1>6, <1>8, <1>9, <1>11 DEF PublisherInv

\* Steps of callers, broker and worker leave the flush alone.
LEMMA BesideTheFlush ==
  ASSUME PublisherInv, UNCHANGED <<buffer, batch, sent, flush, dbInserted, flushTimer, connection, channelUp>>,
         faults.seen \subseteq faults'.seen
  PROVE  /\ LineInv' /\ FlushInv'
         /\ \A i : (Waits(i)' <=> Waits(i)) /\ (Sent(i)' <=> Sent(i)) /\ (Unsent(i)' <=> Unsent(i))
         /\ Without({"channel", "crash"})' => Without({"channel", "crash"})
         /\ Without({"crash", "lostInsert", "database"})' => Without({"crash", "lostInsert", "database"})
<1>1. /\ Without({"channel", "crash"})' => Without({"channel", "crash"})
      /\ Without({"crash", "lostInsert", "database"})' => Without({"crash", "lostInsert", "database"})
  BY Grows
<1>2. FlushInv'
  BY <1>1 DEF FlushInv, PublisherInv
<1> QED
  BY <1>1, <1>2, SameLine DEF PublisherInv

LEMMA SetMarkerKeeps == ASSUME PublisherInv, NEW i \in Item, SetMarker(i) PROVE PublisherInv'
<1>1. /\ UNCHANGED <<buffer, batch, sent, flush, dbInserted, flushTimer, connection, channelUp>>
      /\ UNCHANGED <<returned, row, message, promise, faults>>
      /\ marking' \subseteq Item /\ marker' \subseteq Item
  BY DEF SetMarker, PublisherInv, OtherTypes
<1>2. OtherTypes'
  BY <1>1 DEF OtherTypes, PublisherInv
<1>3. ASSUME NEW j \in Item PROVE ItemInv(j)'
  BY <1>1, BesideTheFlush DEF ItemInv, Untouched, Accepted, PublisherInv
<1> QED
  BY <1>1, <1>2, <1>3, BesideTheFlush DEF PublisherInv

LEMMA BrokerStepKeeps == ASSUME PublisherInv, NEW i \in Item, BrokerStep(i) PROVE PublisherInv'
<1>1. /\ UNCHANGED <<buffer, batch, sent, flush, dbInserted, flushTimer, connection, channelUp>>
      /\ UNCHANGED <<promise, marking>>
      /\ marker' \subseteq Item
  BY DEF BrokerStep, Route, OnReturn, Vanish, Consume, FinishJob, publisherVars, callerVars, PublisherInv, OtherTypes
<1>2. faults' \in [left : 0..MaxFaults, seen : SUBSET FaultKinds] /\ faults.seen \subseteq faults'.seen
  <2>1. CASE UNCHANGED faults
    BY <2>1 DEF PublisherInv, OtherTypes
  <2>2. CASE Fault("unroutable")
    BY <2>2, FaultFacts DEF PublisherInv, OtherTypes
  <2> QED
    BY <2>1, <2>2 DEF BrokerStep, Route, OnReturn, Vanish, Consume, FinishJob
<1>3. PICK place \in Message : message' = [message EXCEPT ![i] = place]
  BY DEF BrokerStep, Route, OnReturn, Vanish, Consume, FinishJob, MessageAt, Message
<1>4. message' \in [Item -> Message] /\ message'[i] = place /\ \A j \in Item : j # i => message'[j] = message[j]
  BY <1>3 DEF PublisherInv, OtherTypes
<1>5. /\ row' \in [Item -> {"none", "EM_EXECUCAO", "SUCESSO", "ERRO"}]
      /\ \A j \in Item : j # i => row'[j] = row[j]
      /\ UNCHANGED row \/ (message[i] = "running" /\ place = "done" /\ row'[i] = "SUCESSO")
  <2>1. CASE FinishJob(i)
    BY <1>4, <2>1 DEF FinishJob, MessageAt, PublisherInv, OtherTypes
  <2>2. CASE UNCHANGED row
    BY <2>2 DEF PublisherInv, OtherTypes
  <2> QED
    BY <2>1, <2>2 DEF BrokerStep, Route, OnReturn, Vanish, Consume
<1>6. returned' \subseteq Item /\ \A j \in Item : j # i => (j \in returned' <=> j \in returned)
  BY DEF BrokerStep, Route, OnReturn, Vanish, Consume, FinishJob, PublisherInv, OtherTypes
<1>7. OtherTypes'
  BY <1>1, <1>2, <1>4, <1>5, <1>6 DEF OtherTypes, PublisherInv
<1>8. /\ LineInv' /\ FlushInv'
      /\ \A j : (Waits(j)' <=> Waits(j)) /\ (Sent(j)' <=> Sent(j)) /\ (Unsent(j)' <=> Unsent(j))
      /\ Without({"channel", "crash"})' => Without({"channel", "crash"})
      /\ Without({"crash", "lostInsert", "database"})' => Without({"crash", "lostInsert", "database"})
  BY <1>1, <1>2, BesideTheFlush
<1>9. ASSUME NEW j \in Item, j # i PROVE ItemInv(j)'
  BY <1>1, <1>4, <1>5, <1>6, <1>8, <1>9 DEF ItemInv, Untouched, Accepted, PublisherInv
<1>10. ItemInv(i)'
  <2>1. ItemInv(i) /\ row[i] \in {"none", "EM_EXECUCAO", "SUCESSO", "ERRO"}
    BY DEF PublisherInv, OtherTypes
  <2>2. CASE Route(i)
    <3>1. message[i] = "wire" /\ place \in {"queued", "returned"} /\ UNCHANGED <<row, returned>>
      BY <1>4, <2>2 DEF Route, MessageAt, PublisherInv, OtherTypes
    <3> QED
      BY <1>1, <1>4, <1>8, <2>1, <3>1 DEF ItemInv, Untouched, Accepted
  <2>3. CASE OnReturn(i)
    <3>1. message[i] = "returned" /\ place = "none" /\ UNCHANGED row /\ i \in returned'
      BY <1>4, <2>3 DEF OnReturn, MessageAt, PublisherInv, OtherTypes
    <3> QED
      BY <1>1, <1>4, <1>8, <2>1, <3>1 DEF ItemInv, Untouched, Accepted
  <2>4. CASE Vanish(i)
    <3>1. message[i] \in {"wire", "returned"} /\ place = "none" /\ UNCHANGED <<row, returned>> /\ ~channelUp
      BY <1>4, <2>4 DEF Vanish, MessageAt, PublisherInv, OtherTypes
    <3> QED
      BY <1>1, <1>4, <1>8, <2>1, <3>1 DEF ItemInv, Untouched, Accepted
  <2>5. CASE Consume(i)
    <3>1. /\ message[i] = "queued" /\ row[i] # "none" /\ UNCHANGED <<row, returned>>
          /\ place = IF row[i] = "EM_EXECUCAO" THEN "running" ELSE "done"
      BY <1>4, <2>5 DEF Consume, MessageAt, PublisherInv, OtherTypes
    <3> QED
      BY <1>1, <1>4, <1>8, <2>1, <3>1 DEF ItemInv, Untouched, Accepted
  <2>6. CASE FinishJob(i)
    <3>1. message[i] = "running" /\ place = "done" /\ row'[i] = "SUCESSO" /\ UNCHANGED returned
      BY <1>4, <2>6 DEF FinishJob, MessageAt, PublisherInv, OtherTypes
    <3>2. Sent(i) => dbInserted
      BY NoneSent DEF PublisherInv, FlushInv
    <3> QED
      BY <1>1, <1>4, <1>8, <2>1, <3>1, <3>2 DEF ItemInv, Untouched, Accepted
  <2> QED
    BY <2>2, <2>3, <2>4, <2>5, <2>6 DEF BrokerStep
<1> QED
  BY <1>7, <1>8, <1>9, <1>10 DEF PublisherInv

LEMMA ChannelClosesKeeps == ASSUME PublisherInv, ChannelCloses PROVE PublisherInv'
<1>1. /\ UNCHANGED <<buffer, batch, sent, flush, dbInserted, flushTimer, returned, row, message, promise, marker, marking>>
      /\ channelUp' = FALSE /\ connection' \in {"none", "open", "rejected"} /\ Fault("channel")
  BY DEF ChannelCloses, brokerVars, callerVars
<1>2. /\ faults' \in [left : 0..MaxFaults, seen : SUBSET FaultKinds] /\ faults.seen \subseteq faults'.seen
      /\ ~Without({"channel", "crash"})'
  BY <1>1, FaultFacts DEF PublisherInv, OtherTypes, Without
<1>3. LineInv' /\ \A i : (Waits(i)' <=> Waits(i)) /\ (Sent(i)' <=> Sent(i)) /\ (Unsent(i)' <=> Unsent(i))
  BY <1>1, SameLine DEF PublisherInv
<1>4. OtherTypes'
  BY <1>1, <1>2 DEF OtherTypes, PublisherInv
<1>5. FlushInv'
  BY <1>1, <1>2 DEF FlushInv, PublisherInv
<1>6. ASSUME NEW i \in Item PROVE ItemInv(i)'
  <2>1. Without({"crash", "lostInsert", "database"})' => Without({"crash", "lostInsert", "database"})
    BY <1>2, Grows
  <2> QED
    BY <1>1, <1>2, <1>3, <2>1 DEF ItemInv, Untouched, Accepted, PublisherInv
<1> QED
  BY <1>3, <1>4, <1>5, <1>6 DEF PublisherInv

LEMMA CrashKeeps == ASSUME PublisherInv, Crash PROVE PublisherInv'
<1>1. /\ buffer' = <<>> /\ batch' = <<>> /\ sent' = 0 /\ flush' = "idle" /\ dbInserted' = FALSE /\ flushTimer' = FALSE
      /\ connection' = "none" /\ channelUp' = FALSE /\ returned' = {} /\ marking' = {}
      /\ promise' = [i \in Item |-> IF promise[i] = "pending" THEN "rejected" ELSE promise[i]]
      /\ UNCHANGED <<row, message, marker>> /\ Fault("crash")
  BY DEF Crash, brokerVars
<1>2. /\ faults' \in [left : 0..MaxFaults, seen : SUBSET FaultKinds]
      /\ ~Without({"channel", "crash"})' /\ ~Without({"crash", "lostInsert", "database"})'
  BY <1>1, FaultFacts DEF PublisherInv, OtherTypes, Without
<1>3. LineInv' /\ \A i : ~Waits(i)' /\ ~Sent(i)' /\ ~Unsent(i)'
  BY <1>1, BatchSizeAssumption DEF LineInv, Lined, Waits, Sent, Unsent
<1>4. OtherTypes'
  BY <1>1, <1>2 DEF OtherTypes, PublisherInv, Step
<1>5. FlushInv'
  BY <1>1, <1>2 DEF FlushInv
<1>6. ASSUME NEW i \in Item PROVE ItemInv(i)'
  <2>1. promise'[i] = IF promise[i] = "pending" THEN "rejected" ELSE promise[i]
    BY <1>1
  <2> QED
    BY <1>1, <1>2, <1>3, <2>1 DEF ItemInv, Untouched, Accepted, PublisherInv
<1> QED
  BY <1>3, <1>4, <1>5, <1>6 DEF PublisherInv

(* The theorems ------------------------------------------------------------*)
LEMMA PublisherInvHolds == Spec => []PublisherInv
<1>1. Init => PublisherInv
  <2> SUFFICES ASSUME Init PROVE PublisherInv
    OBVIOUS
  <2>1. LineInv /\ \A i : ~Waits(i) /\ ~Sent(i) /\ ~Unsent(i)
    BY BatchSizeAssumption DEF Init, LineInv, Lined, Waits, Sent, Unsent
  <2>5. faults \in [left : 0..MaxFaults, seen : SUBSET FaultKinds]
    BY FaultsAssumption DEF Init
  <2>6. row \in [Item -> {"none", "EM_EXECUCAO", "SUCESSO", "ERRO"}] /\ message \in [Item -> Message]
    BY DEF Init, Message
  <2>7. promise \in [Item -> {"none", "pending", "resolved", "rejected"}]
    BY DEF Init
  <2>2. OtherTypes
    BY <2>5, <2>6, <2>7 DEF Init, OtherTypes, Step
  <2>3. FlushInv
    BY DEF Init, FlushInv
  <2>4. ASSUME NEW i \in Item PROVE ItemInv(i)
    BY <2>1 DEF Init, ItemInv, Untouched, Accepted
  <2> QED
    BY <2>1, <2>2, <2>3, <2>4 DEF PublisherInv
<1>2. PublisherInv /\ [Next]_vars => PublisherInv'
  <2> SUFFICES ASSUME PublisherInv, [Next]_vars PROVE PublisherInv'
    OBVIOUS
  <2>1. CASE FlushStep
    BY <2>1, GetChannelKeeps, InsertRowsKeeps, PublishKeeps, DrainKeeps, ConfirmKeeps, SettleKeeps, FailKeeps DEF FlushStep
  <2>2. CASE TimerFires \/ ChannelCloses \/ Crash
    BY <2>2, TimerFiresKeeps, ChannelClosesKeeps, CrashKeeps
  <2>3. CASE \E i \in Item : Submit(i) \/ SetMarker(i) \/ BrokerStep(i)
    BY <2>3, SubmitKeeps, SetMarkerKeeps, BrokerStepKeeps
  <2>4. CASE UNCHANGED vars
    <3>1. /\ UNCHANGED <<buffer, batch, sent, flush, dbInserted, flushTimer, connection, channelUp>>
          /\ UNCHANGED <<returned, row, message, promise, marker, marking, faults>>
      BY <2>4 DEF vars
    <3>2. OtherTypes'
      BY <3>1 DEF OtherTypes, PublisherInv
    <3>3. ASSUME NEW i \in Item PROVE ItemInv(i)'
      BY <3>1, BesideTheFlush DEF ItemInv, Untouched, Accepted, PublisherInv
    <3> QED
      BY <3>1, <3>2, <3>3, BesideTheFlush DEF PublisherInv
  <2> QED
    BY <2>1, <2>2, <2>3, <2>4 DEF Next
<1> QED
  BY <1>1, <1>2, PTL DEF Spec

\* Every variable has its type; above all nobody is twice in the line, neither behind the
\* batch nor in it and behind it, which is what the splice of flush() is to keep.
THEOREM PublisherTypeCorrect == Spec => []TypeOK
<1>1. PublisherInv => TypeOK
  <2> SUFFICES ASSUME PublisherInv PROVE IsInjective(batch \o buffer)
    BY DEF PublisherInv, LineInv, OtherTypes, TypeOK
  <2> DEFINE s == batch \o buffer
             b == Len(batch)
  <2>1. /\ b \in Nat /\ Len(buffer) \in Nat /\ Len(s) = b + Len(buffer)
        /\ \A k \in 1..b : s[k] = batch[k]
        /\ \A k \in (b + 1)..Len(s) : k - b \in 1..Len(buffer) /\ s[k] = buffer[k - b]
        /\ DOMAIN s = 1..Len(s)
    BY DEF PublisherInv, LineInv
  <2>2. Lined(batch, buffer)
    BY DEF PublisherInv, LineInv
  <2> HIDE DEF s, b
  <2>3. ASSUME NEW j \in 1..Len(s), NEW k \in 1..Len(s), s[j] = s[k] PROVE j = k
    <3>1. CASE j \in 1..b /\ k \in 1..b
      BY <2>1, <2>2, <2>3, <3>1 DEF Lined, b
    <3>2. CASE j \in (b + 1)..Len(s) /\ k \in (b + 1)..Len(s)
      <4>1. j - b = k - b
        BY <2>1, <2>2, <2>3, <3>2 DEF Lined
      <4> QED
        BY <2>1, <4>1
    <3>3. CASE j \in 1..b /\ k \in (b + 1)..Len(s)
      BY <2>1, <2>2, <2>3, <3>3 DEF Lined, b
    <3>4. CASE k \in 1..b /\ j \in (b + 1)..Len(s)
      BY <2>1, <2>2, <2>3, <3>4 DEF Lined, b
    <3> QED
      BY <2>1, <3>1, <3>2, <3>3, <3>4
  <2> QED
    BY <2>1, <2>3 DEF IsInjective, s
<1> QED
  BY <1>1, PublisherInvHolds, PTL

\* A caller is told an exeId only when the broker has accepted its message.
THEOREM OnlyAcceptedResolves == Spec => []ResolvedMeansAccepted
<1>1. PublisherInv => ResolvedMeansAccepted
  BY DEF PublisherInv, ItemInv, Accepted, ResolvedMeansAccepted
<1> QED
  BY <1>1, PublisherInvHolds, PTL

\* An open row has a message, unless the process ended, an insert counted as failed or the
\* database was gone when the error was to be booked.
THEOREM RowsHaveMessages == Spec => []NoOrphanRow
<1>1. PublisherInv => NoOrphanRow
  BY BatchParts DEF PublisherInv, ItemInv, NoOrphanRow
<1> QED
  BY <1>1, PublisherInvHolds, PTL

\* A rejected submission did not run, unless the channel or the process ended.
THEOREM RejectedDidNotRun == Spec => []RejectedNeverRan
<1>1. PublisherInv => RejectedNeverRan
  BY DEF PublisherInv, ItemInv, RejectedNeverRan
<1> QED
  BY <1>1, PublisherInvHolds, PTL
=============================================================================
