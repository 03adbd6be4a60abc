----------------------------- MODULE RelayProofs -----------------------------
(***************************************************************************)
(* For any relays, transactions, batches and faults: what the topic        *)
(* announces was decided and is on the audit chain, and a row that is      *)
(* marked but not on the topic is one a flush gave up waiting for.         *)
(*                                                                         *)
(* The first holds because whatever a relay holds came out of a committed  *)
(* transaction, and a transaction that committed stays so.  The second     *)
(* holds because each row of a batch is on the topic, or is still in the   *)
(* client with the drain's callback on it, or has set the drain's errors.  *)
(*                                                                         *)
(* And a merchant's chain verifies as long as nobody contends for it: who  *)
(* appends is then alone and holds the tip of the chain it sees.  That     *)
(* there is a tip has to be part of the invariant.                         *)
(***************************************************************************)
EXTENDS Relay, TLAPS, FiniteSetTheorems, SequenceTheorems

Sequence(s) == \E S : s \in Seq(S)

Txn(t) == \E m, s, p : t = [merchant |-> m, state |-> s, tip |-> p]
Announcements == [txn : Nat, published : BOOLEAN]
Records == [row : Nat, watched : BOOLEAN]

Typed ==
  /\ Sequence(txns) /\ \A t \in DOMAIN txns : Txn(txns[t])
  /\ Sequence(audit)
  /\ outbox \in Seq(Announcements)
  /\ batch \in [Relays -> Seq(Nat)]
  /\ queue \in [Relays -> Seq(Records)]
  /\ errors \in [Relays -> BOOLEAN]
  /\ topic \in Seq(Nat)

-----------------------------------------------------------------------------
(* Sequences *)

LEMMA AppendTo ==
  ASSUME NEW s, Sequence(s), NEW e
  PROVE  /\ Sequence(Append(s, e))
         /\ Len(s) \in Nat /\ DOMAIN s = 1..Len(s)
         /\ DOMAIN Append(s, e) = DOMAIN s \cup {Len(s) + 1}
         /\ \A i \in DOMAIN s : Append(s, e)[i] = s[i]
         /\ Append(s, e)[Len(s) + 1] = e
<1>1. PICK S : s \in Seq(S)
  BY DEF Sequence
<1> DEFINE T == S \cup {e}
<1>2. s \in Seq(T) /\ e \in T
  BY <1>1, SeqMonotonic
<1> HIDE DEF T
<1>3. /\ Append(s, e) \in Seq(T) /\ Len(Append(s, e)) = Len(s) + 1
      /\ \A i \in 1..Len(s) : Append(s, e)[i] = s[i]
      /\ Append(s, e)[Len(s) + 1] = e
  BY <1>2, AppendProperties
<1>4. Len(s) \in Nat /\ DOMAIN s = 1..Len(s)
  BY <1>2, LenProperties
<1>5. DOMAIN Append(s, e) = 1..(Len(s) + 1)
  BY <1>3, LenProperties
<1> QED
  BY <1>3, <1>4, <1>5 DEF Sequence

LEMMA AppendRange ==
  ASSUME NEW S, NEW s \in Seq(S), NEW e \in S
  PROVE  Append(s, e) \in Seq(S) /\ Range(Append(s, e)) = Range(s) \cup {e}
<1>1. Sequence(s)
  BY DEF Sequence
<1>2. Append(s, e) \in Seq(S)
  BY AppendProperties
<1> QED
  BY <1>1, <1>2, AppendTo DEF Range

LEMMA UpdateOf ==
  ASSUME NEW s, Sequence(s), NEW i \in DOMAIN s, NEW e
  PROVE  /\ Sequence([s EXCEPT ![i] = e])
         /\ DOMAIN [s EXCEPT ![i] = e] = DOMAIN s
         /\ \A j \in DOMAIN s : [s EXCEPT ![i] = e][j] = IF j = i THEN e ELSE s[j]
<1>1. PICK S : s \in Seq(S)
  BY DEF Sequence
<1> DEFINE T == S \cup {e}
<1>2. s \in Seq(T) /\ e \in T
  BY <1>1, SeqMonotonic
<1> HIDE DEF T
<1>3. DOMAIN s = 1..Len(s)
  BY <1>2, LenProperties
<1>4. [s EXCEPT ![i] = e] \in Seq(T)
  BY <1>2, <1>3, ExceptSeq
<1> QED
  BY <1>3, <1>4 DEF Sequence

LEMMA RemoveAtRange ==
  ASSUME NEW S, NEW s \in Seq(S), NEW k \in DOMAIN s
  PROVE  /\ RemoveAt(s, k) \in Seq(S)
         /\ Range(RemoveAt(s, k)) \subseteq Range(s)
         /\ \A e \in Range(s) : e = s[k] \/ e \in Range(RemoveAt(s, k))
<1> DEFINE before == SubSeq(s, 1, k - 1)
           after == SubSeq(s, k + 1, Len(s))
<1>1. Len(s) \in Nat /\ DOMAIN s = 1..Len(s) /\ k \in 1..Len(s)
  BY LenProperties
<1>2. \A i \in 1..Len(s) : s[i] \in S
  BY ElementOfSeq
<1>3. /\ before \in Seq(S) /\ Len(before) = k - 1
      /\ \A i \in 1..(k - 1) : before[i] = s[i]
  <2>1. 1 \in Int /\ k - 1 \in Int /\ \A i \in 1..(k - 1) : s[i] \in S
    BY <1>1, <1>2
  <2>2. /\ before \in Seq(S)
        /\ Len(before) = IF 1 <= k - 1 THEN k - 1 - 1 + 1 ELSE 0
        /\ \A i \in 1..(k - 1 - 1 + 1) : before[i] = s[1 + i - 1]
    BY <2>1, SubSeqProperties
  <2> QED
    BY <1>1, <2>2
<1>4. /\ after \in Seq(S) /\ Len(after) = Len(s) - k
      /\ \A i \in 1..(Len(s) - k) : after[i] = s[k + i]
  <2>1. k + 1 \in Int /\ Len(s) \in Int /\ \A i \in (k + 1)..Len(s) : s[i] \in S
    BY <1>1, <1>2
  <2>2. /\ after \in Seq(S)
        /\ Len(after) = IF k + 1 <= Len(s) THEN Len(s) - (k + 1) + 1 ELSE 0
        /\ \A i \in 1..(Len(s) - (k + 1) + 1) : after[i] = s[k + 1 + i - 1]
    BY <2>1, SubSeqProperties
  <2> QED
    BY <1>1, <2>2
<1> HIDE DEF before, after
<1>5. /\ before \o after \in Seq(S)
      /\ Range(before \o after) = Range(before) \cup Range(after)
  BY <1>3, <1>4, ConcatProperties, RangeConcatenation
<1>6. DOMAIN before = 1..(k - 1) /\ DOMAIN after = 1..(Len(s) - k)
  BY <1>3, <1>4, LenProperties
<1>7. Range(before) \subseteq Range(s) /\ Range(after) \subseteq Range(s)
  <2>1. \A i \in DOMAIN before : i \in DOMAIN s /\ before[i] = s[i]
    BY <1>1, <1>3, <1>6
  <2>2. \A i \in DOMAIN after : k + i \in DOMAIN s /\ after[i] = s[k + i]
    BY <1>1, <1>4, <1>6
  <2> QED
    BY <2>1, <2>2 DEF Range
<1>8. ASSUME NEW i \in DOMAIN s, i # k
      PROVE  s[i] \in Range(before) \cup Range(after)
  <2>1. CASE i < k
    BY <1>1, <1>3, <1>6, <2>1 DEF Range
  <2>2. CASE i > k
    <3>1. i - k \in 1..(Len(s) - k) /\ k + (i - k) = i
      BY <1>1, <2>2
    <3>2. after[i - k] = s[i]
      BY <1>4, <3>1
    <3> QED
      BY <1>6, <3>1, <3>2 DEF Range
  <2> QED
    BY <1>1, <1>8, <2>1, <2>2
<1>9. \A e \in Range(s) : e = s[k] \/ e \in Range(before) \cup Range(after)
  BY <1>8 DEF Range
<1> QED
  BY <1>5, <1>7, <1>9 DEF RemoveAt, before, after

-----------------------------------------------------------------------------
(* What a step does to the transactions and to the outbox *)

\* A transaction that committed stays committed, a row stays announced by the
\* transaction that wrote it.
Kept ==
  /\ \A t \in DOMAIN txns : t \in DOMAIN txns' /\ (Committed(t) => Committed(t)')
  /\ \A i \in DOMAIN outbox : i \in DOMAIN outbox' /\ outbox'[i].txn = outbox[i].txn

\* Typed of what deciding writes.
TypedDecision ==
  /\ Sequence(txns) /\ \A t \in DOMAIN txns : Txn(txns[t])
  /\ Sequence(audit)
  /\ outbox \in Seq(Announcements)

LEMMA BeginKeeps ==
  ASSUME Typed, NEW m \in Merchants, Begin(m)
  PROVE  /\ Sequence(txns') /\ \A t \in DOMAIN txns' : Txn(txns'[t])
         /\ \A t \in DOMAIN txns : t \in DOMAIN txns' /\ txns'[t] = txns[t]
         /\ \A t \in DOMAIN txns' : t \in DOMAIN txns \/ ~Committed(t)'
         /\ Len(txns') \in DOMAIN txns' /\ Len(txns') \in Nat
<1> DEFINE new == [merchant |-> m, state |-> "open", tip |-> Unread]
<1>1. txns' = Append(txns, new) /\ Txn(new) /\ new.state = "open"
  BY DEF Begin, Txn
<1> HIDE DEF new
<1>2. /\ Sequence(txns') /\ Len(txns) \in Nat
      /\ DOMAIN txns' = DOMAIN txns \cup {Len(txns) + 1}
      /\ \A t \in DOMAIN txns : txns'[t] = txns[t]
      /\ txns'[Len(txns) + 1] = new
  BY <1>1, AppendTo DEF Typed
<1>3. Len(txns') \in Nat /\ DOMAIN txns' = 1..Len(txns')
  BY <1>2, AppendTo
<1>4. DOMAIN txns = 1..Len(txns)
  BY AppendTo DEF Typed
<1>5. Len(txns') \in DOMAIN txns'
  BY <1>2, <1>3
<1> QED
  BY <1>1, <1>2, <1>3, <1>5 DEF Typed, Committed

\* The updates of one transaction: the lock on its tip, and its end.
LEMMA TxnKeeps ==
  ASSUME Typed, NEW t \in DOMAIN txns, NEW new, Txn(new),
         txns' = [txns EXCEPT ![t] = new]
  PROVE  /\ Sequence(txns') /\ DOMAIN txns' = DOMAIN txns
         /\ \A u \in DOMAIN txns : Txn(txns'[u])
         /\ \A u \in DOMAIN txns \ {t} : txns'[u] = txns[u]
         /\ txns'[t] = new
<1>1. /\ Sequence(txns') /\ DOMAIN txns' = DOMAIN txns
      /\ \A u \in DOMAIN txns : txns'[u] = IF u = t THEN new ELSE txns[u]
  BY UpdateOf DEF Typed
<1> QED
  BY <1>1 DEF Typed

LEMMA TxnFields ==
  ASSUME Typed, NEW t \in DOMAIN txns
  PROVE  \A state, tip :
           /\ [txns EXCEPT ![t].tip = tip] =
                [txns EXCEPT ![t] =
                  [merchant |-> txns[t].merchant, state |-> txns[t].state, tip |-> tip]]
           /\ [txns EXCEPT ![t].state = state, ![t].tip = tip] =
                [txns EXCEPT ![t] =
                  [merchant |-> txns[t].merchant, state |-> state, tip |-> tip]]
<1>1. PICK m, s, p : txns[t] = [merchant |-> m, state |-> s, tip |-> p]
  BY DEF Typed, Txn
<1>2. txns[t].merchant = m /\ txns[t].state = s
  BY <1>1
<1>3. TAKE state, tip
<1>4. [txns[t] EXCEPT !.tip = tip] = [merchant |-> m, state |-> s, tip |-> tip]
  BY <1>1
<1>5. [txns[t] EXCEPT !.state = state, !.tip = tip] = [merchant |-> m, state |-> state, tip |-> tip]
  <2>1. [txns[t] EXCEPT !.state = state] = [merchant |-> m, state |-> state, tip |-> p]
    BY <1>1
  <2>2. [txns[t] EXCEPT !.state = state, !.tip = tip] =
          [[txns[t] EXCEPT !.state = state] EXCEPT !.tip = tip]
    OBVIOUS
  <2>3. [[merchant |-> m, state |-> state, tip |-> p] EXCEPT !.tip = tip] =
          [merchant |-> m, state |-> state, tip |-> tip]
    OBVIOUS
  <2> QED
    BY <2>1, <2>2, <2>3, Zenon
<1>6. [txns EXCEPT ![t].tip = tip] = [txns EXCEPT ![t] = [txns[t] EXCEPT !.tip = tip]]
  OBVIOUS
<1>7. [txns EXCEPT ![t].state = state, ![t].tip = tip] =
        [txns EXCEPT ![t] = [txns[t] EXCEPT !.state = state, !.tip = tip]]
  OBVIOUS
<1> QED
  BY <1>2, <1>4, <1>5, <1>6, <1>7

LEMMA TipKeeps ==
  ASSUME Typed, NEW t \in DOMAIN txns, NEW tip,
         txns' = [txns EXCEPT ![t].tip = tip]
  PROVE  /\ Sequence(txns') /\ DOMAIN txns' = DOMAIN txns
         /\ \A u \in DOMAIN txns : Txn(txns'[u]) /\ txns'[u].state = txns[u].state
<1> DEFINE new == [merchant |-> txns[t].merchant, state |-> txns[t].state, tip |-> tip]
<1>1. txns' = [txns EXCEPT ![t] = new]
  BY ZenonT(60), TxnFields
<1>2. Txn(new)
  BY DEF Txn
<1>3. new.state = txns[t].state
  OBVIOUS
<1> HIDE DEF new
<1> QED
  BY <1>1, <1>2, <1>3, TxnKeeps

LEMMA EndKeeps ==
  ASSUME Typed, NEW t \in DOMAIN txns, NEW state, End(t, state)
  PROVE  /\ Sequence(txns') /\ DOMAIN txns' = DOMAIN txns
         /\ \A u \in DOMAIN txns : Txn(txns'[u])
         /\ \A u \in DOMAIN txns \ {t} : txns'[u] = txns[u]
         /\ txns'[t].state = state
<1> DEFINE new == [merchant |-> txns[t].merchant, state |-> state, tip |-> Unread]
<1>1. txns' = [txns EXCEPT ![t] = new]
  BY ZenonT(60), TxnFields DEF End
<1>2. Txn(new)
  BY DEF Txn
<1>3. new.state = state
  OBVIOUS
<1> HIDE DEF new
<1> QED
  BY <1>1, <1>2, <1>3, TxnKeeps

\* The outbox keeps its rows' transactions: only a drain touches it, and it marks.
LEMMA EndDrainKeeps ==
  ASSUME Typed, NEW r \in Relays, EndDrain(r)
  PROVE  /\ outbox' \in Seq(Announcements) /\ DOMAIN outbox' = DOMAIN outbox
         /\ \A i \in DOMAIN outbox :
              /\ outbox'[i].txn = outbox[i].txn
              /\ outbox'[i].published <=>
                   outbox[i].published \/ (~errors[r] /\ i \in Range(batch[r]))
<1> DEFINE marked(i) ==
      [outbox[i] EXCEPT !.published = @ \/ (~errors[r] /\ i \in Range(batch[r]))]
<1>1. Len(outbox) \in Nat /\ DOMAIN outbox = 1..Len(outbox)
  BY LenProperties DEF Typed
<1>2. \A i \in 1..Len(outbox) : outbox[i] \in Announcements
  BY ElementOfSeq DEF Typed
<1>3. errors[r] \in BOOLEAN
  BY DEF Typed
<1>4. \A i \in 1..Len(outbox) :
        /\ marked(i) \in Announcements /\ marked(i).txn = outbox[i].txn
        /\ marked(i).published <=>
             outbox[i].published \/ (~errors[r] /\ i \in Range(batch[r]))
  BY <1>2, <1>3 DEF Announcements
<1>5. outbox' = [i \in 1..Len(outbox) |-> marked(i)]
  BY <1>1 DEF EndDrain
<1> HIDE DEF marked
<1>6. outbox' \in Seq(Announcements)
  BY <1>1, <1>4, <1>5
<1> QED
  BY <1>1, <1>4, <1>5, <1>6

\* What a drain claims are rows it may claim.
LEMMA LowestOfRows ==
  ASSUME Typed, NEW rows \in SUBSET DOMAIN outbox, NEW claimed \in Lowest(rows)
  PROVE  claimed \in Seq(Nat) /\ Range(claimed) \subseteq rows
<1>1. Len(outbox) \in Nat /\ DOMAIN outbox = 1..Len(outbox)
  BY LenProperties DEF Typed
<1>2. IsFiniteSet(rows)
  <2>1. IsFiniteSet(1..Len(outbox))
    BY <1>1, FS_Interval
  <2> QED
    BY <1>1, <2>1, FS_Subset
<1>3. Cardinality(rows) \in Nat
  BY <1>2, FS_CardinalityType
<1>4. PICK size \in Nat : claimed \in [1..size -> rows]
  BY <1>3, RelayAssumption DEF Lowest
<1>5. rows \subseteq Nat
  BY <1>1
<1>6. claimed \in [1..size -> Nat]
  BY <1>4, <1>5
<1> QED
  BY <1>4, <1>6 DEF Range

LEMMA BatchTyped ==
  ASSUME Typed, NEW r \in Relays
  PROVE  /\ batch[r] \in Seq(Nat) /\ queue[r] \in Seq(Records)
         /\ \A k \in DOMAIN queue[r] :
              queue[r][k] \in Records /\ queue[r][k] \in Range(queue[r])
<1>1. batch[r] \in Seq(Nat) /\ queue[r] \in Seq(Records)
  BY DEF Typed
<1>2. \A k \in DOMAIN queue[r] : queue[r][k] \in Records
  BY <1>1, LenProperties, ElementOfSeq
<1> QED
  BY <1>1, <1>2 DEF Range

\* A claim hands each claimed row to the client, with the drain's callback.
LEMMA ClaimKeeps ==
  ASSUME Typed, NEW r \in Relays, NEW rows \in SUBSET DOMAIN outbox, Claim(r, rows)
  PROVE  /\ batch' \in [Relays -> Seq(Nat)] /\ queue' \in [Relays -> Seq(Records)]
         /\ errors' \in [Relays -> BOOLEAN] /\ ~errors'[r]
         /\ \A q \in Relays \ {r} :
              batch'[q] = batch[q] /\ queue'[q] = queue[q] /\ errors'[q] = errors[q]
         /\ Range(batch'[r]) \subseteq rows
         /\ \A i \in Range(batch'[r]) : [row |-> i, watched |-> TRUE] \in Range(queue'[r])
         /\ \A e \in Range(queue'[r]) : e \in Range(queue[r]) \/ e.row \in rows
<1>1. PICK claimed \in Lowest(rows) :
        /\ batch' = [batch EXCEPT ![r] = claimed]
        /\ queue' = [queue EXCEPT ![r] = @ \o
             [k \in DOMAIN claimed |-> [row |-> claimed[k], watched |-> TRUE]]]
  BY DEF Claim
<1>2. claimed \in Seq(Nat) /\ Range(claimed) \subseteq rows
  BY LowestOfRows
<1> DEFINE sent == [k \in DOMAIN claimed |-> [row |-> claimed[k], watched |-> TRUE]]
<1>3. sent \in Seq(Records) /\ DOMAIN sent = DOMAIN claimed
  <2>1. Len(claimed) \in Nat /\ DOMAIN claimed = 1..Len(claimed)
    BY <1>2, LenProperties
  <2>2. \A k \in 1..Len(claimed) : claimed[k] \in Nat
    BY <1>2, ElementOfSeq
  <2>3. \A k \in 1..Len(claimed) : [row |-> claimed[k], watched |-> TRUE] \in Records
    BY <2>2 DEF Records
  <2> QED
    BY <2>1, <2>3
<1>4. \A k \in DOMAIN claimed : sent[k] = [row |-> claimed[k], watched |-> TRUE]
  OBVIOUS
<1>5. batch'[r] = claimed /\ queue'[r] = queue[r] \o sent
  BY <1>1 DEF Typed
<1> HIDE DEF sent
<1>6. /\ queue[r] \o sent \in Seq(Records)
      /\ Range(queue[r] \o sent) = Range(queue[r]) \cup Range(sent)
  BY <1>3, BatchTyped, ConcatProperties, RangeConcatenation
<1>7. \A i \in Range(claimed) : [row |-> i, watched |-> TRUE] \in Range(sent)
  BY <1>3, <1>4 DEF Range
<1>8. \A e \in Range(sent) : e.row \in rows
  BY <1>2, <1>3, <1>4 DEF Range
<1>9. \A q \in Relays \ {r} : batch'[q] = batch[q] /\ queue'[q] = queue[q]
  BY <1>1 DEF Typed
<1>10. batch' \in [Relays -> Seq(Nat)]
  BY <1>1, <1>2 DEF Typed
<1>11. queue' \in [Relays -> Seq(Records)]
  BY <1>1, <1>5, <1>6 DEF Typed, sent
<1>12. /\ errors' \in [Relays -> BOOLEAN] /\ ~errors'[r]
       /\ \A q \in Relays \ {r} : errors'[q] = errors[q]
  BY DEF Claim, Typed
<1> QED
  BY <1>2, <1>5, <1>6, <1>7, <1>8, <1>9, <1>10, <1>11, <1>12

\* The broker's answers take one record from the client.
LEMMA AnswerKeeps ==
  ASSUME Typed, NEW r \in Relays, NEW k \in DOMAIN queue[r],
         queue' = [queue EXCEPT ![r] = RemoveAt(@, k)]
  PROVE  /\ queue' \in [Relays -> Seq(Records)]
         /\ \A q \in Relays \ {r} : queue'[q] = queue[q]
         /\ Range(queue'[r]) \subseteq Range(queue[r])
         /\ \A e \in Range(queue[r]) : e = queue[r][k] \/ e \in Range(queue'[r])
<1>1. /\ RemoveAt(queue[r], k) \in Seq(Records)
      /\ Range(RemoveAt(queue[r], k)) \subseteq Range(queue[r])
      /\ \A e \in Range(queue[r]) : e = queue[r][k] \/ e \in Range(RemoveAt(queue[r], k))
  BY BatchTyped, RemoveAtRange
<1>2. queue' \in [Relays -> Seq(Records)]
  BY <1>1 DEF Typed
<1>3. queue'[r] = RemoveAt(queue[r], k) /\ \A q \in Relays \ {r} : queue'[q] = queue[q]
  BY DEF Typed
<1> QED
  BY <1>1, <1>2, <1>3

\* A flush that gives up leaves its records in the client.
LEMMA FlushedKeeps ==
  ASSUME Typed, NEW r \in Relays, Flushed(r)
  PROVE  /\ batch' \in [Relays -> Seq(Nat)] /\ queue' \in [Relays -> Seq(Records)]
         /\ \A q \in Relays \ {r} : batch'[q] = batch[q] /\ queue'[q] = queue[q]
         /\ batch'[r] = <<>>
         /\ \A e \in Range(queue'[r]) : \E d \in Range(queue[r]) : e.row = d.row
         /\ \A d \in Range(queue[r]) : d.row \in late'
<1> DEFINE unwatched(k) == [queue[r][k] EXCEPT !.watched = FALSE]
<1>1. Len(queue[r]) \in Nat /\ DOMAIN queue[r] = 1..Len(queue[r])
  BY BatchTyped, LenProperties
<1>2. \A k \in 1..Len(queue[r]) :
        unwatched(k) \in Records /\ unwatched(k).row = queue[r][k].row
  BY <1>1, BatchTyped DEF Records
<1>3. /\ queue' = [queue EXCEPT ![r] = [k \in 1..Len(queue[r]) |-> unwatched(k)]]
      /\ batch' = [batch EXCEPT ![r] = <<>>]
      /\ late' = late \cup Outstanding(r)
  BY <1>1 DEF Flushed, EndDrain
<1> HIDE DEF unwatched
<1>4. [k \in 1..Len(queue[r]) |-> unwatched(k)] \in Seq(Records)
  BY <1>1, <1>2
<1>5. queue' \in [Relays -> Seq(Records)]
  BY <1>3, <1>4 DEF Typed
<1>6. batch' \in [Relays -> Seq(Nat)]
  BY <1>3, EmptySeq DEF Typed
<1>7. /\ queue'[r] = [k \in 1..Len(queue[r]) |-> unwatched(k)] /\ batch'[r] = <<>>
      /\ \A q \in Relays \ {r} : batch'[q] = batch[q] /\ queue'[q] = queue[q]
  BY <1>3 DEF Typed
<1>8. \A e \in Range(queue'[r]) : \E d \in Range(queue[r]) : e.row = d.row
  <2>1. DOMAIN queue'[r] = 1..Len(queue[r])
    BY <1>7
  <2>2. \A k \in 1..Len(queue[r]) : queue'[r][k].row = queue[r][k].row
    BY <1>2, <1>7
  <2> QED
    BY <1>1, <2>1, <2>2 DEF Range
<1>9. \A d \in Range(queue[r]) : d.row \in late'
  BY <1>3 DEF Range, Outstanding
<1> QED
  BY <1>5, <1>6, <1>7, <1>8, <1>9

-----------------------------------------------------------------------------
(* Only what was decided is announced *)

Decided(i) == i \in DOMAIN outbox /\ Committed(outbox[i].txn)

\* Each row has its transaction.
Announced == \A i \in DOMAIN outbox : outbox[i].txn \in DOMAIN txns

\* A transaction commits after its audit row.
Audited == \A t \in DOMAIN txns : Committed(t) => Appended(t) # {}

\* What a relay put in the client, and what left it, was decided.
Held ==
  /\ \A i \in Range(topic) : Decided(i)
  /\ \A r \in Relays : \A e \in Range(queue[r]) : Decided(e.row)

ToldInv == Typed /\ Announced /\ Audited /\ Held

LEMMA KeptDecided ==
  ASSUME Announced, Kept, NEW i, Decided(i)
  PROVE  Decided(i)'
BY DEF Announced, Kept, Decided

LEMMA DecidingHolds ==
  ASSUME Announced, Kept, Held, UNCHANGED <<queue, topic>>
  PROVE  Held'
BY KeptDecided DEF Held

LEMMA AppendedGrows ==
  ASSUME Typed, NEW row, audit' = Append(audit, row)
  PROVE  Sequence(audit') /\ \A t : Appended(t) # {} => Appended(t)' # {}
<1>1. /\ Sequence(audit') /\ DOMAIN audit \subseteq DOMAIN audit'
      /\ \A i \in DOMAIN audit : audit'[i] = audit[i]
  <2>1. Sequence(audit)
    BY DEF Typed
  <2> QED
    BY <2>1, AppendTo
<1> QED
  BY <1>1 DEF Appended

LEMMA BeginStep ==
  ASSUME ToldInv, NEW m \in Merchants, BeginSilent(m) \/ Enqueue(m)
  PROVE  Typed' /\ Kept /\ Announced' /\ Audited' /\ UNCHANGED <<queue, topic>>
<1>1. Begin(m) /\ audit' = audit /\ UNCHANGED deciding
  BY DEF BeginSilent, Enqueue, Begin
<1>2. /\ Sequence(txns') /\ \A t \in DOMAIN txns' : Txn(txns'[t])
      /\ \A t \in DOMAIN txns : t \in DOMAIN txns' /\ txns'[t] = txns[t]
      /\ \A t \in DOMAIN txns' : t \in DOMAIN txns \/ ~Committed(t)'
      /\ Len(txns') \in DOMAIN txns' /\ Len(txns') \in Nat
  BY <1>1, BeginKeeps DEF ToldInv
<1>3. UNCHANGED <<batch, queue, errors, topic>>
  BY <1>1 DEF deciding
<1>4. Audited'
  BY <1>1, <1>2 DEF ToldInv, Audited, Appended, Committed
<1>5. CASE BeginSilent(m)
  <2>1. outbox' = outbox
    BY <1>5 DEF BeginSilent
  <2>2. Typed'
    BY <1>1, <1>2, <1>3, <2>1 DEF ToldInv, Typed
  <2>3. Kept /\ Announced'
    BY <1>2, <2>1 DEF ToldInv, Kept, Announced, Committed
  <2> QED
    BY <1>3, <1>4, <2>2, <2>3
<1>6. CASE Enqueue(m)
  <2> DEFINE new == [txn |-> Len(txns'), published |-> FALSE]
  <2>1. outbox' = Append(outbox, new)
    BY <1>6 DEF Enqueue
  <2>2. new \in Announcements /\ new.txn \in DOMAIN txns'
    BY <1>2 DEF Announcements
  <2> HIDE DEF new
  <2>3. outbox' \in Seq(Announcements)
    BY <2>1, <2>2, AppendProperties DEF ToldInv, Typed
  <2>4. Sequence(outbox)
    BY DEF ToldInv, Typed, Sequence
  <2>5. /\ DOMAIN outbox' = DOMAIN outbox \cup {Len(outbox) + 1}
        /\ \A i \in DOMAIN outbox : outbox'[i] = outbox[i]
        /\ outbox'[Len(outbox) + 1] = new
    BY <2>1, <2>4, AppendTo
  <2>6. Typed'
    BY <1>1, <1>2, <1>3, <2>3 DEF ToldInv, Typed
  <2>7. Kept /\ Announced'
    BY <1>2, <2>2, <2>5 DEF ToldInv, Kept, Announced, Committed
  <2> QED
    BY <1>3, <1>4, <2>6, <2>7
<1> QED
  BY <1>5, <1>6

LEMMA DecideStep ==
  ASSUME ToldInv, NEW t \in DOMAIN txns, Decide(t)
  PROVE  Typed' /\ Kept /\ Announced' /\ Audited' /\ UNCHANGED <<queue, topic>>
<1>1. outbox' = outbox /\ UNCHANGED <<batch, queue, errors, topic>>
  BY DEF Decide, ReadTip, AppendRow, Commit, Rollback, End, deciding
<1>2. ASSUME NEW tip, txns' = [txns EXCEPT ![t].tip = tip],
             Sequence(audit'), \A u : Appended(u) # {} => Appended(u)' # {}
      PROVE  Typed' /\ Kept /\ Announced' /\ Audited'
  <2>1. /\ Sequence(txns') /\ DOMAIN txns' = DOMAIN txns
        /\ \A u \in DOMAIN txns : Txn(txns'[u]) /\ txns'[u].state = txns[u].state
    BY <1>2, TipKeeps DEF ToldInv
  <2>2. Typed'
    BY <1>1, <1>2, <2>1 DEF ToldInv, Typed
  <2>3. \A u \in DOMAIN txns : Committed(u)' <=> Committed(u)
    BY <2>1 DEF Committed
  <2> QED
    BY <1>1, <1>2, <2>1, <2>2, <2>3 DEF ToldInv, Kept, Announced, Audited
<1>3. ASSUME NEW state, Open(t), End(t, state),
             state = "committed" => Appended(t) # {}
      PROVE  Typed' /\ Kept /\ Announced' /\ Audited'
  <2>1. /\ Sequence(txns') /\ DOMAIN txns' = DOMAIN txns
        /\ \A u \in DOMAIN txns : Txn(txns'[u])
        /\ \A u \in DOMAIN txns \ {t} : txns'[u] = txns[u]
        /\ txns'[t].state = state
    BY <1>3, EndKeeps DEF ToldInv
  <2>2. audit' = audit
    BY <1>3 DEF End
  <2>3. Typed'
    BY <1>1, <2>1, <2>2 DEF ToldInv, Typed
  <2>4. ~Committed(t)
    BY <1>3 DEF Open, Committed
  <2>5. Audited'
    BY <1>3, <2>1, <2>2 DEF ToldInv, Audited, Committed, Appended
  <2> QED
    BY <1>1, <2>1, <2>3, <2>4, <2>5 DEF ToldInv, Kept, Announced, Committed
<1>4. CASE ReadTip(t)
  <2>1. txns' = [txns EXCEPT ![t].tip = Tip(t)] /\ audit' = audit
    BY <1>4 DEF ReadTip
  <2>2. Sequence(audit') /\ \A u : Appended(u) # {} => Appended(u)' # {}
    BY <2>1 DEF ToldInv, Typed, Appended
  <2> QED
    BY <1>1, <1>2, <2>1, <2>2
<1>5. CASE AppendRow(t)
  <2>1. /\ txns' = [txns EXCEPT ![t].tip = Unread]
        /\ audit' = Append(audit, [txn |-> t, prev |-> txns[t].tip])
    BY <1>5 DEF AppendRow
  <2>2. Sequence(audit') /\ \A u : Appended(u) # {} => Appended(u)' # {}
    BY <2>1, AppendedGrows DEF ToldInv
  <2> QED
    BY <1>1, <1>2, <2>1, <2>2
<1>6. CASE Commit(t)
  BY <1>1, <1>3, <1>6 DEF Commit
<1>7. CASE Rollback(t)
  BY <1>1, <1>3, <1>7 DEF Rollback
<1> QED
  BY <1>4, <1>5, <1>6, <1>7 DEF Decide

LEMMA ClaimStep ==
  ASSUME ToldInv, NEW r \in Relays, BeginDrain(r)
  PROVE  ToldInv'
<1> DEFINE rows == Unpublished \ Locked
<1>1. rows \in SUBSET DOMAIN outbox /\ \A i \in rows : Decided(i)
  BY DEF Unpublished, Decided
<1>2. Claim(r, rows) /\ Typed
  BY DEF BeginDrain, ToldInv
<1> HIDE DEF rows
<1>3. /\ batch' \in [Relays -> Seq(Nat)] /\ queue' \in [Relays -> Seq(Records)]
      /\ errors' \in [Relays -> BOOLEAN]
      /\ \A q \in Relays \ {r} : queue'[q] = queue[q]
      /\ \A e \in Range(queue'[r]) : e \in Range(queue[r]) \/ e.row \in rows
  BY <1>1, <1>2, ClaimKeeps
<1>4. UNCHANGED <<txns, audit, outbox, topic>>
  BY <1>2 DEF Claim, decision
<1>5. Typed' /\ Announced' /\ Audited'
  BY <1>3, <1>4 DEF ToldInv, Typed, Announced, Audited, Committed, Appended
<1>6. \A i : Decided(i)' <=> Decided(i)
  BY <1>4 DEF Decided, Committed
<1>7. Held'
  BY <1>1, <1>3, <1>4, <1>6 DEF ToldInv, Held
<1> QED
  BY <1>5, <1>7 DEF ToldInv

LEMMA BrokerStep ==
  ASSUME ToldInv, NEW r \in Relays, Broker(r)
  PROVE  ToldInv'
<1>1. PICK k \in DOMAIN queue[r] : Acked(r, k) \/ Undelivered(r, k)
  BY DEF Broker
<1>2. /\ queue' = [queue EXCEPT ![r] = RemoveAt(@, k)]
      /\ topic' = topic \/ topic' = Append(topic, queue[r][k].row)
      /\ UNCHANGED <<txns, audit, outbox, batch>>
  BY <1>1 DEF Acked, Undelivered, decision
<1>3. errors' \in [Relays -> BOOLEAN]
  BY <1>1, BatchTyped DEF ToldInv, Typed, Acked, Undelivered, Records
<1>4. /\ queue' \in [Relays -> Seq(Records)]
      /\ \A q \in Relays \ {r} : queue'[q] = queue[q]
      /\ Range(queue'[r]) \subseteq Range(queue[r])
  BY <1>2, AnswerKeeps DEF ToldInv
<1>5. queue[r][k].row \in Nat /\ queue[r][k] \in Range(queue[r])
  BY BatchTyped DEF ToldInv, Records
<1>6. topic' \in Seq(Nat) /\ Range(topic') \subseteq Range(topic) \cup {queue[r][k].row}
  <2>1. topic \in Seq(Nat)
    BY DEF ToldInv, Typed
  <2>2. /\ Append(topic, queue[r][k].row) \in Seq(Nat)
        /\ Range(Append(topic, queue[r][k].row)) = Range(topic) \cup {queue[r][k].row}
    BY <1>5, <2>1, AppendRange
  <2> QED
    BY <1>2, <2>1, <2>2
<1>7. Typed' /\ Announced' /\ Audited'
  BY <1>2, <1>3, <1>4, <1>6 DEF ToldInv, Typed, Announced, Audited, Committed, Appended
<1>8. \A i : Decided(i)' <=> Decided(i)
  BY <1>2 DEF Decided, Committed
<1>9. Held'
  BY <1>4, <1>5, <1>6, <1>8 DEF ToldInv, Held
<1> QED
  BY <1>7, <1>9 DEF ToldInv

LEMMA FlushedStep ==
  ASSUME ToldInv, NEW r \in Relays, Flushed(r)
  PROVE  ToldInv'
<1>1. /\ batch' \in [Relays -> Seq(Nat)] /\ queue' \in [Relays -> Seq(Records)]
      /\ \A q \in Relays \ {r} : queue'[q] = queue[q]
      /\ \A e \in Range(queue'[r]) : \E d \in Range(queue[r]) : e.row = d.row
  BY FlushedKeeps DEF ToldInv
<1>2. EndDrain(r) /\ UNCHANGED <<txns, audit, errors, topic>>
  BY DEF Flushed
<1>3. /\ outbox' \in Seq(Announcements) /\ DOMAIN outbox' = DOMAIN outbox
      /\ \A i \in DOMAIN outbox : outbox'[i].txn = outbox[i].txn
  BY <1>2, EndDrainKeeps DEF ToldInv
<1>4. Typed' /\ Announced' /\ Audited'
  BY <1>1, <1>2, <1>3 DEF ToldInv, Typed, Announced, Audited, Committed, Appended
<1>5. \A i : Decided(i) => Decided(i)'
  BY <1>2, <1>3 DEF Decided, Committed
<1>6. Held'
  BY <1>1, <1>2, <1>5 DEF ToldInv, Held
<1> QED
  BY <1>4, <1>6 DEF ToldInv

LEMMA RelayDiesStep ==
  ASSUME ToldInv, NEW r \in Relays, RelayDies(r)
  PROVE  ToldInv'
<1>1. /\ UNCHANGED <<txns, audit, outbox, errors, topic>>
      /\ batch' = [batch EXCEPT ![r] = <<>>] /\ queue' = [queue EXCEPT ![r] = <<>>]
  BY DEF RelayDies, decision
<1>2. /\ batch' \in [Relays -> Seq(Nat)] /\ queue' \in [Relays -> Seq(Records)]
      /\ queue'[r] = <<>> /\ \A q \in Relays \ {r} : queue'[q] = queue[q]
  BY <1>1, EmptySeq DEF ToldInv, Typed
<1>3. Typed' /\ Announced' /\ Audited'
  BY <1>1, <1>2 DEF ToldInv, Typed, Announced, Audited, Committed, Appended
<1>4. \A i : Decided(i)' <=> Decided(i)
  BY <1>1 DEF Decided, Committed
<1>5. Range(queue'[r]) = {}
  BY <1>2 DEF Range
<1>6. Held'
  BY <1>1, <1>2, <1>4, <1>5 DEF ToldInv, Held
<1> QED
  BY <1>3, <1>6 DEF ToldInv

LEMMA ToldInitially == Init => ToldInv
<1> SUFFICES ASSUME Init PROVE ToldInv
  OBVIOUS
<1>1. \A S : <<>> \in Seq(S) /\ DOMAIN <<>> = {}
  BY EmptySeq
<1>2. Typed
  BY <1>1 DEF Init, Typed, Sequence
<1>3. Announced /\ Audited /\ Held
  BY <1>1 DEF Init, Announced, Audited, Held, Range
<1> QED
  BY <1>2, <1>3 DEF ToldInv

LEMMA ToldInductive == ToldInv /\ [Next]_vars => ToldInv'
<1> SUFFICES ASSUME ToldInv, [Next]_vars PROVE ToldInv'
  OBVIOUS
<1>1. CASE \E m \in Merchants : BeginSilent(m) \/ Enqueue(m)
  BY <1>1, BeginStep, DecidingHolds DEF ToldInv
<1>2. CASE \E t \in DOMAIN txns : Decide(t)
  BY <1>2, DecideStep, DecidingHolds DEF ToldInv
<1>3. CASE \E r \in Relays : Drain(r) \/ Broker(r)
  BY <1>3, ClaimStep, FlushedStep, RelayDiesStep, BrokerStep DEF Drain
<1>4. CASE UNCHANGED vars
  BY <1>4 DEF vars, decision, ToldInv, Typed, Announced, Audited, Held, Decided,
              Committed, Appended
<1> QED
  BY <1>1, <1>2, <1>3, <1>4 DEF Next

\* The invariant of the two theorems below.
LEMMA Told == Spec => []ToldInv
BY ToldInitially, ToldInductive, PTL DEF Spec

\* What the topic announces was decided, and the audit chain says so
\* (outbox.py:35-41, audit.py:79-82), for any relays, transactions and faults.
THEOREM TopicTellsTheTruth == Spec => []AnnouncedWasDecided
<1>1. ToldInv => AnnouncedWasDecided
  BY DEF ToldInv, Held, Decided, Announced, Audited, AnnouncedWasDecided
<1> QED
  BY <1>1, Told, PTL

-----------------------------------------------------------------------------
(* A row is skipped only by a flush that gave up *)

\* Each row of a batch is on the topic, or the drain hears of it, or has heard.
Carried ==
  \A r \in Relays : \A i \in Range(batch[r]) :
    \/ errors[r]
    \/ i \in Range(topic)
    \/ [row |-> i, watched |-> TRUE] \in Range(queue[r])

CarriedInv == Carried /\ LostOnlyByTimeout

\* A step that decides: it marks nothing, and an announcement begins unpublished.
LEMMA DecidingMarksNothing ==
  ASSUME ToldInv, CarriedInv,
         \/ \E m \in Merchants : BeginSilent(m) \/ Enqueue(m)
         \/ \E t \in DOMAIN txns : Decide(t)
  PROVE  CarriedInv'
<1>1. UNCHANGED <<batch, queue, errors, topic, late>>
  BY DEF BeginSilent, Enqueue, Begin, Decide, ReadTip, AppendRow, Commit, Rollback,
         End, deciding
<1>2. \A i \in DOMAIN outbox' :
        (i \in DOMAIN outbox /\ outbox'[i] = outbox[i]) \/ ~outbox'[i].published
  <2>1. CASE outbox' = outbox
    BY <2>1
  <2>2. CASE \E m \in Merchants : Enqueue(m)
    <3>1. Sequence(outbox)
      BY DEF ToldInv, Typed, Sequence
    <3> DEFINE new == [txn |-> Len(txns'), published |-> FALSE]
    <3>2. outbox' = Append(outbox, new) /\ ~new.published
      BY <2>2 DEF Enqueue
    <3> HIDE DEF new
    <3>3. /\ DOMAIN outbox' = DOMAIN outbox \cup {Len(outbox) + 1}
          /\ \A i \in DOMAIN outbox : outbox'[i] = outbox[i]
          /\ outbox'[Len(outbox) + 1] = new
      BY <3>1, <3>2, AppendTo
    <3> QED
      BY <3>2, <3>3
  <2> QED
    BY <2>1, <2>2 DEF BeginSilent, Decide, ReadTip, AppendRow, Commit, Rollback, End
<1>3. Carried'
  BY <1>1 DEF CarriedInv, Carried
<1>4. LostOnlyByTimeout'
  BY <1>1, <1>2 DEF CarriedInv, LostOnlyByTimeout
<1> QED
  BY <1>3, <1>4 DEF CarriedInv

LEMMA ClaimCarries ==
  ASSUME ToldInv, CarriedInv, NEW r \in Relays, BeginDrain(r)
  PROVE  CarriedInv'
<1> DEFINE rows == Unpublished \ Locked
<1>1. rows \in SUBSET DOMAIN outbox
  BY DEF Unpublished
<1>2. Claim(r, rows) /\ Typed
  BY DEF BeginDrain, ToldInv
<1> HIDE DEF rows
<1>3. /\ \A q \in Relays \ {r} :
           batch'[q] = batch[q] /\ queue'[q] = queue[q] /\ errors'[q] = errors[q]
      /\ \A i \in Range(batch'[r]) : [row |-> i, watched |-> TRUE] \in Range(queue'[r])
  BY <1>1, <1>2, ClaimKeeps
<1>4. UNCHANGED <<outbox, topic, late>>
  BY <1>2 DEF Claim, decision
<1> QED
  BY <1>3, <1>4 DEF CarriedInv, Carried, LostOnlyByTimeout

LEMMA BrokerCarries ==
  ASSUME ToldInv, CarriedInv, NEW r \in Relays, Broker(r)
  PROVE  CarriedInv'
<1>1. PICK k \in DOMAIN queue[r] : Acked(r, k) \/ Undelivered(r, k)
  BY DEF Broker
<1> DEFINE answered == queue[r][k]
<1>2. /\ queue' = [queue EXCEPT ![r] = RemoveAt(@, k)]
      /\ topic' = topic \/ topic' = Append(topic, answered.row)
      /\ UNCHANGED <<outbox, batch, late>>
  BY <1>1 DEF Acked, Undelivered, decision
<1>3. answered \in Records
  BY BatchTyped DEF ToldInv
<1>4. /\ \A q \in Relays \ {r} : queue'[q] = queue[q]
      /\ \A e \in Range(queue[r]) : e = answered \/ e \in Range(queue'[r])
  BY <1>2, AnswerKeeps DEF ToldInv
<1>5. /\ topic \in Seq(Nat) /\ answered.row \in Nat
      /\ Append(topic, answered.row) \in Seq(Nat)
      /\ Range(Append(topic, answered.row)) = Range(topic) \cup {answered.row}
  <2>1. topic \in Seq(Nat) /\ answered.row \in Nat
    BY <1>3 DEF ToldInv, Typed, Records
  <2> HIDE DEF answered
  <2> QED
    BY <2>1, AppendRange
<1>6. Range(topic) \subseteq Range(topic')
  BY <1>2, <1>5
<1>7. /\ \A q \in Relays : errors[q] => errors'[q]
      /\ \A i : answered = [row |-> i, watched |-> TRUE] => i \in Range(topic') \/ errors'[r]
  <2>1. CASE Acked(r, k)
    BY <1>5, <2>1 DEF Acked
  <2>2. CASE Undelivered(r, k)
    <3>1. errors' = [errors EXCEPT ![r] = errors[r] \/ answered.watched]
      BY <2>2 DEF Undelivered
    <3>2. errors[r] \in BOOLEAN /\ answered.watched \in BOOLEAN
      BY <1>3 DEF ToldInv, Typed, Records
    <3> HIDE DEF answered
    <3>3. \A q \in Relays : errors[q] => errors'[q]
      BY <3>1, <3>2 DEF ToldInv, Typed
    <3>4. answered.watched => errors'[r]
      BY <3>1, <3>2 DEF ToldInv, Typed
    <3>5. \A i : answered = [row |-> i, watched |-> TRUE] => answered.watched
      OBVIOUS
    <3> QED
      BY <3>3, <3>4, <3>5
  <2> QED
    BY <1>1, <2>1, <2>2
<1> HIDE DEF answered
<1>8. Carried'
  BY <1>2, <1>4, <1>6, <1>7 DEF CarriedInv, Carried
<1>9. LostOnlyByTimeout'
  BY <1>2, <1>6 DEF CarriedInv, LostOnlyByTimeout
<1> QED
  BY <1>8, <1>9 DEF CarriedInv

LEMMA FlushedCarries ==
  ASSUME ToldInv, CarriedInv, NEW r \in Relays, Flushed(r)
  PROVE  CarriedInv'
<1>1. /\ \A q \in Relays \ {r} : batch'[q] = batch[q] /\ queue'[q] = queue[q]
      /\ batch'[r] = <<>>
      /\ \A d \in Range(queue[r]) : d.row \in late'
  BY FlushedKeeps DEF ToldInv
<1>2. /\ EndDrain(r) /\ UNCHANGED <<errors, topic>>
      /\ late \subseteq late'
  BY DEF Flushed
<1>3. /\ DOMAIN outbox' = DOMAIN outbox
      /\ \A i \in DOMAIN outbox :
           outbox'[i].published <=>
             outbox[i].published \/ (~errors[r] /\ i \in Range(batch[r]))
  BY <1>2, EndDrainKeeps DEF ToldInv
<1>4. Range(batch'[r]) = {}
  <2>1. DOMAIN <<>> = {}
    BY EmptySeq
  <2> QED
    BY <1>1, <2>1 DEF Range
<1>5. Carried'
  BY <1>1, <1>2, <1>4 DEF CarriedInv, Carried
<1>6. \A i \in Range(batch[r]) : ~errors[r] => i \in Range(topic) \cup late'
  <2> SUFFICES ASSUME NEW i \in Range(batch[r]), ~errors[r], i \notin Range(topic)
               PROVE  i \in late'
    OBVIOUS
  <2>1. [row |-> i, watched |-> TRUE] \in Range(queue[r])
    BY DEF CarriedInv, Carried
  <2>2. [row |-> i, watched |-> TRUE].row = i
    OBVIOUS
  <2> QED
    BY <1>1, <2>1, <2>2
<1>7. LostOnlyByTimeout'
  BY <1>2, <1>3, <1>6 DEF CarriedInv, LostOnlyByTimeout
<1> QED
  BY <1>5, <1>7 DEF CarriedInv

LEMMA RelayDiesCarries ==
  ASSUME ToldInv, CarriedInv, NEW r \in Relays, RelayDies(r)
  PROVE  CarriedInv'
<1>1. /\ UNCHANGED <<outbox, errors, topic, late>>
      /\ batch' = [batch EXCEPT ![r] = <<>>] /\ queue' = [queue EXCEPT ![r] = <<>>]
  BY DEF RelayDies, decision
<1>2. /\ batch'[r] = <<>>
      /\ \A q \in Relays \ {r} : batch'[q] = batch[q] /\ queue'[q] = queue[q]
  BY <1>1 DEF ToldInv, Typed
<1>3. Range(batch'[r]) = {}
  <2>1. DOMAIN <<>> = {}
    BY EmptySeq
  <2> QED
    BY <1>2, <2>1 DEF Range
<1> QED
  BY <1>1, <1>2, <1>3 DEF CarriedInv, Carried, LostOnlyByTimeout

LEMMA CarriedInitially == Init => CarriedInv
<1> SUFFICES ASSUME Init PROVE CarriedInv
  OBVIOUS
<1>1. DOMAIN <<>> = {}
  BY EmptySeq
<1> QED
  BY <1>1 DEF Init, CarriedInv, Carried, LostOnlyByTimeout, Range

LEMMA CarriedInductive == ToldInv /\ CarriedInv /\ [Next]_vars => CarriedInv'
<1> SUFFICES ASSUME ToldInv, CarriedInv, [Next]_vars PROVE CarriedInv'
  OBVIOUS
<1>1. CASE \/ \E m \in Merchants : BeginSilent(m) \/ Enqueue(m)
           \/ \E t \in DOMAIN txns : Decide(t)
  BY <1>1, DecidingMarksNothing
<1>2. CASE \E r \in Relays : Drain(r) \/ Broker(r)
  BY <1>2, ClaimCarries, FlushedCarries, RelayDiesCarries, BrokerCarries DEF Drain
<1>3. CASE UNCHANGED vars
  BY <1>3 DEF vars, decision, CarriedInv, Carried, LostOnlyByTimeout
<1> QED
  BY <1>1, <1>2, <1>3 DEF Next

\* A row is marked and missing from the topic only if a flush gave up waiting for
\* it (outbox.py:90-109), for any relays, batches, errors and crashes.
THEOREM SkippedOnlyByTimeout == Spec => []LostOnlyByTimeout
<1>1. Spec => []CarriedInv
  BY Told, CarriedInitially, CarriedInductive, PTL DEF Spec
<1>2. CarriedInv => LostOnlyByTimeout
  BY DEF CarriedInv
<1> QED
  BY <1>1, <1>2, PTL

-----------------------------------------------------------------------------
(* The chain of a merchant nobody contends for *)

Top(x, S) == x \in S /\ \A y \in S : y <= x

\* The readers of the chain: an auditor, who is no transaction, and the transactions.
Readers == {0} \cup DOMAIN txns

\* A row belongs to a transaction, and each reader finds a tip.
Rooted == \A i \in DOMAIN audit : audit[i].txn \in DOMAIN txns
Topped ==
  \A m \in Merchants, t \in Readers :
    \E x \in DOMAIN audit \cup {Genesis} : Top(x, Chain(m, t) \cup {Genesis})

\* Two transactions append to one chain only if it is contended.
Alone ==
  \A t \in DOMAIN txns : \A u \in DOMAIN txns \ {t} :
    Appending(t) /\ Appending(u) /\ txns[t].merchant = txns[u].merchant
      => txns[t].merchant \in contended

\* Each row the reader sees commits to the row before it.
Linked(m, t) ==
  \A i \in Chain(m, t) :
    Top(audit[i].prev, {k \in Chain(m, t) : k < i} \cup {Genesis})

\* Who appends continues the chain: the tip it holds is the tip it sees.
Continues(m, t) ==
  Linked(m, t) /\ (txns[t].tip # Unread => Top(txns[t].tip, Chain(m, t) \cup {Genesis}))

Continued ==
  \A m \in Merchants \ contended :
    /\ Linked(m, 0)
    /\ \A t \in DOMAIN txns : Appending(t) /\ txns[t].merchant = m => Continues(m, t)

ChainInv == Rooted /\ Topped /\ Alone /\ Continued

LEMMA AuditTyped ==
  ASSUME Typed
  PROVE  /\ Len(audit) \in Nat /\ DOMAIN audit = 1..Len(audit)
         /\ \A m, t : Chain(m, t) \subseteq DOMAIN audit
BY AppendTo DEF Typed, Chain

LEMMA TxnUpdate ==
  ASSUME Typed, NEW t \in DOMAIN txns, NEW state, NEW tip,
         txns' = [txns EXCEPT ![t].state = state, ![t].tip = tip]
  PROVE  /\ DOMAIN txns' = DOMAIN txns
         /\ \A u \in DOMAIN txns : txns'[u].merchant = txns[u].merchant
         /\ \A u \in DOMAIN txns \ {t} : txns'[u] = txns[u]
         /\ txns'[t].state = state /\ txns'[t].tip = tip
<1> DEFINE new == [merchant |-> txns[t].merchant, state |-> state, tip |-> tip]
<1>1. txns' = [txns EXCEPT ![t] = new]
  BY ZenonT(60), TxnFields
<1>2. Txn(new)
  BY DEF Txn
<1>3. new.merchant = txns[t].merchant /\ new.state = state /\ new.tip = tip
  OBVIOUS
<1> HIDE DEF new
<1>4. /\ DOMAIN txns' = DOMAIN txns
      /\ \A u \in DOMAIN txns \ {t} : txns'[u] = txns[u]
      /\ txns'[t] = new
  BY <1>1, <1>2, TxnKeeps
<1> QED
  BY <1>3, <1>4

LEMMA TipUpdate ==
  ASSUME Typed, NEW t \in DOMAIN txns, NEW tip, txns' = [txns EXCEPT ![t].tip = tip]
  PROVE  /\ DOMAIN txns' = DOMAIN txns
         /\ \A u \in DOMAIN txns : txns'[u].merchant = txns[u].merchant
         /\ \A u \in DOMAIN txns \ {t} : txns'[u] = txns[u]
         /\ txns'[t].state = txns[t].state /\ txns'[t].tip = tip
<1> DEFINE new == [merchant |-> txns[t].merchant, state |-> txns[t].state, tip |-> tip]
<1>1. txns' = [txns EXCEPT ![t] = new]
  BY ZenonT(60), TxnFields
<1>2. Txn(new)
  BY DEF Txn
<1>3. new.merchant = txns[t].merchant /\ new.state = txns[t].state /\ new.tip = tip
  OBVIOUS
<1> HIDE DEF new
<1>4. /\ DOMAIN txns' = DOMAIN txns
      /\ \A u \in DOMAIN txns \ {t} : txns'[u] = txns[u]
      /\ txns'[t] = new
  BY <1>1, <1>2, TxnKeeps
<1> QED
  BY <1>3, <1>4

\* A larger set has a tip when what is added has one.
LEMMA TopOfBoth ==
  ASSUME NEW S \in SUBSET Int, NEW T \in SUBSET Int, NEW x, NEW y, Top(x, S), Top(y, T)
  PROVE  \E z \in {x, y} : Top(z, S \cup T)
<1>1. x \in Int /\ y \in Int
  BY DEF Top
<1>2. CASE x <= y
  BY <1>1, <1>2 DEF Top
<1>3. CASE y <= x
  BY <1>1, <1>3 DEF Top
<1> QED
  BY <1>1, <1>2, <1>3

LEMMA TopIsMax ==
  ASSUME NEW S \in SUBSET Int, NEW x, Top(x, S)
  PROVE  Max(S) = x
<1>1. x \in S /\ \A y \in S : x >= y
  BY DEF Top
<1>2. \A y \in S : (\A z \in S : y >= z) => y = x
  BY <1>1
<1> QED
  BY <1>1, <1>2 DEF Max

LEMMA TipIsTop ==
  ASSUME Typed, Topped, NEW t \in DOMAIN txns, txns[t].merchant \in Merchants
  PROVE  Top(Tip(t), Chain(txns[t].merchant, t) \cup {Genesis})
<1> DEFINE C == Chain(txns[t].merchant, t) \cup {Genesis}
<1>1. PICK x : Top(x, C)
  BY DEF Topped, Readers
<1>2. C \in SUBSET Int
  BY AuditTyped DEF Genesis
<1> HIDE DEF C
<1>3. Max(C) = x
  BY <1>1, <1>2, TopIsMax
<1> QED
  BY <1>1, <1>3 DEF Tip, C

-----------------------------------------------------------------------------

\* A step of a transaction changes no chain but its own, until it commits.
LEMMA BeginChain ==
  ASSUME Typed, ChainInv, NEW m0 \in Merchants, Begin(m0)
  PROVE  ChainInv'
<1>1. /\ DOMAIN txns' = DOMAIN txns \cup {Len(txns) + 1} /\ Len(txns) + 1 \notin DOMAIN txns
      /\ \A t \in DOMAIN txns : txns'[t] = txns[t]
      /\ txns'[Len(txns) + 1].state = "open" /\ txns'[Len(txns) + 1].tip = Unread
      /\ 0 \notin DOMAIN txns
  <2>1. Sequence(txns)
    BY DEF Typed
  <2>2. Len(txns) \in Nat /\ DOMAIN txns = 1..Len(txns)
    BY <2>1, AppendTo
  <2> QED
    BY <2>1, <2>2, AppendTo DEF Begin
<1>2. audit' = audit /\ contended' = contended
  BY DEF Begin
<1>3. PICK n : n = Len(txns) + 1
  OBVIOUS
<1>4. /\ \A t \in DOMAIN txns : Committed(t)' = Committed(t) /\ Open(t)' = Open(t)
      /\ ~Committed(n)' /\ txns'[n].tip = Unread
      /\ \A t : Appended(t)' = Appended(t)
      /\ Appended(n) = {}
  BY <1>1, <1>2, <1>3 DEF Committed, Open, Appended, ChainInv, Rooted
<1>5. /\ \A m, t : t # n => Chain(m, t)' = Chain(m, t)
      /\ \A m : Chain(m, n)' = Chain(m, 0)
  <2>1. \A i \in DOMAIN audit : Merchant(audit[i])' = Merchant(audit[i])
                                /\ audit[i].txn \in DOMAIN txns /\ audit[i].txn # n /\ audit[i].txn # 0
    BY <1>1, <1>2, <1>3 DEF Merchant, ChainInv, Rooted
  <2> QED
    BY <1>1, <1>2, <1>3, <1>4, <2>1 DEF Chain
<1>6. Rooted'
  BY <1>1, <1>2 DEF ChainInv, Rooted
<1>7. Topped'
  <2> SUFFICES ASSUME NEW m \in Merchants, NEW t \in Readers'
               PROVE  \E x \in DOMAIN audit \cup {Genesis} : Top(x, Chain(m, t)' \cup {Genesis})
    BY <1>2 DEF Topped, Genesis, Top
  <2>1. PICK u \in Readers : Chain(m, t)' = Chain(m, u)
    BY <1>1, <1>3, <1>5 DEF Readers
  <2> QED
    BY <2>1 DEF ChainInv, Topped
<1>8. ~Appending(n)' /\ \A t \in DOMAIN txns : Appending(t)' = Appending(t)
  BY <1>1, <1>4 DEF Appending
<1>9. Alone'
  BY <1>1, <1>2, <1>3, <1>8 DEF ChainInv, Alone
<1>10. \A m, t : t # n => (Linked(m, t) => Linked(m, t)')
  BY <1>2, <1>5 DEF Linked, Top, Genesis
<1>11. \A m, t : t \in DOMAIN txns => (Continues(m, t) => Continues(m, t)')
  BY <1>1, <1>3, <1>5, <1>10 DEF Continues, Top, Genesis, Unread
<1>12. n # 0
  BY <1>3, AppendTo DEF Typed
<1>13. Continued'
  BY <1>1, <1>2, <1>3, <1>8, <1>10, <1>11, <1>12 DEF ChainInv, Continued
<1> QED
  BY <1>6, <1>7, <1>9, <1>13 DEF ChainInv

LEMMA NoTransaction ==
  ASSUME Typed
  PROVE  0 \notin DOMAIN txns
<1>1. Sequence(txns)
  BY DEF Typed
<1>2. Len(txns) \in Nat /\ DOMAIN txns = 1..Len(txns)
  BY <1>1, AppendTo
<1> QED
  BY <1>2

LEMMA ReadTipChain ==
  ASSUME Typed, ChainInv, NEW t \in DOMAIN txns, txns[t].merchant \in Merchants, ReadTip(t)
  PROVE  ChainInv'
<1> PICK mt \in Merchants : mt = txns[t].merchant
  OBVIOUS
<1>1. /\ DOMAIN txns' = DOMAIN txns
      /\ \A u \in DOMAIN txns : txns'[u].merchant = txns[u].merchant
      /\ \A u \in DOMAIN txns \ {t} : txns'[u] = txns[u]
      /\ txns'[t].state = "open" /\ txns'[t].tip = Tip(t)
  <2>1. txns' = [txns EXCEPT ![t].tip = Tip(t)] /\ txns[t].state = "open"
    BY DEF ReadTip, Open
  <2> QED
    BY <2>1, TipUpdate
<1>2. /\ audit' = audit /\ contended \subseteq contended'
      /\ \A u \in DOMAIN txns \ {t} : Appending(u) /\ txns[u].merchant = mt => mt \in contended'
  BY DEF ReadTip
<1>3. /\ \A u \in DOMAIN txns : Committed(u)' = Committed(u)
      /\ \A u : Appended(u)' = Appended(u)
      /\ \A u \in DOMAIN txns \ {t} : Appending(u)' = Appending(u)
  BY <1>1, <1>2 DEF Committed, Appended, Appending, Open, ReadTip
<1>4. /\ \A m, u : Chain(m, u)' = Chain(m, u)
      /\ \A m, u : Linked(m, u) => Linked(m, u)'
  <2>1. \A m, u : Chain(m, u)' = Chain(m, u)
    BY <1>1, <1>2, <1>3 DEF Chain, Merchant, ChainInv, Rooted
  <2> QED
    BY <1>2, <2>1 DEF Linked, Top, Genesis
<1>5. Rooted'
  BY <1>1, <1>2 DEF ChainInv, Rooted
<1>6. Topped'
  <2>1. Readers' = Readers /\ DOMAIN audit' = DOMAIN audit
    BY <1>1, <1>2 DEF Readers
  <2> SUFFICES ASSUME NEW m \in Merchants, NEW u \in Readers
               PROVE  \E x \in DOMAIN audit \cup {Genesis} : Top(x, Chain(m, u)' \cup {Genesis})
    BY <2>1 DEF Topped, Top, Genesis
  <2> QED
    BY <1>4 DEF ChainInv, Topped
<1>7. Alone'
  BY <1>1, <1>2, <1>3 DEF ChainInv, Alone
<1>8. ASSUME mt \notin contended' PROVE Continues(mt, t)'
  <2>1. Linked(mt, t)
    <3>1. CASE Appending(t)
      BY <1>2, <1>8, <3>1 DEF ChainInv, Continued, Continues
    <3>2. CASE ~Appending(t)
      <4>1. Appended(t) = {}
        BY <3>2 DEF Appending, ReadTip
      <4>2. Chain(mt, t) = Chain(mt, 0)
        BY <4>1, NoTransaction DEF Chain, Appended, ChainInv, Rooted
      <4>3. Linked(mt, 0)
        BY <1>2, <1>8 DEF ChainInv, Continued
      <4> QED
        BY <4>2, <4>3 DEF Linked
    <3> QED
      BY <3>1, <3>2
  <2>2. Top(Tip(t), Chain(mt, t) \cup {Genesis})
    BY TipIsTop DEF ChainInv
  <2> QED
    BY <1>1, <1>4, <2>1, <2>2 DEF Continues, Top, Genesis
<1>9. Continued'
  <2> SUFFICES ASSUME NEW m \in Merchants, m \notin contended'
               PROVE  /\ Linked(m, 0)'
                      /\ \A u \in DOMAIN txns : Appending(u)' /\ txns[u].merchant = m =>
                           Continues(m, u)'
    BY <1>1 DEF Continued
  <2>1. m \notin contended
    BY <1>2
  <2>2. \A u \in DOMAIN txns \ {t} : Continues(m, u) => Continues(m, u)'
    BY <1>1, <1>4 DEF Continues, Top, Genesis, Unread
  <2> QED
    BY <1>3, <1>4, <1>8, <2>1, <2>2 DEF ChainInv, Continued
<1> QED
  BY <1>5, <1>6, <1>7, <1>9 DEF ChainInv

LEMMA AppendRowChain ==
  ASSUME Typed, ChainInv, NEW t \in DOMAIN txns, txns[t].merchant \in Merchants, AppendRow(t)
  PROVE  ChainInv'
<1> PICK mt \in Merchants : mt = txns[t].merchant
  OBVIOUS
<1> PICK tip : tip = txns[t].tip
  OBVIOUS
<1>1. /\ DOMAIN txns' = DOMAIN txns
      /\ \A u \in DOMAIN txns : txns'[u].merchant = txns[u].merchant
      /\ \A u \in DOMAIN txns \ {t} : txns'[u] = txns[u]
      /\ txns'[t].state = "open" /\ txns'[t].tip = Unread
  <2>1. txns' = [txns EXCEPT ![t].tip = Unread] /\ txns[t].state = "open"
    BY DEF AppendRow, Open
  <2> QED
    BY <2>1, TipUpdate
<1>2. PICK n \in Nat : n = Len(audit) + 1
  BY AuditTyped
<1>3. /\ contended' = contended
      /\ DOMAIN audit' = DOMAIN audit \cup {n} /\ \A i \in DOMAIN audit : audit'[i] = audit[i]
      /\ audit'[n].txn = t /\ audit'[n].prev = tip
      /\ n \notin DOMAIN audit /\ \A i \in DOMAIN audit : i \in Nat /\ i < n
  <2> DEFINE row == [txn |-> t, prev |-> tip]
  <2>1. audit' = Append(audit, row) /\ Sequence(audit) /\ row.txn = t /\ row.prev = tip
    BY DEF AppendRow, Typed
  <2> HIDE DEF row
  <2> QED
    BY <1>2, <2>1, AppendTo DEF AppendRow
<1>4. /\ \A u \in DOMAIN txns : Committed(u)' = Committed(u)
      /\ \A u \in DOMAIN txns \ {t} : Appended(u)' = Appended(u)
      /\ Appending(t) /\ Appending(t)' /\ ~Committed(t)
      /\ \A u \in DOMAIN txns \ {t} : Appending(u)' = Appending(u)
  <2>1. \A u \in DOMAIN txns : Committed(u)' = Committed(u)
    BY <1>1 DEF Committed, AppendRow, Open
  <2>2. \A u \in DOMAIN txns \ {t} : Appended(u)' = Appended(u)
    BY <1>3 DEF Appended
  <2>3. Appending(t) /\ ~Committed(t)
    BY DEF Appending, AppendRow, Open, Committed
  <2>4. Appending(t)'
    BY <1>1, <1>3 DEF Appending, Open, Appended
  <2> QED
    BY <1>1, <2>1, <2>2, <2>3, <2>4 DEF Appending, Open
\* Only its own chain grows.
<1>5. /\ \A m, u : m # mt \/ u # t => Chain(m, u)' = Chain(m, u)
      /\ Chain(mt, t)' = Chain(mt, t) \cup {n}
  <2>1. /\ \A i \in DOMAIN audit : Merchant(audit[i])' = Merchant(audit[i])
                                   /\ audit[i].txn \in DOMAIN txns
        /\ \A i \in DOMAIN audit : txns'[audit'[i].txn].merchant = Merchant(audit[i])
        /\ txns'[audit'[n].txn].merchant = mt
    BY <1>1, <1>3 DEF Merchant, ChainInv, Rooted
  <2> QED
    BY <1>1, <1>3, <1>4, <2>1 DEF Chain, Merchant
<1>6. /\ \A m, u : Chain(m, u) \subseteq DOMAIN audit
      /\ \A m, u : m # mt \/ u # t => (Linked(m, u) => Linked(m, u)')
  <2>1. \A m, u : Chain(m, u) \subseteq DOMAIN audit
    BY AuditTyped
  <2> QED
    BY <1>3, <1>5, <2>1 DEF Linked, Top, Genesis
<1>7. Rooted'
  BY <1>1, <1>3 DEF ChainInv, Rooted
<1>8. Topped'
  <2> SUFFICES ASSUME NEW m \in Merchants, NEW u \in Readers
               PROVE  \E x \in DOMAIN audit \cup {n} \cup {Genesis} :
                        Top(x, Chain(m, u)' \cup {Genesis})
    BY <1>1, <1>3 DEF Topped, Readers, Top, Genesis
  <2>1. CASE m # mt \/ u # t
    BY <1>5, <2>1 DEF ChainInv, Topped
  <2>2. CASE m = mt /\ u = t
    BY <1>3, <1>5, <1>6, <2>2 DEF Top, Genesis
  <2> QED
    BY <2>1, <2>2
<1>9. Alone'
  BY <1>1, <1>3, <1>4 DEF ChainInv, Alone
<1>10. ASSUME mt \notin contended PROVE Continues(mt, t)'
  <2>1. Linked(mt, t) /\ Top(tip, Chain(mt, t) \cup {Genesis})
    BY <1>4, <1>10 DEF ChainInv, Continued, Continues, AppendRow
  <2>2. ASSUME NEW i \in Chain(mt, t)
        PROVE  Top(audit'[i].prev, {k \in Chain(mt, t) \cup {n} : k < i} \cup {Genesis})
    <3>1. i < n /\ i \in Nat /\ audit'[i] = audit[i]
      BY <1>3, <1>6
    <3>2. {k \in Chain(mt, t) \cup {n} : k < i} = {k \in Chain(mt, t) : k < i}
      BY <1>2, <3>1
    <3> QED
      BY <2>1, <3>1, <3>2 DEF Linked
  <2>3. {k \in Chain(mt, t) \cup {n} : k < n} = Chain(mt, t)
    BY <1>2, <1>3, <1>6
  <2>4. Linked(mt, t)'
    BY <1>3, <1>5, <2>1, <2>2, <2>3 DEF Linked, Top, Genesis
  <2> QED
    BY <1>1, <2>4 DEF Continues
<1>11. Continued'
  <2> SUFFICES ASSUME NEW m \in Merchants, m \notin contended
               PROVE  /\ Linked(m, 0)'
                      /\ \A u \in DOMAIN txns : Appending(u)' /\ txns[u].merchant = m =>
                           Continues(m, u)'
    BY <1>1, <1>3 DEF Continued
  <2>1. \A u \in DOMAIN txns \ {t} : Continues(m, u) => Continues(m, u)'
    BY <1>1, <1>5, <1>6 DEF Continues, Top, Genesis, Unread
  <2> QED
    BY <1>4, <1>6, <1>10, <2>1, NoTransaction DEF ChainInv, Continued
<1> QED
  BY <1>7, <1>8, <1>9, <1>11 DEF ChainInv

LEMMA EndChain ==
  ASSUME Typed, ChainInv, NEW t \in DOMAIN txns, txns[t].merchant \in Merchants,
         Commit(t) \/ Rollback(t)
  PROVE  ChainInv'
<1> PICK mt \in Merchants : mt = txns[t].merchant
  OBVIOUS
<1>1. PICK state \in {"committed", "aborted"} : End(t, state)
  BY DEF Commit, Rollback
<1>2. /\ DOMAIN txns' = DOMAIN txns
      /\ \A u \in DOMAIN txns : txns'[u].merchant = txns[u].merchant
      /\ \A u \in DOMAIN txns \ {t} : txns'[u] = txns[u]
      /\ txns'[t].state = state
      /\ audit' = audit /\ contended' = contended
  BY <1>1, TxnUpdate DEF End
<1>3. /\ Open(t) /\ ~Committed(t) /\ ~Open(t)'
      /\ (state = "committed" => Appending(t)) /\ ~Appending(t)'
      /\ \A u \in DOMAIN txns \ {t} : Committed(u)' = Committed(u) /\ Appending(u)' = Appending(u)
      /\ Committed(t)' <=> state = "committed"
  <2>1. Open(t) /\ (state = "committed" => Appended(t) # {})
    <3>1. CASE Commit(t)
      BY <3>1 DEF Commit
    <3>2. CASE Rollback(t)
      <4>1. state = "aborted"
        BY <1>2, <3>2, TxnUpdate DEF Rollback, End
      <4> QED
        BY <3>2, <4>1 DEF Rollback
    <3> QED
      BY <3>1, <3>2
  <2> QED
    BY <1>2, <2>1 DEF Open, Committed, Appending, Appended
<1>4. \A i \in DOMAIN audit : Merchant(audit[i])' = Merchant(audit[i])
                              /\ audit[i].txn \in DOMAIN txns
  BY <1>2 DEF Merchant, ChainInv, Rooted
\* What the others see grows by what the transaction saw, if it commits.
<1>5. /\ \A m, u : m # mt \/ state = "aborted" => Chain(m, u)' = Chain(m, u)
      /\ state = "committed" => \A u : Chain(mt, u)' = Chain(mt, u) \cup Chain(mt, t)
  <2>1. CASE state = "aborted"
    BY <1>2, <1>3, <1>4, <2>1 DEF Chain
  <2>2. CASE state = "committed"
    <3>1. \A i \in DOMAIN audit : audit[i].txn = t => Merchant(audit[i]) = mt
      BY DEF Merchant
    <3> QED
      BY <1>2, <1>3, <1>4, <2>2, <3>1 DEF Chain
  <2> QED
    BY <2>1, <2>2
<1>6. Rooted'
  BY <1>2 DEF ChainInv, Rooted
<1>7. Topped'
  <2>0. Readers' = Readers /\ DOMAIN audit' = DOMAIN audit
    BY <1>2 DEF Readers
  <2> SUFFICES ASSUME NEW m \in Merchants, NEW u \in Readers
               PROVE  \E x \in DOMAIN audit \cup {Genesis} : Top(x, Chain(m, u)' \cup {Genesis})
    BY <2>0 DEF Topped, Top, Genesis
  <2>1. CASE m # mt \/ state = "aborted"
    BY <1>5, <2>1 DEF ChainInv, Topped
  <2>2. CASE m = mt /\ state = "committed"
    <3> DEFINE A == Chain(m, u) \cup {Genesis}
               B == Chain(m, t) \cup {Genesis}
    <3>1. Chain(m, u)' \cup {Genesis} = A \cup B
      BY <1>5, <2>2
    <3>2. PICK x \in DOMAIN audit \cup {Genesis} : Top(x, A)
      BY DEF ChainInv, Topped
    <3>3. PICK y \in DOMAIN audit \cup {Genesis} : Top(y, B)
      BY DEF ChainInv, Topped, Readers
    <3>4. A \in SUBSET Int /\ B \in SUBSET Int
      BY AuditTyped DEF Genesis
    <3> HIDE DEF A, B
    <3>5. \E z \in {x, y} : Top(z, A \cup B)
      BY <3>2, <3>3, <3>4, TopOfBoth
    <3> QED
      BY <3>1, <3>2, <3>3, <3>5
  <2> QED
    BY <1>1, <2>1, <2>2
<1>8. Alone'
  BY <1>2, <1>3 DEF ChainInv, Alone
<1>9. ASSUME NEW m \in Merchants, m \notin contended, m # mt \/ state = "aborted"
      PROVE  /\ Linked(m, 0)'
             /\ \A u \in DOMAIN txns \ {t} : Appending(u) /\ txns[u].merchant = m =>
                  Continues(m, u)'
  <2>1. \A u : Chain(m, u)' = Chain(m, u)
    BY <1>5, <1>9
  <2>2. \A u : Linked(m, u) => Linked(m, u)'
    BY <1>2, <2>1 DEF Linked, Top, Genesis
  <2>3. \A u \in DOMAIN txns \ {t} : Continues(m, u) => Continues(m, u)'
    BY <1>2, <2>1, <2>2 DEF Continues, Top, Genesis, Unread
  <2> QED
    BY <1>9, <2>2, <2>3 DEF ChainInv, Continued
\* The committed chain becomes the one the transaction saw.
<1>10. ASSUME state = "committed", mt \notin contended
       PROVE  /\ Linked(mt, 0)'
              /\ \A u \in DOMAIN txns \ {t} : Appending(u) => txns[u].merchant # mt
  <2>1. Linked(mt, t) /\ \A u \in DOMAIN txns \ {t} : Appending(u) => txns[u].merchant # mt
    BY <1>3, <1>10 DEF ChainInv, Continued, Continues, Alone
  <2>2. Chain(mt, 0)' = Chain(mt, t)
    <3>1. Chain(mt, 0) \subseteq Chain(mt, t)
      BY NoTransaction DEF Chain, ChainInv, Rooted
    <3> QED
      BY <1>5, <1>10, <3>1
  <2> QED
    BY <1>2, <2>1, <2>2 DEF Linked, Top, Genesis
<1>11. Continued'
  BY <1>1, <1>2, <1>3, <1>9, <1>10 DEF Continued
<1> QED
  BY <1>6, <1>7, <1>8, <1>11 DEF ChainInv

\* Transactions belong to merchants.
Owned == \A t \in DOMAIN txns : txns[t].merchant \in Merchants

LEMMA OwnedStep ==
  ASSUME Typed, Owned, [Next]_vars
  PROVE  Owned'
<1>1. ASSUME NEW m \in Merchants, BeginSilent(m) \/ Enqueue(m) PROVE Owned'
  <2> DEFINE new == [merchant |-> m, state |-> "open", tip |-> Unread]
  <2>1. txns' = Append(txns, new) /\ Sequence(txns) /\ new.merchant = m
    BY <1>1 DEF BeginSilent, Enqueue, Begin, Typed
  <2> HIDE DEF new
  <2> QED
    BY <2>1, AppendTo DEF Owned
<1>2. ASSUME NEW t \in DOMAIN txns, Decide(t) PROVE Owned'
  <2>1. CASE ReadTip(t)
    <3>1. PICK tip : txns' = [txns EXCEPT ![t].tip = tip]
      BY <2>1 DEF ReadTip
    <3> QED
      BY <3>1, TipUpdate DEF Owned
  <2>2. CASE AppendRow(t)
    <3>1. PICK tip : txns' = [txns EXCEPT ![t].tip = tip]
      BY <2>2 DEF AppendRow
    <3> QED
      BY <3>1, TipUpdate DEF Owned
  <2>3. CASE \E state : End(t, state)
    <3>1. PICK state : txns' = [txns EXCEPT ![t].state = state, ![t].tip = Unread]
      BY <2>3 DEF End
    <3> QED
      BY <3>1, TxnUpdate DEF Owned
  <2> QED
    BY <1>2, <2>1, <2>2, <2>3 DEF Decide, Commit, Rollback
<1>3. CASE UNCHANGED txns
  BY <1>3 DEF Owned
<1> QED
  BY <1>1, <1>2, <1>3 DEF Next, Drain, Broker, BeginDrain, Claim, Flushed, RelayDies, Acked,
                          Undelivered, decision, vars

ContinuedInv == Owned /\ ChainInv

LEMMA ContinuedInitially == Init => ContinuedInv
<1> SUFFICES ASSUME Init PROVE ContinuedInv
  OBVIOUS
<1>1. DOMAIN txns = {} /\ DOMAIN audit = {}
  BY EmptySeq DEF Init
<1>2. \A m, t : Chain(m, t) = {}
  BY <1>1 DEF Chain
<1> QED
  BY <1>1, <1>2 DEF ContinuedInv, Owned, ChainInv, Rooted, Topped, Alone, Continued, Linked,
                    Top, Genesis

LEMMA ContinuedInductive == ToldInv /\ ContinuedInv /\ [Next]_vars => ContinuedInv'
<1> SUFFICES ASSUME ToldInv, ContinuedInv, [Next]_vars PROVE ContinuedInv'
  OBVIOUS
<1> USE DEF ContinuedInv, ToldInv
<1>1. Owned'
  BY OwnedStep
<1>2. ASSUME NEW m \in Merchants, BeginSilent(m) \/ Enqueue(m) PROVE ChainInv'
  BY <1>2, BeginChain DEF BeginSilent, Enqueue
<1>3. ASSUME NEW t \in DOMAIN txns, Decide(t) PROVE ChainInv'
  BY <1>3, ReadTipChain, AppendRowChain, EndChain DEF Decide, Owned
<1>4. CASE UNCHANGED <<txns, audit, contended>>
  <2>1. /\ \A m, t : Chain(m, t)' = Chain(m, t)
        /\ \A t : Appending(t)' = Appending(t)
    BY <1>4 DEF Chain, Appending, Appended, Open, Committed, Merchant, Unread
  <2>2. \A m, t : Linked(m, t) => Linked(m, t)'
    BY <1>4, <2>1 DEF Linked, Top, Genesis
  <2>3. \A m, t : Continues(m, t) => Continues(m, t)'
    BY <1>4, <2>1, <2>2 DEF Continues, Top, Genesis, Unread
  <2>4. Rooted' /\ Alone' /\ Continued'
    BY <1>4, <2>1, <2>2, <2>3 DEF ChainInv, Rooted, Alone, Continued
  <2>5. Readers' = Readers /\ DOMAIN audit' = DOMAIN audit
    BY <1>4 DEF Readers
  <2>6. Topped'
    <3> SUFFICES ASSUME NEW m \in Merchants, NEW u \in Readers
                 PROVE  \E x \in DOMAIN audit \cup {Genesis} :
                          Top(x, Chain(m, u)' \cup {Genesis})
      BY <2>5 DEF Topped, Top, Genesis
    <3> QED
      BY <2>1 DEF ChainInv, Topped, Genesis
  <2> QED
    BY <1>1, <2>4, <2>6 DEF ChainInv
<1> QED
  BY <1>1, <1>2, <1>3, <1>4 DEF Next, Drain, Broker, BeginDrain, Claim, Flushed, RelayDies,
                                Acked, Undelivered, decision, vars

\* A merchant's chain verifies as long as no two transactions appended to it at once:
\* neither another merchant's rows nor rollbacks disturb it (audit.py:15-20).
THEOREM ChainVerifies == Spec => []IntactUnlessContended
<1>1. Spec => []ContinuedInv
  BY Told, ContinuedInitially, ContinuedInductive, PTL DEF Spec
<1>2. ToldInv /\ ContinuedInv => IntactUnlessContended
  <2> SUFFICES ASSUME ToldInv, ContinuedInv, NEW m \in Merchants \ contended,
                      NEW i \in Chain(m, 0)
               PROVE  audit[i].prev = Max({k \in Chain(m, 0) : k < i} \cup {Genesis})
    BY DEF IntactUnlessContended, ChainIntactOf
  <2> DEFINE before == {k \in Chain(m, 0) : k < i} \cup {Genesis}
  <2>1. Top(audit[i].prev, before)
    BY DEF ContinuedInv, ChainInv, Continued, Linked
  <2>2. before \in SUBSET Int
    BY AuditTyped DEF ToldInv, Genesis
  <2> HIDE DEF before
  <2>3. Max(before) = audit[i].prev
    BY <2>1, <2>2, TopIsMax
  <2> QED
    BY <2>3 DEF before
<1> QED
  BY <1>1, <1>2, Told, PTL
=============================================================================
