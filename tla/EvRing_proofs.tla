--------------------------- MODULE EvRing_proofs ----------------------------
(***************************************************************************)
(* Proofs about EvRing for every ring size that divides the counters'      *)
(* range, and any number of events: exactly-once, in-order delivery, and   *)
(* no two threads in one slot, however often the counters wrap.            *)
(***************************************************************************)
EXTENDS EvRing, SequenceTheorems, TLAPS
-----------------------------------------------------------------------------
(* Remainders *)

\* Division with remainder, for a positive divisor.
LEMMA DivMod ==
  ASSUME NEW n \in Nat, NEW d \in Nat, d >= 1
  PROVE  \E q \in Nat, r \in 0 .. d - 1 : n = d * q + r /\ n % d = r
<1>1. /\ n \div d \in Nat
      /\ n % d \in 0 .. d - 1
      /\ n = d * (n \div d) + (n % d)
  BY Z3
<1> QED
  BY <1>1

\* Quotient and remainder are determined by the sum they make.
LEMMA ModUnique ==
  ASSUME NEW q \in Int, NEW p \in Int, NEW d \in Nat, d >= 1,
         NEW r \in 0 .. d - 1, NEW s \in 0 .. d - 1,
         d * q + r = d * p + s
  PROVE  q = p /\ r = s
  BY Z3

\* A remainder read off a sum.
LEMMA ModOf ==
  ASSUME NEW d \in Nat, d >= 1, NEW q \in Nat, NEW r \in 0 .. d - 1
  PROVE  d * q + r \in Nat /\ (d * q + r) % d = r
<1> DEFINE n == d * q + r
<1>1. n \in Nat
  BY Z3
<1> HIDE DEF n
<1>2. PICK p \in Nat, s \in 0 .. d - 1 : n = d * p + s /\ n % d = s
  BY <1>1, DivMod
<1>3. d * p + s = d * q + r
  BY <1>2 DEF n
<1>4. s = r
  BY <1>3, ModUnique
<1> QED
  BY <1>1, <1>2, <1>4 DEF n

\* A remainder is within its bounds.
LEMMA ModRange ==
  ASSUME NEW n \in Nat, NEW d \in Nat, d >= 1
  PROVE  n % d \in 0 .. d - 1
  BY DivMod

\* Numbers less than one divisor apart have different remainders.
LEMMA ModDistinct ==
  ASSUME NEW n \in Nat, NEW m \in Nat, NEW d \in Nat, d >= 1, n < m, m < n + d
  PROVE  n % d # m % d
<1>1. PICK q \in Nat, r \in 0 .. d - 1 : n = d * q + r /\ n % d = r
  BY DivMod
<1>2. PICK p \in Nat, s \in 0 .. d - 1 : m = d * p + s /\ m % d = s
  BY DivMod
<1>3. SUFFICES ASSUME r = s PROVE FALSE
  BY <1>1, <1>2
<1>4. m - n = d * (p - q)
  BY <1>1, <1>2, <1>3, Z3
<1>5. CASE p - q >= 1
  BY <1>4, <1>5, Z3
<1>6. CASE p - q <= 0
  BY <1>4, <1>6, Z3
<1> QED
  BY <1>5, <1>6

\* Reducing first by a multiple of d changes nothing.
LEMMA ModMod ==
  ASSUME NEW n \in Nat, NEW d \in Nat, NEW e \in Nat, d >= 1, e >= 1, e % d = 0
  PROVE  (n % e) % d = n % d
<1>1. PICK q \in Nat, r \in 0 .. e - 1 : n = e * q + r /\ n % e = r
  BY DivMod
<1>2. PICK m \in Nat, z \in 0 .. d - 1 : e = d * m + z /\ e % d = z
  BY DivMod
<1>3. PICK p \in Nat, s \in 0 .. d - 1 : r = d * p + s /\ r % d = s
  BY DivMod
<1>4. e = d * m
  BY <1>2
<1>5. m * q + p \in Nat
  BY Z3
<1>6. n = d * (m * q + p) + s
  BY <1>1, <1>3, <1>4, Z3
<1>7. (d * (m * q + p) + s) % d = s
  BY <1>5, ModOf
<1> QED
  BY <1>1, <1>3, <1>6, <1>7

\* Incrementing before or after the reduction.
LEMMA ModSucc ==
  ASSUME NEW n \in Nat, NEW d \in Nat, d >= 1
  PROVE  ((n % d) + 1) % d = (n + 1) % d
<1>1. PICK q \in Nat, r \in 0 .. d - 1 : n = d * q + r /\ n % d = r
  BY DivMod
<1>2. PICK p \in Nat, s \in 0 .. d - 1 : r + 1 = d * p + s /\ (r + 1) % d = s
  BY DivMod
<1>3. n + 1 = d * (q + p) + s
  BY <1>1, <1>2, Z3
<1>4. (d * (q + p) + s) % d = s
  BY ModOf
<1> QED
  BY <1>1, <1>2, <1>3, <1>4

\* The distance of two counters that wrap at d, from their remainders.
LEMMA ModDiff ==
  ASSUME NEW n \in Nat, NEW m \in Nat, NEW d \in Nat, m <= n, n < m + d, d >= 1
  PROVE  ((n % d) + d - (m % d)) % d = n - m
<1>1. PICK q \in Nat, r \in 0 .. d - 1 : n = d * q + r /\ n % d = r
  BY DivMod
<1>2. PICK p \in Nat, s \in 0 .. d - 1 : m = d * p + s /\ m % d = s
  BY DivMod
<1>3. n - m = d * (q - p) + (r - s)
  BY <1>1, <1>2, Z3
<1>4. q - p = 0 \/ q - p = 1
  BY <1>3, Z3
<1>5. CASE q - p = 0
  <2>1. r - s = n - m /\ r - s \in 0 .. d - 1
    BY <1>3, <1>5, Z3
  <2>2. (d * 1 + (r - s)) % d = r - s
    BY <2>1, ModOf
  <2>3. r + d - s = d * 1 + (r - s)
    BY Z3
  <2> QED
    BY <1>1, <1>2, <2>1, <2>2, <2>3
<1>6. CASE q - p = 1
  <2>1. r + d - s = n - m /\ r + d - s \in 0 .. d - 1
    BY <1>3, <1>6, Z3
  <2>2. (d * 0 + (r + d - s)) % d = r + d - s
    BY <2>1, ModOf
  <2>3. d * 0 + (r + d - s) = r + d - s
    BY Z3
  <2> QED
    BY <1>1, <1>2, <2>1, <2>2, <2>3
<1> QED
  BY <1>4, <1>5, <1>6
-----------------------------------------------------------------------------
(* The invariant *)

\* The invariant: the counters are the true totals of accepted and popped events
\* reduced modulo Width, at most Size apart, and the slots between them hold the
\* events accepted and not yet popped.
Totals ==
  /\ Len(popped) <= Len(accepted)
  /\ Len(accepted) <= Len(popped) + EvSize
  /\ head = Len(accepted) % Width
  /\ tail = Len(popped) % Width

Producer ==
  /\ ppc \in {"store", "publish"} => Len(accepted) < Len(popped) + EvSize
  /\ ppc = "publish" => buf[EvSlotOf(head)] = offered

Consumer ==
  /\ cpc \in {"read", "advance"} => Len(popped) < Len(accepted)
  /\ cpc = "advance" => cell = accepted[Len(popped) + 1]

Contents ==
  \A i \in Nat : (Len(popped) <= i /\ i < Len(accepted))
                   => buf[EvSlotOf(i)] = accepted[i + 1]

IInv == EvTypeOK /\ Totals /\ Producer /\ Consumer /\ Contents /\ ExactlyOnceInOrder

\* The low bits of a wrapped counter are the low bits of the total it counts.
LEMMA SlotOfTotal ==
  ASSUME NEW i \in Nat
  PROVE  EvSlotOf(i % Width) = EvSlotOf(i) /\ EvSlotOf(i) \in 0 .. EvSize - 1
<1>1. EvSize \in Nat /\ EvSize >= 1 /\ Width \in Nat /\ Width >= 1 /\ Width % EvSize = 0
  BY EvSizeAssumption, WidthAssumption
<1>2. (i % Width) % EvSize = i % EvSize
  BY <1>1, ModMod, Zenon
<1>3. i % EvSize \in 0 .. EvSize - 1
  BY <1>1, ModRange, Zenon
<1> QED
  BY <1>2, <1>3, Zenon DEF EvSlotOf

\* Two positions less than a ring apart are different slots.
LEMMA SlotDistinct ==
  ASSUME NEW i \in Nat, NEW j \in Nat, i < j, j < i + EvSize
  PROVE  EvSlotOf(i) # EvSlotOf(j)
  BY EvSizeAssumption, ModDistinct, Zenon DEF EvSlotOf

\* Unsigned subtraction of the counters counts the events in the queue.
LEMMA UsedCounts ==
  ASSUME EvTypeOK, Totals
  PROVE  Used(head, tail) = Len(accepted) - Len(popped)
<1> DEFINE P == Len(accepted)
           Q == Len(popped)
<1>1. P \in Nat /\ Q \in Nat /\ Q <= P /\ P < Q + Width
  BY EvSizeAssumption, WidthAssumption DEF EvTypeOK, Totals
<1>2. head = P % Width /\ tail = Q % Width
  BY DEF Totals
<1> HIDE DEF P, Q
<1>3. ((P % Width) + Width - (Q % Width)) % Width = P - Q
  <2>1. Width \in Nat /\ Width >= 1
    BY EvSizeAssumption, WidthAssumption
  <2> QED
    BY <1>1, <2>1, ModDiff, Zenon
<1> QED
  BY <1>2, <1>3 DEF Used, P, Q

\* The counters are equal only when the queue is empty.
LEMMA EmptyIsEqual ==
  ASSUME EvTypeOK, Totals, tail # head
  PROVE  Len(popped) < Len(accepted)
<1>1. Len(popped) \in Nat /\ Len(accepted) \in Nat
  BY DEF EvTypeOK
<1>2. Len(popped) # Len(accepted)
  BY DEF Totals
<1> QED
  BY <1>1, <1>2 DEF Totals

-----------------------------------------------------------------------------
(* Each step preserves the invariant. *)

\* The producer's loads of the counters keep the invariant.
LEMMA PushBeginStep ==
  ASSUME IInv, PushBegin PROVE IInv'
<1> USE DEF IInv, EvTypeOK
<1>1. UNCHANGED <<buf, head, tail, dropped, cpc, cell, accepted, popped>>
      /\ offered' = offered + 1
  BY DEF PushBegin, evConsumer
<1>2. ppc' \in {"full", "store"}
  BY DEF PushBegin
<1>3. ppc' = "store" => Len(accepted) < Len(popped) + EvSize
  <2>1. ppc' = "store" => ~ Full(head, tail)
    BY DEF PushBegin
  <2>2. Len(accepted) \in Nat /\ Len(popped) \in Nat
    OBVIOUS
  <2> QED
    BY <2>1, <2>2, UsedCounts, EvSizeAssumption DEF Full
<1>4. EvTypeOK'
  BY <1>1, <1>2
<1>5. Totals' /\ Consumer' /\ ExactlyOnceInOrder'
  BY <1>1 DEF Totals, Consumer, ExactlyOnceInOrder
<1>6. Contents'
  BY <1>1 DEF Contents, EvSlotOf
<1>7. Producer'
  BY <1>1, <1>2, <1>3 DEF Producer
<1> QED
  BY <1>4, <1>5, <1>6, <1>7

\* A refused event keeps the invariant.
LEMMA PushDropStep ==
  ASSUME IInv, PushDrop PROVE IInv'
<1> USE DEF IInv, EvTypeOK, PushDrop, evConsumer
<1>1. EvTypeOK' /\ Totals' /\ Producer' /\ Consumer' /\ ExactlyOnceInOrder'
  BY DEF Totals, Producer, Consumer, ExactlyOnceInOrder
<1>2. Contents'
  BY DEF Contents, EvSlotOf
<1> QED
  BY <1>1, <1>2

\* The store of an event in its slot keeps the invariant.
LEMMA PushStoreStep ==
  ASSUME IInv, PushStore PROVE IInv'
<1> USE DEF IInv, EvTypeOK
<1> DEFINE P == Len(accepted)
<1>1. /\ UNCHANGED <<head, tail, dropped, cpc, cell, offered, accepted, popped>>
      /\ ppc = "store" /\ ppc' = "publish"
      /\ buf' = [buf EXCEPT ![EvSlotOf(head)] = offered]
  BY DEF PushStore, evConsumer
<1>2. P \in Nat /\ Len(popped) \in Nat /\ P < Len(popped) + EvSize
  BY <1>1 DEF Producer
<1>3. EvSlotOf(head) = EvSlotOf(P) /\ EvSlotOf(P) \in 0 .. EvSize - 1
  BY <1>2, SlotOfTotal DEF Totals
<1>4. buf' \in [0 .. EvSize - 1 -> Nat] /\ buf'[EvSlotOf(head)] = offered
  BY <1>1, <1>3
<1>5. EvTypeOK'
  BY <1>1, <1>4
<1>6. Totals' /\ Consumer' /\ ExactlyOnceInOrder'
  BY <1>1 DEF Totals, Consumer, ExactlyOnceInOrder
<1>7. ASSUME NEW i \in Nat, Len(popped) <= i, i < P
      PROVE  buf'[EvSlotOf(i)] = accepted[i + 1]
  <2>1. EvSlotOf(i) # EvSlotOf(P)
    BY <1>2, <1>7, EvSizeAssumption, SlotDistinct
  <2>2. buf'[EvSlotOf(i)] = buf[EvSlotOf(i)]
    BY <1>1, <1>3, <2>1, SlotOfTotal
  <2> QED
    BY <1>7, <2>2 DEF Contents
<1>8. Contents'
  BY <1>1, <1>7 DEF Contents
<1>9. Producer'
  BY <1>1, <1>2, <1>4 DEF Producer
<1> QED
  BY <1>5, <1>6, <1>8, <1>9

\* The producer's store of head keeps the invariant.
LEMMA PushPublishStep ==
  ASSUME IInv, PushPublish PROVE IInv'
<1> USE DEF IInv, EvTypeOK
<1> DEFINE P == Len(accepted)
<1>1. /\ UNCHANGED <<buf, tail, dropped, cpc, cell, offered, popped>>
      /\ ppc = "publish" /\ ppc' = "idle"
      /\ head' = Successor(head) /\ accepted' = Append(accepted, offered)
  BY DEF PushPublish, evConsumer
<1>2. /\ P \in Nat /\ Len(popped) \in Nat /\ Len(popped) <= P
      /\ P < Len(popped) + EvSize /\ buf[EvSlotOf(head)] = offered /\ head = P % Width
  BY <1>1 DEF Producer, Totals
<1>3. /\ accepted' \in Seq(Nat) /\ Len(accepted') = P + 1
      /\ accepted'[P + 1] = offered
      /\ \A i \in 1 .. P : accepted'[i] = accepted[i]
  BY <1>1
<1>4. Width \in Nat /\ Width >= 1
  BY EvSizeAssumption, WidthAssumption
<1>5. ((P % Width) + 1) % Width = (P + 1) % Width
  BY <1>2, <1>4, ModSucc, Zenon
<1>6. (P + 1) % Width \in 0 .. Width - 1
  <2>1. P + 1 \in Nat
    BY <1>2
  <2> QED
    BY <2>1, <1>4, ModRange, Zenon
<1>7. head' = (P + 1) % Width
  BY <1>1, <1>2, <1>5, Zenon DEF Successor
<1>8. EvTypeOK'
  BY <1>1, <1>3, <1>6, <1>7
<1>9. Totals'
  <2>1. tail' = Len(popped') % Width
    BY <1>1 DEF Totals
  <2>2. head' = Len(accepted') % Width
    BY <1>3, <1>7
  <2> QED
    BY <1>1, <1>2, <1>3, <2>1, <2>2, EvSizeAssumption DEF Totals
<1>10. Producer'
  BY <1>1 DEF Producer
<1>11. Consumer'
  BY <1>1, <1>2, <1>3 DEF Consumer
<1>12. ASSUME NEW i \in Nat, Len(popped) <= i, i < P + 1
       PROVE  buf[EvSlotOf(i)] = accepted'[i + 1]
  <2>1. CASE i = P
    <3>1. EvSlotOf(head) = EvSlotOf(P)
      BY <1>2, SlotOfTotal
    <3> QED
      BY <1>2, <1>3, <2>1, <3>1
  <2>2. CASE i < P
    <3>1. buf[EvSlotOf(i)] = accepted[i + 1]
      BY <1>12, <2>2 DEF Contents
    <3>2. i + 1 \in 1 .. P
      BY <1>2, <2>2
    <3> QED
      BY <1>3, <3>1, <3>2
  <2> QED
    BY <1>2, <1>12, <2>1, <2>2
<1>13. Contents'
  BY <1>1, <1>3, <1>12 DEF Contents, EvSlotOf
<1>14. ExactlyOnceInOrder'
  BY <1>1, <1>2, <1>3 DEF ExactlyOnceInOrder
<1> QED
  BY <1>8, <1>9, <1>10, <1>11, <1>13, <1>14

\* The consumer's loads of the counters keep the invariant.
LEMMA PopBeginStep ==
  ASSUME IInv, PopBegin PROVE IInv'
<1> USE DEF IInv, EvTypeOK
<1>1. UNCHANGED <<buf, head, tail, dropped, ppc, cell, offered, accepted, popped>>
      /\ tail # head /\ cpc' = "read"
  BY DEF PopBegin, evProducer
<1>2. Len(popped) < Len(accepted)
  BY <1>1, EmptyIsEqual
<1>3. EvTypeOK' /\ Totals' /\ Producer' /\ ExactlyOnceInOrder'
  BY <1>1 DEF Totals, Producer, ExactlyOnceInOrder
<1>4. Contents'
  BY <1>1 DEF Contents, EvSlotOf
<1>5. Consumer'
  BY <1>1, <1>2 DEF Consumer
<1> QED
  BY <1>3, <1>4, <1>5

\* The load of an event from its slot keeps the invariant.
LEMMA PopReadStep ==
  ASSUME IInv, PopRead PROVE IInv'
<1> USE DEF IInv, EvTypeOK
<1>1. /\ UNCHANGED <<buf, head, tail, dropped, ppc, offered, accepted, popped>>
      /\ cpc = "read" /\ cpc' = "advance" /\ cell' = buf[EvSlotOf(tail)]
  BY DEF PopRead, evProducer
<1>2. Len(popped) < Len(accepted) /\ Len(popped) \in Nat
  BY <1>1 DEF Consumer
<1>3. EvSlotOf(tail) = EvSlotOf(Len(popped)) /\ EvSlotOf(Len(popped)) \in 0 .. EvSize - 1
  BY <1>2, SlotOfTotal DEF Totals
<1>4. buf[EvSlotOf(Len(popped))] = accepted[Len(popped) + 1]
  BY <1>2 DEF Contents
<1>5. cell' = accepted[Len(popped) + 1] /\ cell' \in Nat
  BY <1>1, <1>3, <1>4
<1>6. EvTypeOK' /\ Totals' /\ Producer' /\ ExactlyOnceInOrder'
  BY <1>1, <1>5 DEF Totals, Producer, ExactlyOnceInOrder
<1>7. Contents'
  BY <1>1 DEF Contents, EvSlotOf
<1>8. Consumer'
  BY <1>1, <1>2, <1>5 DEF Consumer
<1> QED
  BY <1>6, <1>7, <1>8

\* The consumer's store of tail keeps the invariant.
LEMMA PopAdvanceStep ==
  ASSUME IInv, PopAdvance PROVE IInv'
<1> USE DEF IInv, EvTypeOK
<1> DEFINE Q == Len(popped)
<1>1. /\ UNCHANGED <<buf, head, dropped, ppc, cell, offered, accepted>>
      /\ cpc = "advance" /\ cpc' = "idle"
      /\ tail' = Successor(tail) /\ popped' = Append(popped, cell)
  BY DEF PopAdvance, evProducer
<1>2. /\ Q \in Nat /\ Len(accepted) \in Nat /\ Q < Len(accepted)
      /\ Len(accepted) <= Q + EvSize
      /\ cell = accepted[Q + 1] /\ tail = Q % Width
  BY <1>1 DEF Consumer, Totals
<1>3. /\ popped' \in Seq(Nat) /\ Len(popped') = Q + 1 /\ popped'[Q + 1] = cell
      /\ \A i \in 1 .. Q : popped'[i] = popped[i]
  BY <1>1
<1>4. Width \in Nat /\ Width >= 1
  BY EvSizeAssumption, WidthAssumption
<1>5. ((Q % Width) + 1) % Width = (Q + 1) % Width
  BY <1>2, <1>4, ModSucc, Zenon
<1>6. (Q + 1) % Width \in 0 .. Width - 1
  <2>1. Q + 1 \in Nat
    BY <1>2
  <2> QED
    BY <2>1, <1>4, ModRange, Zenon
<1>7. tail' = (Q + 1) % Width
  BY <1>1, <1>2, <1>5, Zenon DEF Successor
<1>8. EvTypeOK'
  BY <1>1, <1>3, <1>6, <1>7
<1>9. Totals'
  <2>1. head' = Len(accepted') % Width
    BY <1>1 DEF Totals
  <2>2. tail' = Len(popped') % Width
    BY <1>3, <1>7
  <2> QED
    BY <1>1, <1>2, <1>3, <2>1, <2>2, EvSizeAssumption, SMTT(30) DEF Totals
<1>10. Producer'
  BY <1>1, <1>2, <1>3, EvSizeAssumption DEF Producer, EvSlotOf
<1>11. Consumer'
  BY <1>1 DEF Consumer
<1>12. Contents'
  <2>1. ASSUME NEW i \in Nat, Q + 1 <= i, i < Len(accepted)
        PROVE  buf[EvSlotOf(i)] = accepted[i + 1]
    BY <1>2, <2>1 DEF Contents
  <2> QED
    BY <1>1, <1>3, <2>1 DEF Contents
<1>13. ExactlyOnceInOrder'
  BY <1>1, <1>2, <1>3, SMTT(30) DEF ExactlyOnceInOrder
<1> QED
  BY <1>8, <1>9, <1>10, <1>11, <1>12, <1>13

-----------------------------------------------------------------------------
\* The inductive invariant holds in every reachable state of the queue.
THEOREM Invariance == EvSpec => []IInv
<1>1. EvInit => IInv
  <2> SUFFICES ASSUME EvInit PROVE IInv
    OBVIOUS
  <2>1. /\ head = 0 /\ tail = 0 /\ accepted = <<>> /\ popped = <<>>
        /\ Len(accepted) = 0 /\ Len(popped) = 0
    BY DEF EvInit
  <2>2. 0 % Width = 0
    BY EvSizeAssumption, WidthAssumption
  <2>3. EvTypeOK
    BY EvSizeAssumption, WidthAssumption DEF EvInit, EvTypeOK, Empty
  <2>4. Totals
    BY <2>1, <2>2, EvSizeAssumption DEF Totals
  <2> QED
    BY <2>1, <2>3, <2>4 DEF EvInit, IInv, Producer, Consumer, Contents, ExactlyOnceInOrder
<1>2. IInv /\ UNCHANGED evVars => IInv'
  BY DEF evVars, evProducer, evConsumer, IInv, EvTypeOK, Totals, Producer, Consumer,
     Contents, ExactlyOnceInOrder, EvSlotOf
<1>3. IInv /\ [EvNext]_evVars => IInv'
  BY <1>2, PushBeginStep, PushDropStep, PushStoreStep, PushPublishStep,
     PopBeginStep, PopReadStep, PopAdvanceStep DEF EvNext, EvPush, EvPop
<1> QED
  BY <1>1, <1>3, PTL DEF EvSpec

\* Type correctness of tt_evring_push and tt_evring_pop.
THEOREM TypeCorrect == EvSpec => []EvTypeOK
  BY Invariance, PTL DEF IInv

\* The consumer pops exactly the accepted events, once each and in order, for
\* every ring size and however often the 32-bit counters wrap.
THEOREM FirstInFirstOut == EvSpec => []ExactlyOnceInOrder
  BY Invariance, PTL DEF IInv

\* The plain stores and loads of a slot never race.
THEOREM NoSlotRace == EvSpec => []SlotsNotShared
<1>1. IInv => SlotsNotShared
  <2> SUFFICES ASSUME IInv, ppc = "store", cpc = "read" PROVE EvSlotOf(head) # EvSlotOf(tail)
    BY DEF SlotsNotShared
  <2>1. /\ Len(popped) \in Nat /\ Len(accepted) \in Nat
        /\ Len(popped) < Len(accepted) /\ Len(accepted) < Len(popped) + EvSize
        /\ head = Len(accepted) % Width /\ tail = Len(popped) % Width
    BY DEF IInv, EvTypeOK, Totals, Producer, Consumer
  <2>2. EvSlotOf(Len(popped)) # EvSlotOf(Len(accepted))
    BY <2>1, SlotDistinct
  <2> QED
    BY <2>1, <2>2, SlotOfTotal
<1> QED
  BY <1>1, Invariance, PTL
-----------------------------------------------------------------------------
(* Every step of the ring is a step of the queue that tt_ring.h promises, or *)
(* none.  The queue changes where head and tail are stored, and where a push *)
(* finds the ring full.                                                      *)

\* The queue's contents.
Pending == SubSeq(accepted, Len(popped) + 1, Len(accepted))

\* What is in the queue is what was accepted and not yet popped.
LEMMA PendingSeq ==
  ASSUME IInv
  PROVE  /\ Pending \in Seq(Nat)
         /\ Len(Pending) = Len(accepted) - Len(popped)
         /\ \A i \in 1 .. Len(accepted) - Len(popped) : Pending[i] = accepted[Len(popped) + i]
  BY DEF IInv, EvTypeOK, Totals, Pending

\* Nothing the queue is made of changes.
LEMMA QueueStutters ==
  ASSUME UNCHANGED <<accepted, popped>>,
         (offered - (IF ppc \in {"store", "publish"} THEN 1 ELSE 0))' =
           offered - (IF ppc \in {"store", "publish"} THEN 1 ELSE 0),
         (dropped + (IF ppc = "full" THEN 1 ELSE 0))' = dropped + (IF ppc = "full" THEN 1 ELSE 0)
  PROVE  UNCHANGED Queue!qvars
  BY DEF Queue!qvars

\* A push that finds the ring full is the loss of its event.
LEMMA PushBeginRefines ==
  ASSUME IInv, PushBegin PROVE Queue!QNext \/ UNCHANGED Queue!qvars
<1> USE DEF IInv, EvTypeOK
<1>1. UNCHANGED <<dropped, accepted, popped>> /\ ppc = "idle" /\ offered' = offered + 1
      /\ offered \in Nat /\ dropped \in Nat
  BY DEF PushBegin, evConsumer
<1>2. CASE Full(head, tail)
  <2>1. ppc' = "full"
    BY <1>2 DEF PushBegin
  <2>2. Len(Pending) = EvSize
    <3>1. Len(accepted) - Len(popped) >= EvSize
      BY <1>2, UsedCounts DEF Full
    <3> QED
      BY <3>1, PendingSeq, EvSizeAssumption DEF Totals
  <2>3. Queue!Lose
    BY <1>1, <2>1, <2>2 DEF Queue!Lose, Pending
  <2> QED
    BY <2>3 DEF Queue!QNext
<1>3. CASE ~ Full(head, tail)
  <2>1. ppc' = "store"
    BY <1>3 DEF PushBegin
  <2> QED
    BY <1>1, <2>1, QueueStutters
<1> QED
  BY <1>2, <1>3

\* The store of head accepts the event.
LEMMA PushPublishRefines ==
  ASSUME IInv, PushPublish PROVE Queue!Accept
<1> USE DEF IInv, EvTypeOK
<1>1. /\ UNCHANGED <<dropped, offered, popped>> /\ ppc = "publish" /\ ppc' = "idle"
      /\ accepted' = Append(accepted, offered) /\ offered \in Nat /\ dropped \in Nat
  BY DEF PushPublish, evConsumer
<1>2. Len(Pending) < EvSize
  BY <1>1, PendingSeq, EvSizeAssumption DEF Producer
<1>3. Pending' = Append(Pending, offered)
  <2> DEFINE P == Len(accepted)
             Q == Len(popped)
  <2>1. /\ P \in Nat /\ Q \in Nat /\ Q <= P
        /\ accepted' \in Seq(Nat) /\ Len(accepted') = P + 1 /\ accepted'[P + 1] = offered
        /\ \A i \in 1 .. P : accepted'[i] = accepted[i]
    BY <1>1, AppendProperties DEF Totals
  <2>2. Pending' = SubSeq(accepted', Q + 1, P + 1)
    BY <1>1, <2>1 DEF Pending
  <2>3. /\ Pending' \in Seq(Nat) /\ Len(Pending') = P + 1 - Q
        /\ \A i \in 1 .. P + 1 - Q : Pending'[i] = accepted'[Q + i]
    <3>1. \A i \in Q + 1 .. P + 1 : accepted'[i] \in Nat
      BY <2>1
    <3>2. Q + 1 \in Int /\ P + 1 \in Int
      BY <2>1
    <3> HIDE DEF P, Q
    <3> QED
      BY <2>1, <2>2, <3>1, <3>2, SubSeqProperties
  <2>4. /\ Append(Pending, offered) \in Seq(Nat) /\ Len(Append(Pending, offered)) = P + 1 - Q
        /\ \A i \in 1 .. P - Q : Append(Pending, offered)[i] = accepted[Q + i]
        /\ Append(Pending, offered)[P + 1 - Q] = offered
    BY <1>1, <2>1, PendingSeq, AppendProperties
  <2> HIDE DEF P, Q
  <2>5. ASSUME NEW i \in 1 .. P + 1 - Q
        PROVE  Pending'[i] = Append(Pending, offered)[i]
    <3>1. CASE i = P + 1 - Q
      BY <2>1, <2>3, <2>4, <3>1
    <3>2. CASE i \in 1 .. P - Q
      BY <2>1, <2>3, <2>4, <3>2
    <3>3. i = P + 1 - Q \/ i \in 1 .. P - Q
      BY <2>1
    <3> QED
      BY <3>1, <3>2, <3>3, Zenon
  <2> QED
    BY <2>3, <2>4, <2>5, SeqEqual
<1>4. (dropped + (IF ppc = "full" THEN 1 ELSE 0))' = dropped + (IF ppc = "full" THEN 1 ELSE 0)
  BY <1>1
<1>5. /\ offered - (IF ppc \in {"store", "publish"} THEN 1 ELSE 0) + 1 = offered
      /\ (offered - (IF ppc \in {"store", "publish"} THEN 1 ELSE 0))' = offered
  BY <1>1
<1> QED
  BY <1>1, <1>2, <1>3, <1>4, <1>5 DEF Queue!Accept, Pending

\* The store of tail takes the oldest one.
LEMMA PopAdvanceRefines ==
  ASSUME IInv, PopAdvance PROVE Queue!Take
<1> USE DEF IInv, EvTypeOK
<1>1. /\ UNCHANGED <<dropped, offered, accepted, ppc>> /\ cpc = "advance"
      /\ popped' = Append(popped, cell) /\ Len(popped') = Len(popped) + 1
  BY DEF PopAdvance, evProducer
<1>2. Len(popped) < Len(accepted) /\ cell = accepted[Len(popped) + 1]
  BY <1>1 DEF Consumer
<1>3. Len(popped) + 1 \in 1 .. Len(accepted) /\ Len(accepted) \in Len(popped) + 1 .. Len(accepted)
  BY <1>2
<1>4. Head(Pending) = cell /\ Tail(Pending) = SubSeq(accepted, Len(popped) + 1 + 1, Len(accepted))
  BY <1>2, <1>3, HeadTailOfSubSeq DEF Pending
<1>5. Pending # <<>>
  BY <1>2, PendingSeq
<1>6. Pending' = Tail(Pending)
  BY <1>1, <1>4 DEF Pending
<1> QED
  BY <1>1, <1>4, <1>5, <1>6 DEF Queue!Take, Pending

\* tt_evring_push and tt_evring_pop, step by step, are an atomic bounded queue that
\* refuses an event only when it holds Size of them (tt_ring.h:10-14).
THEOREM Refinement == EvSpec => Queue!QSafe
<1>1. EvInit => Queue!QInit
  <2> SUFFICES ASSUME EvInit PROVE Queue!QInit
    OBVIOUS
  <2>1. SubSeq(accepted, Len(popped) + 1, Len(accepted)) = <<>>
    BY SubSeqEmpty DEF EvInit
  <2>2. /\ offered - (IF ppc \in {"store", "publish"} THEN 1 ELSE 0) = 0
        /\ dropped + (IF ppc = "full" THEN 1 ELSE 0) = 0
    <3>1. offered = 0 /\ dropped = 0 /\ ppc \notin {"store", "publish", "full"}
      BY DEF EvInit
    <3>2. /\ (IF ppc \in {"store", "publish"} THEN 1 ELSE 0) = 0
          /\ (IF ppc = "full" THEN 1 ELSE 0) = 0
      BY <3>1
    <3>3. 0 - 0 = 0 /\ 0 + 0 = 0
      OBVIOUS
    <3> QED
      BY <3>1, <3>2, <3>3, Zenon
  <2> QED
    BY <2>1, <2>2, Zenon DEF EvInit, Queue!QInit
<1>2. IInv /\ [EvNext]_evVars => [Queue!QNext]_(Queue!qvars)
  <2> SUFFICES ASSUME IInv, [EvNext]_evVars PROVE Queue!QNext \/ UNCHANGED Queue!qvars
    OBVIOUS
  <2>1. CASE PushBegin
    BY <2>1, PushBeginRefines
  <2>2. CASE PushDrop
    BY <2>2, QueueStutters DEF PushDrop, evConsumer, IInv, EvTypeOK
  <2>3. CASE PushStore
    BY <2>3, QueueStutters DEF PushStore, evConsumer
  <2>4. CASE PushPublish
    BY <2>4, PushPublishRefines DEF Queue!QNext
  <2>5. CASE PopBegin
    BY <2>5, QueueStutters DEF PopBegin, evProducer
  <2>6. CASE PopRead
    BY <2>6, QueueStutters DEF PopRead, evProducer
  <2>7. CASE PopAdvance
    BY <2>7, PopAdvanceRefines DEF Queue!QNext
  <2>8. CASE UNCHANGED evVars
    BY <2>8, QueueStutters DEF evVars, evProducer, evConsumer
  <2> QED
    BY <2>1, <2>2, <2>3, <2>4, <2>5, <2>6, <2>7, <2>8 DEF EvNext, EvPush, EvPop
<1> QED
  BY <1>1, <1>2, Invariance, PTL DEF EvSpec, Queue!QSafe
=============================================================================
