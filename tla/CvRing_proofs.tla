--------------------------- MODULE CvRing_proofs ----------------------------
(***************************************************************************)
(* Proofs about CvRing for every ring size, set of words, set of readers   *)
(* bound on the scans, and slack of the index store less than a ring.      *)
(***************************************************************************)
EXTENDS CvRing, TLAPS

(***************************************************************************)
(* Remainders.                                                             *)
(***************************************************************************)

\* Division with remainder, for a positive divisor.
LEMMA DivMod ==
  ASSUME NEW n \in Nat, NEW d \in Nat, d >= 1
  PROVE  \E q \in Nat, r \in 0 .. d - 1 : n = d * q + r /\ n % d = r
<1>1. /\ n \div d \in Nat
      /\ n % d \in 0 .. d - 1
      /\ n = d * (n \div d) + (n % d)
  BY Z3
<1> QED
  BY <1>1

\* Quotient and remainder are determined by the sum they make.
LEMMA ModUnique ==
  ASSUME NEW q \in Int, NEW p \in Int, NEW d \in Nat, d >= 1,
         NEW r \in 0 .. d - 1, NEW s \in 0 .. d - 1,
         d * q + r = d * p + s
  PROVE  q = p /\ r = s
  BY Z3

\* A remainder read off a sum.
LEMMA ModOf ==
  ASSUME NEW d \in Nat, d >= 1, NEW q \in Nat, NEW r \in 0 .. d - 1
  PROVE  d * q + r \in Nat /\ (d * q + r) % d = r
<1> DEFINE n == d * q + r
<1>1. n \in Nat
  BY Z3
<1> HIDE DEF n
<1>2. PICK p \in Nat, s \in 0 .. d - 1 : n = d * p + s /\ n % d = s
  BY <1>1, DivMod
<1>3. d * p + s = d * q + r
  BY <1>2 DEF n
<1>4. s = r
  BY <1>3, ModUnique
<1> QED
  BY <1>1, <1>2, <1>4 DEF n

\* A remainder is within its bounds.
LEMMA ModRange ==
  ASSUME NEW n \in Nat, NEW d \in Nat, d >= 1
  PROVE  n % d \in 0 .. d - 1
  BY DivMod

\* A number that differs by one divisor has the same remainder.
LEMMA ModShift ==
  ASSUME NEW n \in Nat, NEW d \in Nat, d >= 1
  PROVE  (n + d) % d = n % d
<1>1. PICK q \in Nat, r \in 0 .. d - 1 : n = d * q + r /\ n % d = r
  BY DivMod
<1>2. n + d = d * (q + 1) + r
  BY <1>1, Z3
<1>3. (d * (q + 1) + r) % d = r
  BY ModOf
<1> QED
  BY <1>1, <1>2, <1>3

\* Numbers less than one divisor apart have different remainders.
LEMMA ModDistinct ==
  ASSUME NEW n \in Nat, NEW m \in Nat, NEW d \in Nat, d >= 1, n < m, m < n + d
  PROVE  n % d # m % d
<1>1. PICK q \in Nat, r \in 0 .. d - 1 : n = d * q + r /\ n % d = r
  BY DivMod
<1>2. PICK p \in Nat, s \in 0 .. d - 1 : m = d * p + s /\ m % d = s
  BY DivMod
<1>3. SUFFICES ASSUME r = s PROVE FALSE
  BY <1>1, <1>2
<1>4. m - n = d * (p - q)
  BY <1>1, <1>2, <1>3, Z3
<1>5. CASE p - q >= 1
  BY <1>4, <1>5, Z3
<1>6. CASE p - q <= 0
  BY <1>4, <1>6, Z3
<1> QED
  BY <1>5, <1>6

(***************************************************************************)
(* Arithmetic of the slots: the index masks of tt_ring.c:38 and :67.       *)
(***************************************************************************)

\* The mask maps every index into the buffer.
LEMMA SlotInRange ==
  ASSUME NEW i \in Nat
  PROVE  SlotOf(i) \in 0 .. Size - 1
  BY SizeAssumption, ModRange DEF SlotOf

\* One ring length later comes the same slot.
LEMMA SlotShift ==
  ASSUME NEW i \in Nat
  PROVE  SlotOf(i + Size) = SlotOf(i)
<1>1. Size \in Nat /\ Size >= 1
  BY SizeAssumption
<1> QED
  BY <1>1, ModShift, Zenon DEF SlotOf

\* Two scans less than a ring length apart live in different slots.
LEMMA SlotDistinct ==
  ASSUME NEW i \in Nat, NEW j \in Nat, i < j, j < i + Size
  PROVE  SlotOf(i) # SlotOf(j)
<1>1. Size \in Nat /\ Size >= 1
  BY SizeAssumption
<1> QED
  BY <1>1, ModDistinct, Zenon DEF SlotOf

(***************************************************************************)
(* Type correctness.                                                       *)
(***************************************************************************)

\* Every reachable state is well typed, and the count readers see is at most
\* Slack scans behind the producer's own (tt_ring.c:35-51).
THEOREM TypeCorrect == Spec => []TypeOK
<1>1. Init => TypeOK
  BY SlackAssumption DEF Init, TypeOK, Calloc, Unread
<1>2. TypeOK /\ [Next]_vars => TypeOK'
  <2> SUFFICES ASSUME TypeOK, [Next]_vars PROVE TypeOK'
    OBVIOUS
  <2> USE SlackAssumption DEF TypeOK
  <2>1. ASSUME NEW k \in Words, StoreWord(k) PROVE TypeOK'
    <3>1. SlotOf(w) \in 0 .. Size - 1
      BY SlotInRange
    <3>2. slot' \in [0 .. Size - 1 -> [Words -> Int]]
      BY <2>1, <3>1 DEF StoreWord
    <3> QED
      BY <2>1, <3>2 DEF StoreWord
  <2>2. CASE Publish
    <3>1. w \in Nat /\ widx \in Nat /\ Slack \in Nat
      BY SizeAssumption
    <3>2. w' = w + 1 /\ \E v \in widx .. w' : widx' = v /\ w' - v <= Slack
      BY <2>2, Zenon DEF Publish
    <3>3. w' \in Nat /\ widx' \in Nat /\ widx' <= w' /\ w' <= widx' + Slack
      BY ONLY <3>1, <3>2
    <3>4. UNCHANGED <<slot, rpc, ridx, copied, seen>> /\ written' = {}
      BY <2>2 DEF Publish
    <3> QED
      BY <3>3, <3>4
  <2>3. CASE PublishVisible
    <3>1. w \in Nat /\ widx \in Nat /\ w <= widx + Slack /\ Slack \in Nat
      BY SizeAssumption
    <3>2. w' = w /\ \E v \in widx + 1 .. w : widx' = v
      BY <2>3 DEF PublishVisible
    <3>3. w' \in Nat /\ widx' \in Nat /\ widx' <= w' /\ w' <= widx' + Slack
      BY ONLY <3>1, <3>2
    <3>4. UNCHANGED <<slot, written, rpc, ridx, copied, seen>>
      BY <2>3 DEF PublishVisible
    <3> QED
      BY <3>3, <3>4
  <2>4. ASSUME NEW r \in Readers, NEW idx \in 0 .. MaxScans, GetReject(r, idx)
        PROVE  TypeOK'
    BY <2>4, MaxScansAssumption DEF GetReject, producer, Unread
  <2>5. ASSUME NEW r \in Readers, NEW idx \in 0 .. MaxScans, GetBegin(r, idx)
        PROVE  TypeOK'
    BY <2>5, MaxScansAssumption DEF GetBegin, producer, Unread
  <2>6. ASSUME NEW r \in Readers, NEW k \in Words, GetWord(r, k)
        PROVE  TypeOK'
    <3>1. SlotOf(ridx[r]) \in 0 .. Size - 1
      BY SlotInRange
    <3>2. slot[SlotOf(ridx[r])][k] \in Int
      BY <3>1
    <3>3. copied' \in [Readers -> [Words -> Int]]
      BY <2>6, <3>2 DEF GetWord
    <3> QED
      BY <2>6, <3>3 DEF GetWord
  <2>7. ASSUME NEW r \in Readers, GetCheck(r) PROVE TypeOK'
    BY <2>7 DEF GetCheck
  <2>8. CASE UNCHANGED vars
    BY <2>8 DEF vars
  <2> QED
    BY <2>1, <2>2, <2>3, <2>4, <2>5, <2>6, <2>7, <2>8 DEF Next, Push, Get
<1> QED
  BY <1>1, <1>2, PTL DEF Spec

(***************************************************************************)
(* The inductive invariant.  The slots hold the last Size - 1 scans whole; *)
(* the slot being pushed holds, word by word, the new scan or the one a    *)
(* ring length older.  A reader's word can differ from the scan it asked   *)
(* for only once the producer has begun to overwrite that scan.            *)
(***************************************************************************)

\* Scan i is whole in its slot while the producer is less than a ring ahead.
LiveSlots ==
  \A i \in Nat, k \in Words : (i < w /\ w < i + Size) => slot[SlotOf(i)][k] = i

\* The slot of the scan being pushed.
CurrentSlot ==
  \A k \in Words :
    /\ k \in written => slot[SlotOf(w)][k] = w
    /\ (k \notin written /\ w >= Size) => slot[SlotOf(w)][k] = w - Size

\* What the words a reader has copied so far can be.
CopiedWord(r, k) ==
  \/ copied[r][k] = Unread
  \/ copied[r][k] = ridx[r]
  \/ copied[r][k] = ridx[r] + Size /\ w >= ridx[r] + Size
  \/ w >= ridx[r] + Size + Size

CopyingReaders ==
  \A r \in Readers : rpc[r] = "copy" =>
    /\ ridx[r] < w
    /\ \A k \in Words : CopiedWord(r, k)

\* What a get that returns 0 can hold besides the scan it asked for: words of the
\* scan one ring length later, never of a third.
TornScan ==
  \A r \in Readers : rpc[r] = "ok" =>
    \A k \in Words : copied[r][k] \in {ridx[r], ridx[r] + Size}

SlotInv == TypeOK /\ LiveSlots /\ CurrentSlot
IInv == SlotInv /\ CopyingReaders /\ AcceptedIsExact /\ TornScan

\* A push keeps the slots as described.
LEMMA StoreKeepsSlots ==
  ASSUME SlotInv, TypeOK', NEW k \in Words, StoreWord(k)
  PROVE  LiveSlots' /\ CurrentSlot'
<1> USE DEF SlotInv, TypeOK
<1>1. SlotOf(w) \in 0 .. Size - 1 /\ w' = w
  BY SlotInRange DEF StoreWord
<1>2. ASSUME NEW i \in Nat, NEW m \in Words, i < w, w < i + Size
      PROVE  slot'[SlotOf(i)][m] = i
  <2>1. SlotOf(i) # SlotOf(w) /\ SlotOf(i) \in 0 .. Size - 1
    BY <1>2, SlotDistinct, SlotInRange
  <2>2. slot'[SlotOf(i)] = slot[SlotOf(i)]
    BY <1>1, <2>1 DEF StoreWord
  <2> QED
    BY <1>2, <2>2 DEF LiveSlots
<1>3. LiveSlots'
  BY <1>1, <1>2 DEF LiveSlots, SlotOf
<1>4. slot'[SlotOf(w)][k] = w
  BY <1>1 DEF StoreWord
<1>5. \A m \in Words : m # k => slot'[SlotOf(w)][m] = slot[SlotOf(w)][m]
  BY <1>1 DEF StoreWord
<1>6. CurrentSlot'
  BY <1>1, <1>4, <1>5 DEF CurrentSlot, StoreWord, SlotOf
<1> QED
  BY <1>3, <1>6

\* The store of widx leaves each slot with the scan it is to hold.
LEMMA PublishKeepsSlots ==
  ASSUME SlotInv, TypeOK', Publish
  PROVE  LiveSlots' /\ CurrentSlot'
<1> USE DEF SlotInv, TypeOK
<1>1. w' = w + 1 /\ slot' = slot /\ written' = {} /\ written = Words
  BY DEF Publish
<1>2. ASSUME NEW i \in Nat, NEW m \in Words, i < w + 1, w + 1 < i + Size
      PROVE  slot[SlotOf(i)][m] = i
  <2>1. CASE i = w
    BY <2>1, <1>1 DEF CurrentSlot
  <2>2. CASE i < w
    BY <2>2, <1>2, SizeAssumption DEF LiveSlots
  <2> QED
    BY <1>2, <2>1, <2>2
<1>3. LiveSlots'
  BY <1>1, <1>2 DEF LiveSlots, SlotOf
<1>4. ASSUME NEW m \in Words, w + 1 >= Size
      PROVE  slot[SlotOf(w + 1)][m] = w + 1 - Size
  <2> DEFINE i == w + 1 - Size
  <2>1. i \in Nat /\ i < w /\ w < i + Size /\ i + Size = w + 1
    BY <1>4, SizeAssumption
  <2>2. SlotOf(i + Size) = SlotOf(i)
    BY <2>1, SlotShift
  <2>3. slot[SlotOf(i)][m] = i
    BY <2>1 DEF LiveSlots
  <2> QED
    BY <2>1, <2>2, <2>3
<1>5. CurrentSlot'
  <2>1. SlotOf(w)' = SlotOf(w + 1)
    BY <1>1 DEF SlotOf
  <2>2. ASSUME NEW m \in Words, w' >= Size
        PROVE  slot'[SlotOf(w)'][m] = w' - Size
    <3>1. w + 1 >= Size /\ w' - Size = w + 1 - Size
      BY <1>1, <2>2, SizeAssumption
    <3>2. slot[SlotOf(w + 1)][m] = w + 1 - Size
      BY <3>1, <1>4
    <3> QED
      BY <1>1, <2>1, <2>2, <3>1, <3>2
  <2> QED
    BY <1>1, <2>2 DEF CurrentSlot
<1> QED
  BY <1>3, <1>5

\* The word a get loads is the scan it asked for, unless the producer has begun
\* to overwrite it, and then the scan one ring length later.
LEMMA LoadedWord ==
  ASSUME SlotInv, NEW i \in Nat, i < w, NEW k \in Words
  PROVE  \/ slot[SlotOf(i)][k] = i
         \/ slot[SlotOf(i)][k] = i + Size /\ w >= i + Size
         \/ w >= i + Size + Size
<1> USE DEF SlotInv, TypeOK
<1>1. CASE w < i + Size
  BY <1>1 DEF LiveSlots
<1>2. CASE w = i + Size
  <2>1. SlotOf(w) = SlotOf(i)
    BY <1>2, SlotShift
  <2>2. w >= Size /\ w - Size = i
    BY <1>2, SizeAssumption
  <2>3. slot[SlotOf(w)][k] = w \/ slot[SlotOf(w)][k] = w - Size
    BY <2>2 DEF CurrentSlot
  <2> QED
    BY <1>2, <2>1, <2>2, <2>3
<1>3. CASE w > i + Size /\ w < i + Size + Size
  <2>1. i + Size \in Nat /\ i + Size < w /\ w < (i + Size) + Size
    BY <1>3, SizeAssumption
  <2>2. slot[SlotOf(i + Size)][k] = i + Size
    BY <2>1 DEF LiveSlots
  <2> QED
    BY <2>1, <2>2, SlotShift
<1> QED
  BY <1>1, <1>2, <1>3, SizeAssumption

\* The slots' half of the invariant.
LEMMA SlotsInvariant == Spec => []SlotInv
<1>1. Init => LiveSlots /\ CurrentSlot
  BY SizeAssumption DEF Init, LiveSlots, CurrentSlot
<1>2. SlotInv /\ TypeOK' /\ [Next]_vars => SlotInv'
  <2> SUFFICES ASSUME SlotInv, TypeOK', [Next]_vars
               PROVE  LiveSlots' /\ CurrentSlot'
    BY DEF SlotInv
  <2>1. ASSUME NEW k \in Words, StoreWord(k) PROVE LiveSlots' /\ CurrentSlot'
    BY <2>1, StoreKeepsSlots
  <2>2. CASE Publish
    BY <2>2, PublishKeepsSlots
  <2>3. CASE slot' = slot /\ w' = w /\ written' = written
    BY <2>3 DEF SlotInv, LiveSlots, CurrentSlot, SlotOf
  <2> QED
    BY <2>1, <2>2, <2>3 DEF Next, Push, Get, PublishVisible, GetReject, GetBegin,
       GetWord, GetCheck, producer, vars
<1> QED
  BY <1>1, <1>2, TypeCorrect, PTL DEF Spec, SlotInv

\* A reader in the middle of its copy.
LEMMA CopyingPreserved ==
  ASSUME SlotInv, TypeOK', CopyingReaders, [Next]_vars
  PROVE  CopyingReaders'
<1> USE DEF SlotInv, TypeOK
<1>1. CASE UNCHANGED <<rpc, ridx, copied>> /\ w' >= w
  BY <1>1, SizeAssumption DEF CopyingReaders, CopiedWord
<1>2. ASSUME NEW r \in Readers, NEW idx \in 0 .. MaxScans, GetReject(r, idx)
      PROVE  CopyingReaders'
  BY <1>2 DEF GetReject, producer, CopyingReaders, CopiedWord
<1>3. ASSUME NEW r \in Readers, NEW idx \in 0 .. MaxScans, GetBegin(r, idx)
      PROVE  CopyingReaders'
  BY <1>3, MaxScansAssumption DEF GetBegin, producer, CopyingReaders, CopiedWord
<1>4. ASSUME NEW r \in Readers, NEW k \in Words, GetWord(r, k)
      PROVE  CopyingReaders'
  <2>1. ridx[r] \in Nat /\ ridx[r] < w /\ w' = w
    BY <1>4 DEF GetWord, CopyingReaders
  <2>2. copied'[r][k] = slot[SlotOf(ridx[r])][k]
    BY <1>4 DEF GetWord
  <2>3. CopiedWord(r, k)'
    BY <1>4, <2>1, <2>2, LoadedWord DEF GetWord, CopiedWord
  <2>4. \A m \in Words : m # k => CopiedWord(r, m)'
    BY <1>4, <2>1 DEF GetWord, CopyingReaders, CopiedWord
  <2>5. \A q \in Readers : q # r /\ rpc'[q] = "copy" =>
          ridx'[q] < w' /\ \A m \in Words : CopiedWord(q, m)'
    BY <1>4 DEF GetWord, CopyingReaders, CopiedWord
  <2>6. ridx' = ridx
    BY <1>4 DEF GetWord
  <2> QED
    BY <2>1, <2>3, <2>4, <2>5, <2>6 DEF CopyingReaders
<1>5. ASSUME NEW r \in Readers, GetCheck(r) PROVE CopyingReaders'
  BY <1>5 DEF GetCheck, CopyingReaders, CopiedWord
<1>6. Push \/ UNCHANGED vars => UNCHANGED <<rpc, ridx, copied>> /\ w' >= w
  BY DEF Push, StoreWord, Publish, PublishVisible, vars
<1> QED
  BY <1>1, <1>2, <1>3, <1>4, <1>5, <1>6 DEF Next, Get

\* The verdict of tt_cvring_get: what passes the re-check.
LEMMA CheckAccepts ==
  ASSUME SlotInv, CopyingReaders, NEW r \in Readers, GetCheck(r), rpc'[r] = "ok",
         NEW k \in Words
  PROVE  /\ copied'[r][k] \in {ridx'[r], ridx'[r] + Size}
         /\ seen'[r] - ridx'[r] < Size - Slack => copied'[r][k] = ridx'[r]
<1> USE DEF SlotInv, TypeOK
<1>1. /\ rpc[r] = "copy" /\ copied[r][k] # Unread /\ copied' = copied
      /\ ridx' = ridx /\ seen'[r] = widx /\ widx - ridx[r] <= Size
  <2>1. rpc'[r] = IF Lapped(widx, ridx[r]) THEN "stale" ELSE "ok"
    BY DEF GetCheck
  <2>2. ~ Lapped(widx, ridx[r])
    BY <2>1
  <2>3. widx - ridx[r] <= Size
    BY <2>2, SizeAssumption DEF Lapped
  <2> QED
    BY <2>3 DEF GetCheck
<1>2. CopiedWord(r, k)
  BY <1>1 DEF CopyingReaders
<1>3. w <= widx + Slack /\ Slack \in Nat /\ Slack < Size /\ ridx[r] \in Nat
  BY SlackAssumption, SizeAssumption
<1>4. w < ridx[r] + Size + Size
  BY <1>1, <1>3, SizeAssumption
<1>5. \/ copied[r][k] = ridx[r]
      \/ copied[r][k] = ridx[r] + Size /\ w >= ridx[r] + Size
  BY <1>1, <1>2, <1>4, SizeAssumption DEF CopiedWord
<1>6. widx - ridx[r] < Size - Slack => w < ridx[r] + Size
  BY <1>3, SizeAssumption
<1> QED
  BY <1>1, <1>3, <1>5, <1>6, SizeAssumption

\* Every step keeps the scans that were read as they were.
LEMMA AcceptedPreserved ==
  ASSUME SlotInv, TypeOK', CopyingReaders, AcceptedIsExact, TornScan, [Next]_vars
  PROVE  AcceptedIsExact' /\ TornScan'
<1> USE DEF SlotInv, TypeOK, AcceptedIsExact, TornScan, Exact
<1>1. CASE UNCHANGED <<rpc, ridx, copied, seen>>
  BY <1>1
<1>2. ASSUME NEW r \in Readers, NEW idx \in 0 .. MaxScans,
             GetReject(r, idx) \/ GetBegin(r, idx)
      PROVE  AcceptedIsExact' /\ TornScan'
  BY <1>2, ZenonT(40) DEF GetReject, GetBegin
<1>3. ASSUME NEW r \in Readers, NEW k \in Words, GetWord(r, k)
      PROVE  AcceptedIsExact' /\ TornScan'
  BY <1>3 DEF GetWord
<1>4. ASSUME NEW r \in Readers, GetCheck(r)
      PROVE  AcceptedIsExact' /\ TornScan'
  <2>1. \A q \in Readers : q # r =>
          /\ rpc'[q] = rpc[q] /\ ridx'[q] = ridx[q]
          /\ copied'[q] = copied[q] /\ seen'[q] = seen[q]
    BY <1>4 DEF GetCheck
  <2>2. rpc'[r] = "ok" => \A k \in Words :
          /\ copied'[r][k] \in {ridx'[r], ridx'[r] + Size}
          /\ seen'[r] - ridx'[r] < Size - Slack => copied'[r][k] = ridx'[r]
    BY <1>4, CheckAccepts
  <2> QED
    BY <2>1, <2>2, ZenonT(40)
<1> QED
  BY <1>1, <1>2, <1>3, <1>4 DEF Next, Push, Get, StoreWord, Publish,
     PublishVisible, vars

\* The inductive invariant holds in every reachable state of the ring.
THEOREM Invariance == Spec => []IInv
<1>1. Init => CopyingReaders /\ AcceptedIsExact /\ TornScan
  BY DEF Init, CopyingReaders, AcceptedIsExact, TornScan
<1>2. IInv /\ TypeOK' /\ SlotInv' /\ [Next]_vars => IInv'
  BY CopyingPreserved, AcceptedPreserved DEF IInv
<1> QED
  BY <1>1, <1>2, TypeCorrect, SlotsInvariant, PTL DEF Spec, IInv

\* A successful tt_cvring_get that was less than a full ring behind returned the
\* scan it asked for, untorn, on any number of cores and for any ring.
THEOREM AcceptedReadsAreExact == Spec => []AcceptedIsExact
  BY Invariance, PTL DEF IInv

\* No promise of tt_ring.h, but what CvBlock has to allow for: the words of a get
\* that returns 0 are of the scan asked for or of the one a ring length later.
THEOREM TearsMixTwoScans == Spec => []TornScan
  BY Invariance, PTL DEF IInv
=============================================================================
