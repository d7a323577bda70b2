--------------------------- MODULE CvBlock_proofs ---------------------------
(***************************************************************************)
(* Proofs about CvBlock for every ring size, block length, rate and times  *)
(* of the scans: the search finds no later scan than it should and frames  *)
(* are bracketed by no later ones, exactly so unless a scan was read while *)
(* it was being overwritten; and smoothing starts, in the channels of the  *)
(* block that primes it, from the scans rendered since it was set.         *)
(***************************************************************************)
EXTENDS CvBlock, SequenceTheorems, WellFoundedInduction, TLAPS

TypeOK ==
  /\ stamps \in Seq(Nat) /\ widx \in Nat /\ widx <= Len(stamps)
  /\ pc \in {"idle", "fast", "lo", "search", "a", "b", "frame", "latest"}
  /\ t0 \in Nat /\ w \in Nat /\ first \in Nat
  /\ lo \in Nat /\ hi \in Nat /\ found \in {0, 1} /\ idx \in Nat
  /\ haveB \in BOOLEAN /\ bTime \in Nat
  /\ lapped \in BOOLEAN /\ torn \in BOOLEAN
  /\ out \in Seq([a : Nat, b : Nat])
  /\ ret \in {-1, 0, 1}
  /\ nc \in 0 .. NumCv /\ smooth \in BOOLEAN /\ primed \in 0 .. NumCv
  /\ z \in [Chans -> {"zero", "since", "before"}]
  /\ latest \in Int

\* No two scans have one time.
Ordered == \A i, j \in 1 .. Len(stamps) : i < j => stamps[i] < stamps[j]

InBlock == pc \in {"fast", "lo", "search", "a", "b", "frame"}

\* The scan the search looks for is in the interval it has left, or in an earlier
\* one once a scan was read as it was being overwritten: that makes it later.
Searching ==
  /\ w <= widx
  /\ InBlock => first < w
  /\ pc \in {"fast", "lo"} => lo = first /\ hi = w
  /\ pc = "search" => /\ first <= lo /\ lo < hi /\ hi <= w
                      /\ Stamp(lo) <= t0
                      /\ hi < w => torn = TRUE \/ t0 < Stamp(hi)
  /\ pc \in {"a", "b", "frame"} => first <= idx /\ idx < w
  /\ pc = "a" => IF found = 1
                 THEN /\ Stamp(idx) <= t0
                      /\ idx + 1 < w => torn = TRUE \/ t0 < Stamp(idx + 1)
                 ELSE idx = first /\ (torn = TRUE \/ t0 < Stamp(first))

\* Of the scans a frame may use, a is at or before it, or the first; b is the next,
\* and after the frame; and there is no b only where there is no next or it is lost.
FrameOK(f) ==
  LET a == out[f].a  b == out[f].b IN
  /\ first <= a /\ a < w
  /\ a = first \/ Stamp(a) <= FrameTime(f)
  /\ b = a \/ (b = a + 1 /\ b < w /\ (torn = TRUE \/ FrameTime(f) < Stamp(b)))
  /\ lapped = FALSE /\ a + 1 < w => b = a + 1

Rendered ==
  /\ \A f \in 1 .. Len(out) : FrameOK(f)
  /\ \A f, g \in 1 .. Len(out) : f < g => out[f].a <= out[g].a

\* The pair the next frame will be rendered from, as far as it has moved.
Pair ==
  /\ pc \in {"fast", "lo", "search", "a", "b"} => Len(out) = 0 /\ lapped = FALSE
  /\ pc \in {"b", "frame"} => idx = first \/ Stamp(idx) <= FrameTime(Len(out) + 1)
  /\ pc = "frame" => /\ haveB = TRUE => /\ idx + 1 < w /\ Stamp(idx + 1) <= bTime
                                        /\ torn = TRUE \/ bTime = Stamp(idx + 1)
                     /\ lapped = FALSE /\ idx + 1 < w => haveB = TRUE
                     /\ \A f \in 1 .. Len(out) : out[f].a <= idx

\* A reading is taken between blocks, and counts every scan the block before had.
Reading == latest >= 0 => pc \in {"idle", "latest"} /\ w <= latest + 1

Smoothing ==
  /\ InBlock => nc > 0
  /\ \A c \in 1 .. primed : z[c] = "since"
  /\ pc = "frame" /\ smooth => primed > 0

IInv == TypeOK /\ Ordered /\ Searching /\ Pair /\ Rendered /\ Reading /\ Smoothing
-----------------------------------------------------------------------------
(* The operators the frames are specified by *)

\* A set of integers with an upper bound has a greatest element, and Max is it: the
\* distances to the bound have a least.
LEMMA MaxIs ==
  ASSUME NEW S, S \subseteq Int, S # {}, NEW n \in Int, \A i \in S : i <= n
  PROVE  Max(S) \in S /\ \A i \in S : i <= Max(S)
<1> DEFINE D == {k \in Nat : n - k \in S}
<1>1. D \subseteq Nat /\ D # {}
  <2>1. PICK i \in S : TRUE
    OBVIOUS
  <2>2. n - i \in D
    BY n - (n - i) = i
  <2> QED
    BY <2>2, Zenon
<1>2. PICK d \in D : \A e \in D : ~ (<<e, d>> \in OpToRel(<, Nat))
  <2> HIDE DEF D
  <2> QED
    BY <1>1, NatLessThanWellFounded, WFMin, Zenon
<1>3. \A e \in D : d <= e
  <2> HIDE DEF D
  <2> SUFFICES ASSUME NEW e \in D PROVE d <= e
    BY Zenon
  <2>1. d \in Nat /\ e \in Nat
    BY <1>1
  <2>2. e < d => <<e, d>> \in OpToRel(<, Nat)
    BY <2>1 DEF OpToRel
  <2>3. ~ (e < d)
    BY <1>2, <2>2, Zenon
  <2> QED
    BY <2>1, <2>3
<1>4. PICK m \in S : d = n - m
  BY n - d \in S, d = n - (n - d)
<1>5. \A i \in S : m >= i
  <2> SUFFICES ASSUME NEW i \in S PROVE m >= i
    OBVIOUS
  <2>1. n - i \in D
    BY n - (n - i) = i
  <2>2. d <= n - i
    BY <1>3, <2>1, Zenon
  <2> QED
    BY <1>4, <2>2
<1>6. Max(S) \in S /\ \A y \in S : Max(S) >= y
  BY <1>5, Zenon DEF Max
<1> QED
  BY <1>6

\* The library's maximum of two numbers.
LEMMA MaxOfTwo ==
  ASSUME NEW a \in Int, NEW b \in Int
  PROVE  Max({a, b}) = IF a >= b THEN a ELSE b
<1>1. \E n \in Int : \A i \in {a, b} : i <= n
  <2>1. CASE a >= b
    BY <2>1
  <2>2. CASE a < b
    BY <2>2
  <2> QED
    BY <2>1, <2>2
<1>2. Max({a, b}) \in {a, b} /\ \A i \in {a, b} : i <= Max({a, b})
  <2> {a, b} \subseteq Int /\ {a, b} # {}
    OBVIOUS
  <2> QED
    BY <1>1, MaxIs, Zenon
<1> QED
  BY <1>2

\* The library's minimum of two numbers.
LEMMA MinOfTwo ==
  ASSUME NEW a \in Int, NEW b \in Int
  PROVE  Min({a, b}) = IF a <= b THEN a ELSE b
<1>1. PICK m \in {a, b} : \A y \in {a, b} : m =< y
  <2>1. CASE a <= b
    BY <2>1
  <2>2. CASE b < a
    BY <2>2
  <2> QED
    BY <2>1, <2>2
<1>2. Min({a, b}) \in {a, b} /\ \A y \in {a, b} : Min({a, b}) =< y
  BY <1>1, Zenon DEF Min
<1> QED
  BY <1>2

\* Every scan pushed has its time.
LEMMA StampType ==
  ASSUME TypeOK, NEW i \in Nat, i < Len(stamps)
  PROVE  Stamp(i) \in Nat
  BY DEF TypeOK, Stamp

\* Later scans have later times.
LEMMA StampOrder ==
  ASSUME TypeOK, Ordered, NEW i \in Nat, NEW j \in Nat, i < j, j < Len(stamps)
  PROVE  Stamp(i) < Stamp(j)
<1>1. Len(stamps) \in Nat
  BY DEF TypeOK
<1>2. i + 1 \in 1 .. Len(stamps) /\ j + 1 \in 1 .. Len(stamps) /\ i + 1 < j + 1
  BY <1>1
<1> QED
  BY <1>2, Zenon DEF Ordered, Stamp

\* A get of a scan that is being overwritten may see a later time, not another.
LEMMA SeenIs ==
  ASSUME TypeOK, Ordered, NEW i \in Nat, i < widx, NEW t \in SeenTimes(i)
  PROVE  t \in Nat /\ Stamp(i) <= t /\ (~ Overwriting(i) => t = Stamp(i))
<1>1. i < Len(stamps) /\ Stamp(i) \in Nat /\ Size \in Nat /\ Size >= 2
  BY StampType, SizeAssumption DEF TypeOK
<1>2. CASE t = Stamp(i)
  BY <1>1, <1>2
<1>3. CASE Overwriting(i) /\ t = Stamp(i + Size)
  <2>1. i + Size \in Nat /\ i < i + Size /\ i + Size < Len(stamps)
    BY <1>1, <1>3 DEF Overwriting
  <2>2. Stamp(i) < Stamp(i + Size) /\ Stamp(i + Size) \in Nat
    BY <2>1, StampOrder, StampType
  <2> QED
    BY <1>1, <1>3, <2>2
<1> QED
  BY <1>2, <1>3 DEF SeenTimes

\* The mark a get leaves is not taken back within the block.
LEMMA GotIs ==
  ASSUME torn \in BOOLEAN, NEW i, Got(i)
  PROVE  torn' \in BOOLEAN /\ (torn' = FALSE => torn = FALSE /\ ~ Overwriting(i))
  BY Zenon DEF Got

\* What Newest promises: the newest scan at or before t, if one of the n is.
LEMMA NewestIs ==
  ASSUME TypeOK, NEW n \in Nat, n <= widx, NEW t \in Nat
  PROVE  /\ Newest(t, n) \in -1 .. n - 1
         /\ Newest(t, n) >= 0 => Stamp(Newest(t, n)) <= t
         /\ \A i \in 0 .. n - 1 : Stamp(i) <= t => i <= Newest(t, n)
<1> DEFINE S == {-1} \cup {i \in 0 .. n - 1 : Stamp(i) <= t}
<1>1. S \subseteq Int /\ S # {} /\ \A i \in S : i <= n
  OBVIOUS
<1>2. Newest(t, n) = Max(S)
  BY Zenon DEF Newest
<1>3. Max(S) \in S /\ \A i \in S : i <= Max(S)
  <2> HIDE DEF S
  <2>1. n \in Int
    OBVIOUS
  <2> QED
    BY <1>1, <2>1, MaxIs, Zenon
<1> QED
  BY <1>2, <1>3

\* A scan is the newest at or before t if it is before it and the next is not.
LEMMA NewestUnique ==
  ASSUME TypeOK, Ordered, NEW n \in Nat, n <= widx, NEW t \in Nat,
         NEW a \in 0 .. n - 1, Stamp(a) <= t, a + 1 < n => t < Stamp(a + 1)
  PROVE  Newest(t, n) = a
<1> DEFINE m == Newest(t, n)
<1>1. m \in -1 .. n - 1 /\ (m >= 0 => Stamp(m) <= t) /\ a <= m
  BY NewestIs
<1>2. ASSUME a < m PROVE FALSE
  <2>1. a + 1 \in Nat /\ m \in Nat /\ a + 1 <= m /\ m < Len(stamps)
    BY <1>1, <1>2, SMTT(30) DEF TypeOK
  <2>2. Stamp(a + 1) <= Stamp(m)
    <3>1. CASE a + 1 = m
      BY <3>1, <2>1, StampType
    <3>2. CASE a + 1 < m
      <4>1. Stamp(a + 1) < Stamp(m)
        BY <3>2, <2>1, StampOrder
      <4>2. a + 1 < Len(stamps)
        BY <3>2, <2>1 DEF TypeOK
      <4>3. Stamp(a + 1) \in Nat /\ Stamp(m) \in Nat
        BY <2>1, <4>2, StampType
      <4> QED
        BY <4>1, <4>3
    <3> QED
      BY <2>1, <3>1, <3>2
  <2>3. Stamp(a + 1) \in Nat /\ Stamp(m) \in Nat
    BY <2>1, StampType, SMTT(30) DEF TypeOK
  <2> QED
    BY <1>1, <2>1, <2>2, <2>3
<1> QED
  BY <1>1, <1>2

\* None at or before t is as new as a scan after t.
LEMMA NewestBefore ==
  ASSUME TypeOK, Ordered, NEW n \in Nat, n <= widx, NEW t \in Nat,
         NEW a \in 0 .. n - 1, t < Stamp(a)
  PROVE  Newest(t, n) < a
<1> DEFINE m == Newest(t, n)
<1>1. m \in -1 .. n - 1 /\ (m >= 0 => Stamp(m) <= t)
  BY NewestIs
<1>2. ASSUME a <= m PROVE FALSE
  <2>1. m \in Nat /\ a \in Nat /\ m < Len(stamps) /\ a < Len(stamps)
    BY <1>1, <1>2 DEF TypeOK
  <2>2. Stamp(a) \in Nat /\ Stamp(m) \in Nat /\ Stamp(a) <= Stamp(m)
    <3>1. CASE a = m
      BY <3>1, <2>1, StampType
    <3>2. CASE a < m
      BY <3>2, <2>1, StampOrder, StampType
    <3> QED
      BY <1>2, <2>1, <3>1, <3>2
  <2> QED
    BY <1>1, <2>1, <2>2
<1> QED
  BY <1>1, <1>2

\* A frame is after the one before it.
LEMMA FrameTimes ==
  ASSUME TypeOK, NEW f \in Nat \ {0}
  PROVE  FrameTime(f) \in Nat /\ FrameTime(f) <= FrameTime(f + 1)
<1>1. (f - 1) * Period \in Nat /\ ((f + 1) - 1) * Period = (f - 1) * Period + Period
  BY PeriodAssumption
<1>2. t0 \in Nat
  BY DEF TypeOK
<1> DEFINE p == (f - 1) * Period
           q == ((f + 1) - 1) * Period
<1>3. FrameTime(f) = t0 + p /\ FrameTime(f + 1) = t0 + q
  BY Zenon DEF FrameTime
<1> HIDE DEF p, q
<1> QED
  BY <1>1, <1>2, <1>3, PeriodAssumption DEF p, q
-----------------------------------------------------------------------------
(* The invariant *)

\* What the assumptions on the constants say of them.
LEMMA Assumptions ==
  /\ Size \in Nat /\ Size >= 2 /\ Frames \in Nat /\ NumCv \in Nat /\ NumCv >= 1
  /\ Gaps \subseteq Nat /\ \A g \in Gaps : g > 0
  /\ \A n \in ChanCounts : Min({n, NumCv}) \in 1 .. NumCv
<1>1. ASSUME NEW n \in ChanCounts PROVE Min({n, NumCv}) \in 1 .. NumCv
  BY MinOfTwo, ChansAssumption
<1> QED
  BY <1>1, SizeAssumption, FramesAssumption, ChansAssumption, GapsAssumption

\* The oldest scan the search may look at is one that was pushed.
LEMMA OldestIs ==
  ASSUME NEW n \in Nat
  PROVE  Oldest(n) \in Nat /\ (n > 0 => Oldest(n) < n)
  BY Assumptions DEF Oldest

\* The invariant holds at the start.
LEMMA FirstStates == Init => IInv
<1> SUFFICES ASSUME Init PROVE IInv
  OBVIOUS
<1> USE DEF Init
<1>1. TypeOK
  <2>1. stamps \in Seq(Nat) /\ out \in Seq([a : Nat, b : Nat])
    BY Zenon, EmptySeq
  <2>5. widx \in Nat /\ widx <= Len(stamps) /\ bTime \in Nat /\ torn \in BOOLEAN
    <3>1. Len(stamps) = 0 /\ widx = 0 /\ bTime = 0
      BY EmptySeq
    <3>2. torn \in BOOLEAN
      BY Zenon
    <3>3. widx \in Nat /\ widx <= Len(stamps) /\ bTime \in Nat
      BY ONLY <3>1
    <3> QED
      BY <3>2, <3>3
  <2>2. z \in [Chans -> {"zero", "since", "before"}]
    OBVIOUS
  <2>3. nc \in 0 .. NumCv /\ primed \in 0 .. NumCv /\ latest \in Int /\ ret \in {-1, 0, 1}
        /\ t0 \in Nat /\ w \in Nat /\ first \in Nat /\ lo \in Nat /\ hi \in Nat
        /\ found \in {0, 1} /\ idx \in Nat
    BY Assumptions
  <2>4. /\ pc \in {"idle", "fast", "lo", "search", "a", "b", "frame", "latest"}
        /\ haveB \in BOOLEAN /\ lapped \in BOOLEAN /\ smooth \in BOOLEAN
    OBVIOUS
  <2> QED
    BY <2>1, <2>2, <2>3, <2>4, <2>5, Zenon DEF TypeOK
<1>2. Ordered /\ Searching /\ Pair /\ Rendered /\ Reading /\ Smoothing
  BY DEF Ordered, Searching, InBlock, Pair, Rendered, Reading, Smoothing
<1> QED
  BY <1>1, <1>2 DEF IInv

\* Every step keeps the types.
LEMMA TypeStep ==
  ASSUME TypeOK, Ordered, Searching, [Next]_vars
  PROVE  TypeOK'
<1> USE DEF TypeOK, ring, call, pair, history, filter
<1> USE Assumptions
<1>s. ASSUME NEW i \in Nat, i < widx, NEW t \in SeenTimes(i) PROVE t \in Nat
  <2> HIDE DEF TypeOK
  <2> QED
    BY <1>s, SeenIs
<1>g. ASSUME NEW i, Got(i) PROVE torn' \in BOOLEAN
  BY <1>g, GotIs, Zenon
<1>n. ASSUME NEW i \in Nat, GetNext(i) PROVE haveB' \in BOOLEAN /\ lapped' \in BOOLEAN /\ bTime' \in Nat /\ torn' \in BOOLEAN
  <2>1. haveB' \in BOOLEAN /\ lapped' \in BOOLEAN
    BY <1>n, Zenon DEF GetNext
  <2>2. CASE haveB' = TRUE
    <3>1. i + 1 < widx /\ bTime' \in SeenTimes(i + 1) /\ Got(i + 1)
      BY <1>n, <2>2 DEF GetNext, Readable
    <3> QED
      BY <2>1, <3>1, <1>s, <1>g
  <2>3. CASE haveB' = FALSE
    <3>1. bTime' = 0 /\ torn' = torn
      BY <1>n, <2>3, Zenon DEF GetNext
    <3> QED
      BY <2>1, <3>1
  <2> QED
    BY <2>1, <2>2, <2>3
<1>1. ASSUME NEW gap \in Gaps, PushScan(gap) PROVE TypeOK'
  BY <1>1, AppendProperties DEF PushScan, Stamp
<1>16. CASE Publish
  BY <1>16 DEF Publish
<1>2. ASSUME NEW t \in 0 .. LatestTime + 1, Begin(t) PROVE TypeOK'
  <2>1. t \in Nat
    <3>1. CASE widx = 0
      BY <3>1 DEF LatestTime
    <3>2. CASE widx # 0
      <4>1. widx - 1 \in Nat /\ widx - 1 < Len(stamps)
        BY <3>2
      <4> HIDE DEF TypeOK
      <4>2. Stamp(widx - 1) \in Nat
        BY <4>1, StampType
      <4> QED
        BY <3>2, <4>2 DEF LatestTime
    <3> QED
      BY <3>1, <3>2
  <2>2. widx \in Nat /\ Oldest(widx) \in Nat
    BY OldestIs
  <2>3. nc' \in 0 .. NumCv
    BY <1>2 DEF Begin
  <2>4. out' \in Seq([a : Nat, b : Nat])
    BY <1>2, EmptySeq, Zenon DEF Begin
  <2>5. pc' \in {"idle", "fast"} /\ ret' \in {-1, 1}
    BY <1>2 DEF Begin, Fail
  <2>6. /\ t0' \in Nat /\ w' \in Nat /\ first' \in Nat /\ lo' \in Nat /\ hi' \in Nat
        /\ latest' \in Int
    <3>1. /\ t0' = t /\ w' = widx /\ first' = Oldest(widx) /\ lo' = first' /\ hi' = widx
          /\ latest' = -1
      BY <1>2, Zenon DEF Begin
    <3> HIDE DEF TypeOK
    <3> QED
      BY <2>1, <2>2, <3>1
  <2>7. UNCHANGED <<ring, found, pair, smooth, primed, z>>
    BY <1>2 DEF Begin
  <2>9. lapped' \in BOOLEAN /\ torn' \in BOOLEAN
    BY <1>2, Zenon DEF Begin
  <2>8. pc' \in {"idle", "fast", "lo", "search", "a", "b", "frame", "latest"}
        /\ ret' \in {-1, 0, 1}
    BY <2>5
  <2> QED
    BY <2>3, <2>4, <2>6, <2>7, <2>8, <2>9, Zenon
<1>3. CASE FindFast
  BY <1>3, <1>g DEF FindFast, Searching, InBlock
<1>4. CASE FindLo
  BY <1>4, <1>g DEF FindLo, Fail
<1>5. CASE FindMid
  BY <1>5, <1>g DEF FindMid, Fail
<1>6. CASE FindDone
  BY <1>6 DEF FindDone
<1>7. CASE GetA
  BY <1>7, <1>g DEF GetA, Fail
<1>8. CASE GetB
  BY <1>8, <1>n DEF GetB, Prime
<1>9. CASE Advance
  BY <1>9, <1>n DEF Advance
<1>10. CASE Render
  BY <1>10 DEF Render
<1>11. CASE Finish
  BY <1>11 DEF Finish
<1>12. ASSUME NEW on \in BOOLEAN, SetSmoothing(on) PROVE TypeOK'
  BY <1>12 DEF SetSmoothing
<1>13. CASE LatestCount
  BY <1>13 DEF LatestCount
<1>14. CASE LatestGet
  BY <1>14 DEF LatestGet
<1>15. CASE UNCHANGED vars
  BY <1>15 DEF vars
<1> QED
  BY <1>1, <1>2, <1>3, <1>4, <1>5, <1>6, <1>7, <1>8, <1>9, <1>10, <1>11, <1>12, <1>13,
     <1>14, <1>15, <1>16 DEF Next, HostRenders, Block

\* The scans pushed only grow in number, so nothing said of a scan is undone.
LEMMA ScansStay ==
  ASSUME TypeOK, TypeOK', [Next]_vars
  PROVE  widx <= widx' /\ \A i \in 0 .. widx - 1 : Stamp(i)' = Stamp(i)
<1>1. ASSUME NEW gap \in Gaps, PushScan(gap)
      PROVE  widx <= widx' /\ \A i \in 0 .. widx - 1 : Stamp(i)' = Stamp(i)
  BY <1>1, AppendProperties, SMTT(30) DEF PushScan, TypeOK, Stamp
<1>2. ASSUME stamps' = stamps, widx <= widx'
      PROVE  widx <= widx' /\ \A i \in 0 .. widx - 1 : Stamp(i)' = Stamp(i)
  BY <1>2 DEF TypeOK, Stamp
<1>3. (\E gap \in Gaps : PushScan(gap)) \/ (stamps' = stamps /\ widx <= widx')
  <2>1. widx \in Nat /\ Len(stamps) \in Nat
    BY DEF TypeOK
  <2>2. CASE Publish
    BY <2>1, <2>2 DEF Publish
  <2>3. (\E gap \in Gaps : PushScan(gap)) \/ Publish \/ UNCHANGED ring
    BY DEF ring, Next, HostRenders, Block, Begin, FindFast, FindLo, FindMid, FindDone,
           GetA, GetB, Advance, Render, Finish, SetSmoothing, LatestCount, LatestGet, vars
  <2> QED
    BY <2>1, <2>2, <2>3 DEF ring
<1> QED
  BY <1>1, <1>2, <1>3

\* Every step keeps the scans in order.
LEMMA OrderedStep ==
  ASSUME TypeOK, Ordered, [Next]_vars
  PROVE  Ordered'
<1>1. ASSUME NEW gap \in Gaps, PushScan(gap) PROVE Ordered'
  <2> DEFINE n == Len(stamps)
             s == gap + (IF stamps = <<>> THEN 0 ELSE Stamp(Len(stamps) - 1))
  <2>1. stamps \in Seq(Nat) /\ n \in Nat /\ gap \in Nat /\ gap > 0
    BY Assumptions DEF TypeOK
  <2>2. s \in Nat /\ \A i \in 1 .. n : stamps[i] < s
    <3>1. CASE stamps = <<>>
      BY <2>1, <3>1
    <3>2. CASE stamps # <<>>
      <4>1. n > 0 /\ s = gap + stamps[n] /\ stamps[n] \in Nat
        BY <2>1, <3>2 DEF Stamp
      <4>2. \A i \in 1 .. n : stamps[i] \in Nat /\ (i < n => stamps[i] < stamps[n])
        BY <2>1, <4>1 DEF Ordered
      <4> HIDE DEF s, n
      <4> QED
        BY <2>1, <4>1, <4>2, SMTT(30)
    <3> QED
      BY <3>1, <3>2
  <2>3. stamps' = Append(stamps, s)
    BY <1>1 DEF PushScan
  <2> HIDE DEF s
  <2>4. /\ Len(stamps') = n + 1
        /\ \A i \in 1 .. n : stamps'[i] = stamps[i]
        /\ stamps'[n + 1] = s
    BY <2>1, <2>2, <2>3, AppendProperties
  <2> QED
    BY <2>1, <2>2, <2>4, SMTT(30) DEF Ordered
<1>2. ASSUME stamps' = stamps PROVE Ordered'
  BY <1>2 DEF Ordered
<1>3. (\E gap \in Gaps : PushScan(gap)) \/ stamps' = stamps
  BY DEF ring, Next, Publish, HostRenders, Block, Begin, FindFast, FindLo, FindMid, FindDone, GetA, GetB,
         Advance, Render, Finish, SetSmoothing, LatestCount, LatestGet, vars
<1> QED
  BY <1>1, <1>2, <1>3

\* The ring counts its scans, before a step and after it.
LEMMA WidxType ==
  ASSUME TypeOK, TypeOK'
  PROVE  widx \in Nat /\ widx' \in Nat
  BY Zenon DEF TypeOK

\* Every step keeps the search's bounds around the newest scan.
LEMMA SearchingStep ==
  ASSUME TypeOK, TypeOK', Ordered, Searching, Pair, [Next]_vars
  PROVE  Searching'
<1>0. widx \in Nat /\ widx' \in Nat /\ widx <= widx' /\ \A i \in 0 .. widx - 1 : Stamp(i)' = Stamp(i)
  <2>1. widx \in Nat /\ widx' \in Nat
    BY WidxType, Zenon
  <2> QED
    BY <2>1, ScansStay, Zenon
<1>t. /\ w \in Nat /\ first \in Nat /\ lo \in Nat /\ hi \in Nat /\ idx \in Nat
      /\ t0 \in Nat /\ torn \in BOOLEAN /\ torn' \in BOOLEAN
      /\ \A i \in 0 .. widx - 1 : Stamp(i) \in Nat
  <2>1. ASSUME NEW i \in 0 .. widx - 1 PROVE Stamp(i) \in Nat
    <3>1. widx <= Len(stamps) /\ Len(stamps) \in Nat
      BY DEF TypeOK
    <3>2. i \in Nat /\ i < Len(stamps)
      BY <1>0, <3>1
    <3> QED
      BY <3>2, StampType
  <2> QED
    BY <2>1 DEF TypeOK
<1>s. ASSUME NEW i \in Nat, i < widx, Got(i), NEW t \in SeenTimes(i)
      PROVE  /\ t \in Nat /\ Stamp(i) <= t /\ (torn' = FALSE => t = Stamp(i))
             /\ torn' = FALSE => torn = FALSE
  BY <1>t, <1>s, SeenIs, GotIs
<1> USE DEF ring, call, pair, history, filter, Searching, InBlock
<1>1. ASSUME NEW gap \in Gaps, PushScan(gap) PROVE Searching'
  BY <1>0, <1>t, <1>1 DEF PushScan
<1>16. CASE Publish
  BY <1>0, <1>t, <1>16 DEF Publish
<1>2. ASSUME NEW t \in 0 .. LatestTime + 1, Begin(t) PROVE Searching'
  BY <1>0, <1>2, OldestIs, SMTT(30) DEF Begin, Fail
<1>u. ASSUME UNCHANGED ring, NEW i PROVE Stamp(i)' = Stamp(i)
  BY <1>u DEF Stamp
<1>3. CASE FindFast
  <2>1. /\ pc = "fast" /\ lo = first /\ hi = w /\ first < w /\ w <= widx
        /\ UNCHANGED <<ring, call, lo, hi>>
    BY <1>3 DEF FindFast
  <2>2. \/ pc' = "lo"
        \/ /\ pc' = "a" /\ idx' = w - 1 /\ found' = 1 /\ Readable(w - 1) /\ Got(w - 1)
           /\ \E t \in SeenTimes(w - 1) : t <= t0
    BY <1>3 DEF FindFast
  <2>3. CASE pc' = "lo"
    BY <1>t, <2>1, <2>3
  <2>4. CASE pc' = "a"
    <3>1. PICK t \in SeenTimes(w - 1) : t <= t0
      BY <2>2, <2>4
    <3>2. w - 1 \in Nat /\ w - 1 < widx /\ Got(w - 1) /\ idx' = w - 1 /\ found' = 1
      BY <1>0, <1>t, <2>1, <2>2, <2>4
    <3>3. t \in Nat /\ Stamp(w - 1) <= t
      BY <1>s, <3>2
    <3>4. Stamp(w - 1) <= t0 /\ Stamp(w - 1)' = Stamp(w - 1)
      BY <1>0, <1>t, <1>u, <2>1, <3>1, <3>2, <3>3
    <3> QED
      BY <1>t, <2>1, <2>4, <3>2, <3>4
  <2> QED
    BY <2>2, <2>3, <2>4
<1>4. CASE FindLo
  <2>1. /\ pc = "lo" /\ lo = first /\ hi = w /\ first < w /\ w <= widx
        /\ UNCHANGED <<ring, call, lo, hi>>
    BY <1>4 DEF FindLo
  <2>2. \/ pc' = "idle"
        \/ /\ Got(lo)
           /\ \E t \in SeenTimes(lo) : \/ t > t0 /\ pc' = "a" /\ idx' = lo /\ found' = 0
                                       \/ ~ (t > t0) /\ pc' = "search"
    BY <1>4 DEF FindLo, Fail
  <2>3. CASE pc' = "idle"
    BY <1>t, <2>1, <2>3
  <2>4. CASE pc' # "idle"
    <3>1. PICK t \in SeenTimes(lo) : \/ t > t0 /\ pc' = "a" /\ idx' = lo /\ found' = 0
                                     \/ ~ (t > t0) /\ pc' = "search"
      BY <2>2, <2>4, Zenon
    <3>2. lo \in Nat /\ lo < widx /\ Got(lo)
      BY <1>0, <1>t, <2>1, <2>2, <2>4
    <3>3. t \in Nat /\ Stamp(lo) <= t /\ Stamp(lo) \in Nat /\ (torn' = FALSE => t = Stamp(lo))
      <4>1. t \in Nat /\ Stamp(lo) <= t /\ (torn' = FALSE => t = Stamp(lo))
        BY <1>s, <3>2, Zenon
      <4> QED
        BY <1>0, <1>t, <3>2, <4>1
    <3>4. Stamp(lo)' = Stamp(lo) /\ Stamp(first)' = Stamp(lo)
      BY <1>u, <2>1 DEF Stamp
    <3>5. CASE pc' = "a"
      BY <1>t, <2>1, <3>1, <3>3, <3>4, <3>5
    <3>6. CASE pc' = "search"
      BY <1>t, <2>1, <3>1, <3>3, <3>4, <3>6
    <3> QED
      BY <3>1, <3>5, <3>6
  <2> QED
    BY <2>3, <2>4
<1>5. CASE FindMid
  <2> DEFINE mid == lo + (hi - lo) \div 2
  <2>1. /\ pc = "search" /\ first <= lo /\ lo < hi /\ hi <= w /\ w <= widx /\ first < w
        /\ hi - lo > 1 /\ Stamp(lo) <= t0 /\ (hi < w => torn = TRUE \/ t0 < Stamp(hi))
        /\ UNCHANGED <<ring, call>>
    BY <1>5 DEF FindMid
  <2>2. mid \in Nat /\ lo < mid /\ mid < hi
    BY <1>t, <2>1
  <2>3. \/ pc' = "idle"
        \/ /\ Got(mid) /\ pc' = pc
           /\ \E t \in SeenTimes(mid) : \/ t <= t0 /\ lo' = mid /\ hi' = hi
                                        \/ ~ (t <= t0) /\ hi' = mid /\ lo' = lo
    BY <1>5, Zenon DEF FindMid, Fail
  <2> HIDE DEF mid
  <2>4. CASE pc' = "idle"
    BY <1>t, <2>1, <2>4
  <2>5. CASE pc' # "idle"
    <3>1. PICK t \in SeenTimes(mid) : \/ t <= t0 /\ lo' = mid /\ hi' = hi
                                      \/ ~ (t <= t0) /\ hi' = mid /\ lo' = lo
      BY <2>3, <2>5
    <3>2. mid < widx /\ Got(mid) /\ pc' = "search"
      BY <1>0, <1>t, <2>1, <2>2, <2>3, <2>5
    <3>3. /\ t \in Nat /\ Stamp(mid) <= t /\ Stamp(mid) \in Nat
          /\ torn' = FALSE => t = Stamp(mid) /\ torn = FALSE
      <4>1. /\ t \in Nat /\ Stamp(mid) <= t
            /\ torn' = FALSE => t = Stamp(mid) /\ torn = FALSE
        BY <1>s, <2>2, <3>2, Zenon
      <4> QED
        BY <1>0, <1>t, <2>2, <3>2, <4>1
    <3>4. stamps' = stamps
      BY <2>1
    <3>5. CASE t <= t0
      <4>1. lo' = mid /\ hi' = hi /\ stamps'[lo' + 1] = Stamp(mid) /\ stamps'[hi' + 1] = Stamp(hi)
        BY <3>1, <3>4, <3>5 DEF Stamp
      <4>2. Stamp(mid) <= t0
        BY <1>t, <3>3, <3>5
      <4> QED
        BY <1>t, <2>1, <2>2, <3>2, <3>3, <4>1, <4>2 DEF Stamp
    <3>6. CASE ~ (t <= t0)
      <4>1. lo' = lo /\ hi' = mid /\ stamps'[hi' + 1] = Stamp(mid) /\ stamps'[lo' + 1] = Stamp(lo)
        BY <3>1, <3>4, <3>6 DEF Stamp
      <4>2. torn' = TRUE \/ t0 < Stamp(mid)
        BY <1>t, <3>3, <3>6
      <4> QED
        BY <1>t, <2>1, <2>2, <3>2, <3>3, <4>1, <4>2 DEF Stamp
    <3> QED
      BY <3>5, <3>6
  <2> QED
    BY <2>4, <2>5
<1>6. CASE FindDone
  BY <1>0, <1>t, <1>6 DEF FindDone
<1>7. CASE GetA
  BY <1>0, <1>t, <1>7 DEF GetA, Fail
<1>8. CASE GetB
  BY <1>0, <1>t, <1>8 DEF GetB, GetNext
<1>9. CASE Advance
  <2>1. haveB = TRUE
    BY <1>9, Zenon DEF Advance, PastB, TypeOK
  <2>2. idx' = idx + 1 /\ idx + 1 < w /\ pc' = "frame" /\ UNCHANGED <<ring, call, lo, hi>>
    <3>1. pc = "frame" /\ UNCHANGED <<ring, pc, call, lo, hi>> /\ idx' = idx + 1
      BY <1>9 DEF Advance
    <3>2. idx + 1 < w
      BY <2>1, <3>1, Zenon DEF Pair
    <3> QED
      BY <3>1, <3>2
  <2>3. first <= idx /\ w <= widx /\ first < w
    BY <1>9 DEF Advance
  <2> QED
    BY <1>t, <2>2, <2>3
<1>10. CASE Render
  BY <1>0, <1>t, <1>10 DEF Render
<1>11. CASE Finish
  BY <1>0, <1>t, <1>11 DEF Finish
<1>12. ASSUME NEW on \in BOOLEAN, SetSmoothing(on) PROVE Searching'
  BY <1>0, <1>t, <1>12 DEF SetSmoothing
<1>13. CASE LatestCount
  BY <1>0, <1>t, <1>13 DEF LatestCount
<1>14. CASE LatestGet
  BY <1>0, <1>t, <1>14 DEF LatestGet
<1>15. CASE UNCHANGED vars
  BY <1>0, <1>t, <1>15 DEF vars
<1> QED
  BY <1>1, <1>2, <1>3, <1>4, <1>5, <1>6, <1>7, <1>8, <1>9, <1>10, <1>11, <1>12, <1>13,
     <1>14, <1>15, <1>16 DEF Next, HostRenders, Block
\* Every step keeps the pair of scans a frame is rendered from.
LEMMA PairStep ==
  ASSUME TypeOK, TypeOK', Ordered, Searching, Pair, [Next]_vars
  PROVE  Pair'
<1>0. widx \in Nat /\ widx' \in Nat /\ widx <= widx' /\ \A i \in 0 .. widx - 1 : Stamp(i)' = Stamp(i)
  <2>1. widx \in Nat /\ widx' \in Nat
    BY WidxType, Zenon
  <2> QED
    BY <2>1, ScansStay, Zenon
<1>t. /\ w \in Nat /\ first \in Nat /\ idx \in Nat /\ t0 \in Nat /\ Len(out) \in Nat
      /\ haveB \in BOOLEAN /\ lapped \in BOOLEAN /\ torn \in BOOLEAN /\ torn' \in BOOLEAN
      /\ bTime \in Nat
      /\ \A i \in 0 .. widx - 1 : Stamp(i) \in Nat
      /\ \A f \in 1 .. Len(out) : out[f].a \in Nat /\ out[f].b \in Nat
  <2>1. ASSUME NEW i \in 0 .. widx - 1 PROVE Stamp(i) \in Nat
    <3>1. widx <= Len(stamps) /\ Len(stamps) \in Nat
      BY DEF TypeOK
    <3>2. i \in Nat /\ i < Len(stamps)
      BY <1>0, <3>1
    <3> QED
      BY <3>2, StampType
  <2>2. ASSUME NEW f \in 1 .. Len(out) PROVE out[f].a \in Nat /\ out[f].b \in Nat
    <3>1. out \in Seq([a : Nat, b : Nat])
      BY Zenon DEF TypeOK
    <3>2. out[f] \in [a : Nat, b : Nat]
      BY <3>1, ElementOfSeq, Zenon
    <3> QED
      BY <3>2
  <2>3. /\ haveB \in BOOLEAN /\ lapped \in BOOLEAN /\ torn \in BOOLEAN /\ torn' \in BOOLEAN
        /\ bTime \in Nat
    BY Zenon DEF TypeOK
  <2>4. w \in Nat /\ first \in Nat /\ idx \in Nat /\ t0 \in Nat /\ Len(out) \in Nat
    BY DEF TypeOK
  <2> QED
    BY <2>1, <2>2, <2>3, <2>4, Zenon
<1>f. /\ FrameTime(1) = t0 /\ FrameTime(Len(out) + 1) \in Nat
      /\ FrameTime(Len(out) + 1) <= FrameTime(Len(out) + 2) /\ FrameTime(Len(out) + 2) \in Nat
  <2>1. FrameTime(1) = t0 + 0 * Period
    BY DEF FrameTime
  <2>2. \A f \in Nat \ {0} : FrameTime(f) \in Nat /\ FrameTime(f) <= FrameTime(f + 1)
    BY FrameTimes
  <2>3. Len(out) + 1 \in Nat \ {0} /\ Len(out) + 2 \in Nat \ {0} /\ (Len(out) + 1) + 1 = Len(out) + 2
    BY <1>t
  <2>4. 0 * Period = 0 /\ t0 + 0 = t0
    BY <1>t, PeriodAssumption
  <2> QED
    BY <2>1, <2>2, <2>3, <2>4
<1>g. ASSUME UNCHANGED t0, NEW f PROVE FrameTime(f)' = FrameTime(f)
  BY <1>g DEF FrameTime
\* A b that was fetched, and its time; and a mark that stays.
<1>n. ASSUME NEW i \in Nat, GetNext(i), w <= widx
      PROVE  /\ haveB' = TRUE => /\ i + 1 < w /\ Stamp(i + 1) <= bTime'
                                 /\ torn' = TRUE \/ bTime' = Stamp(i + 1)
             /\ lapped' = FALSE => lapped = FALSE
             /\ lapped' = FALSE /\ i + 1 < w => haveB' = TRUE
             /\ torn' = FALSE => torn = FALSE
  <2>1. /\ lapped' = FALSE => lapped = FALSE
        /\ lapped' = FALSE /\ i + 1 < w => haveB' = TRUE
        /\ haveB' = TRUE => i + 1 < w /\ bTime' \in SeenTimes(i + 1) /\ Got(i + 1)
        /\ haveB' = FALSE => torn' = torn
        /\ haveB' \in BOOLEAN
    <3>1. GetNext(i) /\ lapped \in BOOLEAN
      BY <1>t, <1>n, Zenon
    <3>2. CASE i + 1 < w /\ Readable(i + 1)
      BY <3>1, <3>2, Zenon DEF GetNext
    <3>3. CASE i + 1 < w /\ ~ Readable(i + 1)
      BY <3>1, <3>3, Zenon DEF GetNext
    <3>4. CASE ~ (i + 1 < w)
      BY <3>1, <3>4, Zenon DEF GetNext
    <3> QED
      BY <3>2, <3>3, <3>4, Zenon
  <2>2. CASE haveB' = TRUE
    <3>1. i + 1 \in Nat /\ i + 1 < widx /\ Got(i + 1) /\ bTime' \in SeenTimes(i + 1)
      BY <1>0, <1>t, <1>n, <2>1, <2>2
    <3>2. /\ Stamp(i + 1) <= bTime' /\ (~ Overwriting(i + 1) => bTime' = Stamp(i + 1))
          /\ torn' = FALSE => torn = FALSE /\ ~ Overwriting(i + 1)
      BY <1>t, <3>1, SeenIs, GotIs
    <3> QED
      BY <1>t, <2>1, <2>2, <3>2
  <2>3. CASE haveB' = FALSE
    BY <1>t, <2>1, <2>3
  <2> QED
    BY <2>1, <2>2, <2>3
<1> USE DEF ring, call, pair, history, filter, Pair
<1>x. ASSUME UNCHANGED <<pc, call, pair, out, history>> PROVE Pair'
  <2>1. FrameTime(Len(out) + 1)' = FrameTime(Len(out) + 1)
    BY <1>x, <1>g DEF FrameTime
  <2>2. pc \in {"b", "frame"} => idx \in 0 .. widx - 1
    BY <1>0, <1>t DEF Searching, InBlock
  <2>3. pc = "frame" /\ haveB = TRUE => idx + 1 \in 0 .. widx - 1
    BY <1>0, <1>t DEF Searching
  <2>4. pc \in {"b", "frame"} => stamps'[idx + 1] = stamps[idx + 1]
    BY <1>0, <2>2 DEF Stamp
  <2>5. pc = "frame" /\ haveB = TRUE => stamps'[(idx + 1) + 1] = stamps[(idx + 1) + 1]
    BY <1>0, <2>3 DEF Stamp
  <2>6. FrameTime(Len(out) + 1)' \in Nat
    BY <1>f, <2>1
  <2> DEFINE ft == FrameTime(Len(out) + 1)
  <2>7. ft' = ft /\ Pair
    BY <2>1, Zenon
  <2>8. /\ pc \in {"fast", "lo", "search", "a", "b"} => Len(out) = 0 /\ lapped = FALSE
        /\ pc \in {"b", "frame"} => idx = first \/ stamps[idx + 1] <= ft
        /\ pc = "frame" => /\ haveB = TRUE => /\ idx + 1 < w /\ stamps[(idx + 1) + 1] <= bTime
                                              /\ torn = TRUE \/ bTime = stamps[(idx + 1) + 1]
                           /\ lapped = FALSE /\ idx + 1 < w => haveB = TRUE
                           /\ \A f \in 1 .. Len(out) : out[f].a <= idx
    BY <2>7, Zenon DEF Stamp
  <2> HIDE DEF ft, Pair
  <2>9. /\ pc' = pc /\ idx' = idx /\ haveB' = haveB /\ bTime' = bTime /\ out' = out
        /\ lapped' = lapped /\ torn' = torn /\ w' = w /\ first' = first
    BY <1>x
  <2>10. (/\ pc \in {"fast", "lo", "search", "a", "b"} => Len(out) = 0 /\ lapped = FALSE
          /\ pc \in {"b", "frame"} => idx = first \/ stamps[idx + 1] <= FrameTime(Len(out) + 1)
          /\ pc = "frame" => /\ haveB = TRUE => /\ idx + 1 < w /\ stamps[(idx + 1) + 1] <= bTime
                                                /\ torn = TRUE \/ bTime = stamps[(idx + 1) + 1]
                             /\ lapped = FALSE /\ idx + 1 < w => haveB = TRUE
                             /\ \A f \in 1 .. Len(out) : out[f].a <= idx)'
    <3>1. ft' = FrameTime(Len(out) + 1)'
      BY Zenon DEF ft
    <3> QED
      BY <2>4, <2>5, <2>7, <2>8, <2>9, <3>1
  <2> QED
    BY <2>10, Zenon DEF Pair, Stamp
<1>16. CASE Publish
  BY <1>x, <1>16 DEF Publish
<1>1. ASSUME NEW gap \in Gaps, PushScan(gap) PROVE Pair'
  BY <1>x, <1>1 DEF PushScan
<1>2. ASSUME NEW t \in 0 .. LatestTime + 1, Begin(t) PROVE Pair'
  BY <1>2, EmptySeq DEF Begin, Fail
<1>3. CASE FindFast
  BY <1>0, <1>t, <1>3 DEF FindFast
<1>4. CASE FindLo
  BY <1>0, <1>t, <1>4 DEF FindLo, Fail
<1>5. CASE FindMid
  BY <1>0, <1>t, <1>5 DEF FindMid, Fail
<1>6. CASE FindDone
  BY <1>0, <1>t, <1>6 DEF FindDone
<1>7. CASE GetA
  BY <1>0, <1>t, <1>7, <1>f, <1>g DEF GetA, Fail, Searching, InBlock
<1>8. CASE GetB
  <2>1. /\ haveB' = TRUE => /\ idx + 1 < w /\ Stamp(idx + 1) <= bTime'
                            /\ torn' = TRUE \/ bTime' = Stamp(idx + 1)
        /\ lapped' = FALSE => lapped = FALSE
        /\ lapped' = FALSE /\ idx + 1 < w => haveB' = TRUE
    <3>1. GetNext(idx) /\ w <= widx /\ idx \in Nat
      BY <1>t, <1>8 DEF GetB, Searching
    <3> QED
      BY <1>n, <3>1, Zenon
  <2>2. pc = "b" /\ pc' = "frame" /\ UNCHANGED <<ring, call, idx, out>>
    BY <1>8 DEF GetB
  <2>3. FrameTime(Len(out) + 1)' = FrameTime(Len(out) + 1)
    BY <1>g, <2>2 DEF FrameTime
  <2> QED
    BY <1>0, <1>t, <2>1, <2>2, <2>3 DEF Searching, InBlock
<1>9. CASE Advance
  <2>1. /\ haveB' = TRUE => /\ (idx + 1) + 1 < w /\ Stamp((idx + 1) + 1) <= bTime'
                            /\ torn' = TRUE \/ bTime' = Stamp((idx + 1) + 1)
        /\ lapped' = FALSE => lapped = FALSE
        /\ lapped' = FALSE /\ (idx + 1) + 1 < w => haveB' = TRUE
    <3>1. GetNext(idx + 1) /\ w <= widx /\ idx + 1 \in Nat
      BY <1>t, <1>9 DEF Advance, Searching
    <3> QED
      BY <1>n, <3>1, Zenon
  <2>2. haveB = TRUE
    BY <1>t, <1>9, Zenon DEF Advance, PastB
  <2>3. /\ pc = "frame" /\ pc' = "frame" /\ UNCHANGED <<ring, call, out>>
        /\ idx' = idx + 1 /\ bTime <= FrameTime(Len(out) + 1)
    BY <1>9 DEF Advance, PastB
  <2>4. FrameTime(Len(out) + 1)' = FrameTime(Len(out) + 1)
    BY <1>g, <2>3 DEF FrameTime
  <2>5. Stamp(idx + 1) <= FrameTime(Len(out) + 1)
    <3>1. Stamp(idx + 1) <= bTime /\ Stamp(idx + 1) \in Nat
      BY <1>0, <1>t, <2>2, <2>3 DEF Searching
    <3> QED
      BY <1>t, <1>f, <2>3, <3>1
  <2> QED
    BY <1>0, <1>t, <2>1, <2>2, <2>3, <2>4, <2>5 DEF Searching, InBlock
<1>10. CASE Render
  <2>1. /\ Len(out') = Len(out) + 1 /\ out'[Len(out) + 1].a = idx
        /\ \A f \in 1 .. Len(out) : out'[f] = out[f]
    <3> DEFINE e == [a |-> idx, b |-> IF haveB THEN idx + 1 ELSE idx]
    <3>1. out \in Seq([a : Nat, b : Nat]) /\ e \in [a : Nat, b : Nat]
      <4>1. (IF haveB THEN idx + 1 ELSE idx) \in Nat
        BY <1>t
      <4> QED
        BY <1>t, <4>1, Zenon DEF TypeOK
    <3>2. out' = Append(out, e)
      BY <1>10 DEF Render
    <3>3. e.a = idx
      OBVIOUS
    <3> HIDE DEF e
    <3> QED
      BY <3>1, <3>2, <3>3, AppendProperties
  <2>2. UNCHANGED <<ring, pc, call, pair, history>> /\ pc = "frame"
    BY <1>10 DEF Render
  <2>3. FrameTime(Len(out) + 1)' = FrameTime(Len(out) + 2)
    BY <1>t, <2>1, <2>2 DEF FrameTime
  <2>4. Stamp(idx)' = Stamp(idx)
    BY <2>2 DEF Stamp
  <2>5. (idx = first \/ Stamp(idx) <= FrameTime(Len(out) + 1))'
    <3>1. CASE idx = first
      BY <2>2, <3>1
    <3>2. CASE idx # first
      <4>1. idx \in 0 .. widx - 1 /\ Stamp(idx) <= FrameTime(Len(out) + 1)
        BY <1>0, <1>t, <2>2, <3>2 DEF Searching, InBlock
      <4>2. Stamp(idx) \in Nat
        BY <1>t, <4>1
      <4> QED
        BY <1>f, <2>3, <2>4, <4>1, <4>2
    <3> QED
      BY <3>1, <3>2
  <2> QED
    <3>1. Stamp(idx + 1)' = Stamp(idx + 1)
      BY <2>2 DEF Stamp
    <3> QED
      BY <1>t, <2>1, <2>2, <2>5, <3>1
<1>11. CASE Finish
  BY <1>0, <1>t, <1>11 DEF Finish
<1>12. ASSUME NEW on \in BOOLEAN, SetSmoothing(on) PROVE Pair'
  BY <1>0, <1>t, <1>12 DEF SetSmoothing
<1>13. CASE LatestCount
  BY <1>0, <1>t, <1>13 DEF LatestCount
<1>14. CASE LatestGet
  BY <1>0, <1>t, <1>14 DEF LatestGet
<1>15. CASE UNCHANGED vars
  BY <1>x, <1>15 DEF vars
<1> QED
  BY <1>1, <1>2, <1>3, <1>4, <1>5, <1>6, <1>7, <1>8, <1>9, <1>10, <1>11, <1>12, <1>13,
     <1>14, <1>15, <1>16 DEF Next, HostRenders, Block
\* What has been rendered stays so: only later scans are pushed, and a block once
\* lapped or torn is never taken for one that was not.
LEMMA FrameStays ==
  ASSUME TypeOK, TypeOK', Searching, [Next]_vars,
         NEW f \in 1 .. Len(out), FrameOK(f), out'[f] = out[f],
         UNCHANGED call, lapped' = FALSE => lapped = FALSE, torn' = FALSE => torn = FALSE
  PROVE  FrameOK(f)'
<1>0. widx \in Nat /\ \A i \in 0 .. widx - 1 : Stamp(i)' = Stamp(i)
  <2>1. widx \in Nat
    BY DEF TypeOK
  <2> QED
    BY <2>1, ScansStay, Zenon
<1> DEFINE a == out[f].a
           b == out[f].b
<1>1. a \in Nat /\ b \in Nat
  <2>1. out \in Seq([a : Nat, b : Nat])
    BY Zenon DEF TypeOK
  <2>2. out[f] \in [a : Nat, b : Nat]
    BY <2>1, ElementOfSeq, Zenon
  <2> QED
    BY <2>2
<1>2. /\ first <= a /\ a < w
      /\ a = first \/ Stamp(a) <= FrameTime(f)
      /\ b = a \/ (b = a + 1 /\ b < w /\ (torn = TRUE \/ FrameTime(f) < Stamp(b)))
      /\ lapped = FALSE /\ a + 1 < w => b = a + 1
  BY Zenon DEF FrameOK
<1>3. w \in Nat /\ w <= widx
  BY DEF TypeOK, Searching
<1>4. stamps'[a + 1] = Stamp(a) /\ (b < w => stamps'[b + 1] = Stamp(b))
  <2>1. \A i \in 0 .. widx - 1 : stamps'[i + 1] = Stamp(i)
    BY <1>0, Zenon DEF Stamp
  <2> QED
    BY <1>0, <1>1, <1>2, <1>3, <2>1
<1>5. FrameTime(f)' = FrameTime(f)
  BY DEF FrameTime, call
<1>6. out'[f].a = a /\ out'[f].b = b /\ w' = w /\ first' = first
  BY DEF call
<1> HIDE DEF a, b
<1>7. /\ first <= a /\ a < w
      /\ a = first \/ stamps'[a + 1] <= FrameTime(f)'
      /\ b = a \/ (b = a + 1 /\ b < w /\ (torn' = TRUE \/ FrameTime(f)' < stamps'[b + 1]))
      /\ lapped' = FALSE /\ a + 1 < w => b = a + 1
  <2>1. torn \in BOOLEAN /\ torn' \in BOOLEAN
    BY Zenon DEF TypeOK
  <2> QED
    BY <1>2, <1>4, <1>5, <2>1, Zenon
<1> QED
  BY <1>6, <1>7, Zenon DEF FrameOK, Stamp
\* Every step keeps what the frames were rendered from.
LEMMA RenderedStep ==
  ASSUME TypeOK, TypeOK', Searching, Pair, Rendered, [Next]_vars
  PROVE  Rendered'
<1>1. ASSUME UNCHANGED <<call, out>>, lapped' = FALSE => lapped = FALSE,
             torn' = FALSE => torn = FALSE
      PROVE  Rendered'
  <2>1. ASSUME NEW f \in 1 .. Len(out) PROVE FrameOK(f)'
    BY <1>1, FrameStays DEF Rendered
  <2> QED
    BY <1>1, <2>1 DEF Rendered
<1>2. ASSUME NEW t \in 0 .. LatestTime + 1, Begin(t) PROVE Rendered'
  <2>1. Len(out') = 0
    BY <1>2, EmptySeq DEF Begin
  <2> QED
    BY <2>1 DEF Rendered
<1>t. torn \in BOOLEAN
  BY Zenon DEF TypeOK
<1>g. ASSUME NEW i, Got(i) PROVE torn' = FALSE => torn = FALSE
  BY <1>t, <1>g, GotIs
<1>n. ASSUME NEW i, GetNext(i) PROVE torn' = FALSE => torn = FALSE
  <2>1. Got(i + 1) \/ torn' = torn
    BY <1>n, Zenon DEF GetNext
  <2> QED
    BY <1>g, <2>1
<1>3. CASE GetB
  <2>1. lapped = FALSE /\ (torn' = FALSE => torn = FALSE) /\ UNCHANGED <<call, out>>
    BY <1>3, <1>n DEF GetB, Pair
  <2> QED
    BY <1>1, <2>1
<1>4. CASE Advance
  <2>1. lapped \in BOOLEAN
    BY Zenon DEF TypeOK
  <2>2. lapped' = FALSE => lapped = FALSE
    BY <1>4, <2>1, Zenon DEF Advance, GetNext
  <2>3. UNCHANGED <<call, out>>
    BY <1>4 DEF Advance
  <2>4. torn' = FALSE => torn = FALSE
    BY <1>4, <1>n DEF Advance
  <2> QED
    BY <1>1, <2>2, <2>3, <2>4
<1>5. CASE Render
  <2>0. PICK n \in Nat : n = Len(out)
    <3>1. out \in Seq([a : Nat, b : Nat])
      BY Zenon DEF TypeOK
    <3> QED
      BY <3>1
  <2> DEFINE e == [a |-> idx, b |-> IF haveB THEN idx + 1 ELSE idx]
  <2>1. /\ idx \in Nat /\ w \in Nat /\ first \in Nat /\ w <= widx
        /\ first <= idx /\ idx < w
    BY <1>5 DEF TypeOK, Searching, Render
  <2>2. haveB \in BOOLEAN /\ lapped \in BOOLEAN /\ torn \in BOOLEAN
    BY Zenon DEF TypeOK
  <2>3. e \in [a : Nat, b : Nat] /\ out \in Seq([a : Nat, b : Nat])
    <3>1. (IF haveB THEN idx + 1 ELSE idx) \in Nat
      BY <2>1, <2>2
    <3> QED
      BY <2>1, <3>1, Zenon DEF TypeOK
  <2>4. /\ e.a = idx
        /\ haveB = TRUE => e.b = idx + 1
        /\ haveB = FALSE => e.b = idx
    OBVIOUS
  <2>5. out' = Append(out, e) /\ UNCHANGED <<stamps, call, haveB, lapped, torn>>
    BY <1>5 DEF Render, ring, pair, history
  <2> HIDE DEF e
  <2>6. /\ Len(out') = n + 1 /\ out'[n + 1] = e
        /\ \A f \in 1 .. n : out'[f] = out[f]
    BY <2>0, <2>3, <2>5, AppendProperties
  <2>7. \A f \in 1 .. n : FrameOK(f)'
    <3> SUFFICES ASSUME NEW f \in 1 .. n PROVE FrameOK(f)'
      BY Zenon
    <3>1. out'[f] = out[f] /\ UNCHANGED call /\ lapped' = lapped /\ torn' = torn
      BY <2>5, <2>6
    <3> QED
      BY <2>0, <3>1, FrameStays DEF Rendered
  <2>8. FrameOK(n + 1)'
    <3>1. /\ pc = "frame"
          /\ idx = first \/ Stamp(idx) <= FrameTime(n + 1)
          /\ haveB = TRUE => idx + 1 < w /\ (torn = TRUE \/ bTime = Stamp(idx + 1))
          /\ lapped = FALSE /\ idx + 1 < w => haveB = TRUE
      <4>1. pc = "frame"
        BY <1>5 DEF Render
      <4> QED
        BY <2>0, <4>1, Zenon DEF Pair
    <3>2. haveB = TRUE => torn = TRUE \/ FrameTime(n + 1) < Stamp(idx + 1)
      <4>1. FrameTime(n + 1) \in Nat /\ bTime \in Nat
        <5>1. n + 1 \in Nat \ {0}
          BY <2>0
        <5>2. bTime \in Nat
          BY Zenon DEF TypeOK
        <5> QED
          BY <5>1, <5>2, FrameTimes
      <4>2. haveB = TRUE => ~ (bTime <= FrameTime(n + 1))
        BY <1>5, <2>0, Zenon DEF Render, PastB
      <4> QED
        BY <3>1, <4>1, <4>2
    <3>3. /\ first <= e.a /\ e.a < w
          /\ e.a = first \/ Stamp(e.a) <= FrameTime(n + 1)
          /\ e.b = e.a \/ (e.b = e.a + 1 /\ e.b < w /\ (torn = TRUE \/ FrameTime(n + 1) < Stamp(e.b)))
          /\ lapped = FALSE /\ e.a + 1 < w => e.b = e.a + 1
      <4>1. CASE haveB = TRUE
        BY <2>1, <2>4, <3>1, <3>2, <4>1
      <4>2. CASE haveB = FALSE
        BY <2>1, <2>4, <3>1, <4>2
      <4> QED
        BY <2>2, <4>1, <4>2
    <3>4. FrameTime(n + 1) = t0' + ((n + 1) - 1) * Period
      BY <2>5 DEF FrameTime, call
    <3>5. e = out'[n + 1] /\ w' = w /\ first' = first /\ stamps' = stamps /\ lapped' = lapped
          /\ torn' = torn
      BY <2>5, <2>6 DEF call
    <3> QED
      BY <3>3, <3>4, <3>5, Zenon DEF FrameOK, Stamp, FrameTime
  <2>9. \A f \in 1 .. n : out[f].a <= idx
    BY <1>5, <2>0 DEF Render, Pair
  <2>10. \A f, g \in 1 .. n : f < g => out[f].a <= out[g].a
    BY <2>0 DEF Rendered
  <2>11. \A f \in 1 .. Len(out') : FrameOK(f)'
    <3> SUFFICES ASSUME NEW f \in 1 .. Len(out') PROVE FrameOK(f)'
      BY Zenon
    <3>1. f \in 1 .. n \/ f = n + 1
      BY <2>6
    <3> QED
      BY <2>7, <2>8, <3>1, Zenon
  <2>12. \A f, g \in 1 .. Len(out') : f < g => out'[f].a <= out'[g].a
    BY <2>1, <2>4, <2>6, <2>9, <2>10
  <2> QED
    BY <2>11, <2>12 DEF Rendered
<1>6. CASE \/ \E gap \in Gaps : PushScan(gap)
           \/ Publish \/ FindFast \/ FindLo \/ FindMid \/ FindDone \/ GetA \/ Finish
           \/ LatestCount \/ LatestGet \/ (\E on \in BOOLEAN : SetSmoothing(on))
           \/ UNCHANGED vars
  <2>1. UNCHANGED <<call, out, lapped>> /\ (torn' = torn \/ \E i \in Int : Got(i))
    <3>1. CASE FindFast \/ FindLo \/ FindMid \/ GetA
      <4>1. w - 1 \in Int /\ lo \in Int /\ lo + (hi - lo) \div 2 \in Int /\ idx \in Int
        BY DEF TypeOK
      <4> QED
        BY <3>1, <4>1 DEF FindFast, FindLo, FindMid, GetA
    <3>2. CASE ~ (FindFast \/ FindLo \/ FindMid \/ GetA)
      BY <1>6, <3>2 DEF PushScan, Publish, FindDone, Finish, LatestCount,
                  LatestGet, SetSmoothing, vars, history
    <3> QED
      BY <3>1, <3>2
  <2>2. torn' = FALSE => torn = FALSE
    BY <1>g, <2>1
  <2> QED
    BY <1>1, <2>1, <2>2
<1> QED
  BY <1>2, <1>3, <1>4, <1>5, <1>6 DEF Next, HostRenders, Block
\* Every step keeps what a read of the latest value holds.
LEMMA ReadingStep ==
  ASSUME TypeOK, Searching, Reading, [Next]_vars
  PROVE  Reading'
<1> USE DEF Reading, call
<1>1. CASE LatestCount
  BY <1>1 DEF LatestCount, Searching, TypeOK
<1>2. CASE LatestGet
  BY <1>2 DEF LatestGet
<1>3. CASE \/ \E gap \in Gaps : PushScan(gap)
           \/ \E on \in BOOLEAN : SetSmoothing(on)
           \/ Block \/ Publish
           \/ UNCHANGED vars
  BY <1>3 DEF Block, Publish, FindFast, FindLo, FindMid, FindDone, GetA, GetB, Advance, Render,
              Finish, Fail, PushScan, SetSmoothing, vars
<1>4. CASE HostRenders
  BY <1>4 DEF HostRenders, Begin
<1> QED
  BY <1>1, <1>2, <1>3, <1>4 DEF Next

\* Every step keeps where the filter's state comes from.
LEMMA SmoothingStep ==
  ASSUME TypeOK, Smoothing, [Next]_vars
  PROVE  Smoothing'
<1> USE DEF Smoothing, InBlock, filter
<1>t. nc \in Nat /\ primed \in Nat /\ nc <= NumCv /\ z \in [Chans -> {"zero", "since", "before"}]
  BY Assumptions DEF TypeOK
<1>1. ASSUME NEW gap \in Gaps, PushScan(gap) PROVE Smoothing'
  BY <1>1 DEF PushScan
<1>8. CASE Publish
  BY <1>8 DEF Publish
<1>2. CASE HostRenders
  <2>1. nc' > 0 /\ UNCHANGED <<smooth, primed, z>> /\ pc' # "frame"
    BY <1>2, Assumptions DEF HostRenders, Begin, Fail
  <2> QED
    BY <2>1
<1>3. CASE GetB
  <2>1. pc = "b" /\ UNCHANGED <<nc, smooth>> /\ Prime
    BY <1>3 DEF GetB
  <2>2. CASE smooth /\ primed = 0
    <3>1. primed' = nc /\ z' = [c \in Chans |-> IF c <= nc THEN "since" ELSE z[c]]
      BY <2>1, <2>2, Zenon DEF Prime
    <3>2. \A c \in 1 .. nc : z'[c] = "since"
      BY <1>t, <3>1, Assumptions DEF Chans
    <3> QED
      BY <2>1, <3>1, <3>2
  <2>3. CASE ~ (smooth /\ primed = 0)
    <3>1. primed' = primed /\ z' = z
      BY <2>1, <2>3, Zenon DEF Prime
    <3> QED
      BY <1>t, <2>1, <2>3, <3>1
  <2> QED
    BY <2>2, <2>3
<1>4. CASE FindFast \/ FindLo \/ FindMid \/ FindDone \/ GetA \/ Advance \/ Render \/ Finish
  BY <1>4 DEF FindFast, FindLo, FindMid, FindDone, GetA, Advance, Render, Finish, Fail
<1>5. ASSUME NEW on \in BOOLEAN, SetSmoothing(on) PROVE Smoothing'
  BY <1>5 DEF SetSmoothing
<1>6. CASE LatestCount \/ LatestGet
  BY <1>6 DEF LatestCount, LatestGet
<1>7. CASE UNCHANGED vars
  BY <1>7 DEF vars
<1> QED
  BY <1>1, <1>2, <1>3, <1>4, <1>5, <1>6, <1>7, <1>8 DEF Next, Block

\* The invariant holds for every ring, block, rate and times of the scans.
THEOREM Invariance == Spec => []IInv
<1>1. Init => IInv
  BY FirstStates
<1>2. IInv /\ [Next]_vars => IInv'
  BY TypeStep, OrderedStep, SearchingStep, PairStep, RenderedStep, ReadingStep, SmoothingStep
     DEF IInv
<1> QED
  BY <1>1, <1>2, PTL DEF Spec

-----------------------------------------------------------------------------
(* What follows from it *)

\* The search ends no later than the newest scan at or before its time, and there,
\* or before the first, if nothing it read was being overwritten.
LEMMA FoundNewest ==
  ASSUME IInv, pc = "a"
  PROVE  IF found = 1 THEN idx <= Newest(t0, w) /\ (torn = FALSE => idx = Newest(t0, w))
                      ELSE idx = first /\ (torn = FALSE => Newest(t0, w) < first)
<1>1. TypeOK /\ Ordered /\ w \in Nat /\ w <= widx /\ t0 \in Nat /\ first \in Nat /\ idx \in Nat
  BY DEF IInv, TypeOK, Searching
<1>2. /\ idx < w
      /\ IF found = 1 THEN /\ Stamp(idx) <= t0
                           /\ idx + 1 < w => torn = TRUE \/ t0 < Stamp(idx + 1)
                      ELSE idx = first /\ (torn = TRUE \/ t0 < Stamp(first))
  BY DEF IInv, Searching
<1>3. idx \in 0 .. w - 1
  BY <1>1, <1>2
<1>4. CASE found = 1
  <2>1. Stamp(idx) <= t0 /\ (torn = FALSE => (idx + 1 < w => t0 < Stamp(idx + 1)))
    BY <1>2, <1>4
  <2>2. torn = FALSE => Newest(t0, w) = idx
    BY <1>1, <1>3, <2>1, NewestUnique
  <2>3. idx <= Newest(t0, w)
    BY <1>1, <1>3, <2>1, NewestIs
  <2> QED
    BY <1>4, <2>2, <2>3
<1>5. CASE found # 1
  <2>1. idx = first /\ (torn = FALSE => t0 < Stamp(first))
    BY <1>2, <1>5
  <2>2. torn = FALSE => Newest(t0, w) < first
    BY <1>1, <1>3, <2>1, NewestBefore
  <2> QED
    BY <1>5, <2>1, <2>2
<1> QED
  BY <1>4, <1>5

\* The search returns no scan later than the newest at or before the block's start,
\* and that one, or that the start is before the oldest it may look at, unless a
\* scan it read was being overwritten.
THEOREM SearchFindsNewest == Spec => []FindIsNewest
<1>1. IInv => FindIsNewest
  <2> SUFFICES ASSUME IInv PROVE FindIsNewest
    OBVIOUS
  <2>1. ASSUME latest >= 0, NEW f \in DOMAIN out PROVE out[f].b <= latest
    <3>1. out \in Seq([a : Nat, b : Nat]) /\ w \in Nat /\ latest \in Int /\ w <= latest + 1
      BY <2>1 DEF IInv, TypeOK, Reading
    <3>2. f \in 1 .. Len(out)
      BY <3>1
    <3>3. out[f] \in [a : Nat, b : Nat]
      BY <3>1, <3>2, ElementOfSeq, Zenon
    <3>4. FrameOK(f)
      BY <3>2 DEF IInv, Rendered
    <3>5. out[f].a < w /\ (out[f].b = out[f].a \/ out[f].b < w)
      BY <3>4, Zenon DEF FrameOK
    <3>6. out[f].b \in Nat /\ out[f].b < w
      BY <3>3, <3>5
    <3> QED
      BY <3>1, <3>6
  <2> QED
    <3>1. torn \in BOOLEAN
      BY Zenon DEF IInv, TypeOK
    <3>2. ~ torn => torn = FALSE
      BY <3>1, Zenon
    <3> QED
      BY <2>1, <3>2, FoundNewest, Zenon DEF FindIsNewest
<1> QED
  BY <1>1, Invariance, PTL

\* Every frame is rendered from the scans on either side of it, or, if a scan was
\* overwritten first or while it was read, from an older place; and the pair never
\* moves back.
THEOREM FramesAreBracketed == Spec => []FramesBracketed
<1>1. IInv => FramesBracketed
  <2> SUFFICES ASSUME IInv PROVE FramesBracketed
    OBVIOUS
  <2>1. /\ TypeOK /\ Ordered /\ w \in Nat /\ w <= widx /\ first \in Nat
        /\ out \in Seq([a : Nat, b : Nat])
    BY DEF IInv, TypeOK, Searching
  <2> SUFFICES ASSUME NEW f \in DOMAIN out
               PROVE  LET true == Max({first, Newest(FrameTime(f), w)}) IN
                      /\ out[f].a <= true
                      /\ ~ (lapped \/ torn) => out[f] = [a |-> true,
                                               b |-> IF true + 1 < w THEN true + 1 ELSE true]
                      /\ (out[f].b > out[f].a /\ ~ torn) => FrameTime(f) < Stamp(out[f].b)
                      /\ f > 1 => out[f - 1].a <= out[f].a
    BY Zenon DEF FramesBracketed
  <2> DEFINE a == out[f].a
             b == out[f].b
             T == FrameTime(f)
             new == Newest(T, w)
             m == Max({first, new})
  <2>2. f \in 1 .. Len(out) /\ Len(out) \in Nat
    BY <2>1
  <2>3. a \in Nat /\ b \in Nat /\ out[f] = [a |-> a, b |-> b]
    <3>1. out[f] \in [a : Nat, b : Nat]
      BY <2>1, <2>2, ElementOfSeq, Zenon
    <3> QED
      BY <3>1
  <2>4. FrameOK(f)
    BY <2>2 DEF IInv, Rendered
  <2>5. /\ first <= a /\ a < w
        /\ a = first \/ Stamp(a) <= T
        /\ b = a \/ (b = a + 1 /\ b < w /\ (torn = TRUE \/ T < Stamp(b)))
        /\ lapped = FALSE /\ a + 1 < w => b = a + 1
    BY <2>4, Zenon DEF FrameOK
  <2>6. f > 1 => out[f - 1].a <= a
    <3>1. ASSUME f > 1 PROVE f - 1 \in 1 .. Len(out) /\ f - 1 < f
      BY <2>2, <3>1
    <3> QED
      BY <2>2, <3>1 DEF IInv, Rendered
  <2>12. lapped \in BOOLEAN /\ torn \in BOOLEAN
    BY <2>1, Zenon DEF TypeOK
  <2>7. b > a /\ torn = FALSE => T < Stamp(b)
    BY <2>3, <2>5
  <2>8. T \in Nat
    <3>1. f \in Nat \ {0}
      BY <2>2
    <3> QED
      BY <2>1, <3>1, FrameTimes, Zenon
  <2>9. new \in -1 .. w - 1 /\ m = IF first >= new THEN first ELSE new
    <3>1. new \in -1 .. w - 1
      BY <2>1, <2>8, NewestIs, Zenon
    <3> HIDE DEF new
    <3>2. new \in Int /\ first \in Int
      BY <2>1, <3>1
    <3> QED
      BY <3>1, <3>2, MaxOfTwo, Zenon
  <2>10. a <= m /\ (a + 1 < w /\ T < Stamp(a + 1) => m = a) /\ (~ (a + 1 < w) => m = a)
    <3>1. a \in 0 .. w - 1
      BY <2>1, <2>3, <2>5
    <3>2. CASE Stamp(a) <= T
      <4>1. a <= new
        BY <2>1, <2>8, <3>1, <3>2, NewestIs
      <4>2. a + 1 < w /\ T < Stamp(a + 1) => new = a
        BY <2>1, <2>8, <3>1, <3>2, NewestUnique
      <4> HIDE DEF new, m, a
      <4> QED
        BY <2>1, <2>3, <2>5, <2>9, <3>1, <4>1, <4>2
    <3>3. CASE ~ (Stamp(a) <= T)
      <4>1. a = first
        BY <2>5, <3>3
      <4>2. T < Stamp(a)
        <5>1. widx \in Nat /\ widx <= Len(stamps)
          BY <2>1 DEF TypeOK
        <5>2. a \in Nat /\ a < Len(stamps)
          BY <2>1, <2>2, <3>1, <5>1
        <5>3. Stamp(a) \in Nat
          BY <2>1, <5>2, StampType, Zenon
        <5> HIDE DEF a, T
        <5> QED
          BY <2>8, <3>3, <5>3
      <4>3. new < a
        BY <2>1, <2>8, <3>1, <4>2, NewestBefore
      <4> HIDE DEF new, m, a
      <4> QED
        BY <2>1, <2>3, <2>9, <4>1, <4>3
    <3> QED
      BY <3>2, <3>3
  <2>11. ASSUME lapped = FALSE, torn = FALSE PROVE m = a /\ b = IF m + 1 < w THEN m + 1 ELSE m
    <3> HIDE DEF m, a, b, T
    <3> QED
      BY <2>1, <2>3, <2>5, <2>10, <2>11
  <2>13. ~ (lapped \/ torn) => out[f] = [a |-> m, b |-> IF m + 1 < w THEN m + 1 ELSE m]
    BY <2>3, <2>11, <2>12, Zenon
  <2>14. (b > a /\ ~ torn) => T < Stamp(b)
    BY <2>7, <2>12, Zenon
  <2> QED
    BY <2>6, <2>10, <2>13, <2>14, Zenon
<1> QED
  BY <1>1, Invariance, PTL

\* A smoothed frame of a channel that was in the block that primed the filter comes
\* from scans rendered since smoothing was last set.
THEOREM PrimedChannelsStartAfresh == Spec => []SmoothedSinceSet
<1>1. IInv => SmoothedSinceSet
  <2> SUFFICES ASSUME IInv, pc = "frame", smooth
               PROVE  primed > 0 /\ \A c \in 1 .. Min({nc, primed}) : z[c] = "since"
    BY DEF SmoothedSinceSet
  <2>1. primed \in Nat /\ nc \in Nat /\ primed > 0 /\ \A c \in 1 .. primed : z[c] = "since"
    BY Assumptions DEF IInv, TypeOK, Smoothing
  <2>2. Min({nc, primed}) \in Nat /\ Min({nc, primed}) <= primed
    BY <2>1, MinOfTwo
  <2> QED
    BY <2>1, <2>2
<1> QED
  BY <1>1, Invariance, PTL
=============================================================================
