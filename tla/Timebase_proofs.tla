--------------------------- MODULE Timebase_proofs ---------------------------
(***************************************************************************)
(* The period estimate of the delay-locked loop stays positive for every   *)
(* block size, frame time, number of callers, jitter and stall, as long as *)
(* the gain on the period is below a tenth; and where the gain on the      *)
(* phase is too, the starts one caller is told go on, but for those the    *)
(* clock has not reached.                                                  *)
(***************************************************************************)
EXTENDS Timebase, TLAPS

\* The invariant: a loop has ticked with a size of the host's, and its period is
\* a positive whole number.
Loop ==
  /\ tb \in [warmed : BOOLEAN, next : Int, period : Nat \ {0}, frames : Nat]
  /\ tb.warmed => tb.frames \in Sizes

IInv == Loop /\ nframes \in Sizes /\ grid \in Nat /\ now \in Nat

\* A correction by less than a tenth of an error of at most ten periods is less
\* than a period.
LEMMA ScaledBounds ==
  ASSUME NEW e \in Int, NEW d \in Nat, d > 10, NEW p \in Nat \ {0},
         e <= 10 * p, -e <= 10 * p
  PROVE  Scaled(e, d) \in Int /\ Scaled(e, d) > -p
<1>1. ASSUME NEW x \in Nat, x <= 10 * p
      PROVE  x \div d \in Nat /\ x \div d < p
  <2>1. x \div d \in Nat /\ x % d \in Nat /\ x = d * (x \div d) + (x % d)
    BY <1>1, Z3
  <2> DEFINE q == x \div d
  <2> HIDE DEF q
  <2>2. q \in Nat /\ d * q <= 10 * p
    BY <1>1, <2>1, Z3 DEF q
  <2>3. 11 * q <= d * q
    BY <2>2, Z3
  <2>4. 11 * q <= 10 * p
    BY <2>2, <2>3, Z3
  <2>5. q < p
    BY <2>2, <2>4, Z3
  <2> QED
    BY <2>2, <2>5 DEF q
<1>2. CASE e < 0
  <2>1. -e \in Nat /\ -e <= 10 * p
    BY <1>2
  <2>2. (-e) \div d \in Nat /\ (-e) \div d < p
    BY <2>1, <1>1
  <2> QED
    BY <1>2, <2>2 DEF Scaled
<1>3. CASE ~ (e < 0)
  <2>1. e \in Nat
    BY <1>3
  <2>2. e \div d \in Nat
    BY <2>1, <1>1
  <2> QED
    BY <1>3, <2>2 DEF Scaled
<1> QED
  BY <1>2, <1>3

\* The quotient of a positive product, rounded up, is positive.
LEMMA RoundedUp ==
  ASSUME NEW m \in Nat \ {0}, NEW f \in Nat \ {0}
  PROVE  -((-m) \div f) \in Nat \ {0}
<1> DEFINE q == (-m) \div f
           r == (-m) % f
<1>1. q \in Int /\ r \in 0 .. f - 1 /\ -m = f * q + r
  BY Z3
<1> HIDE DEF q, r
<1>2. f * q < 0
  BY <1>1
<1>3. q < 0
  BY <1>1, <1>2, Z3
<1> QED
  BY <1>1, <1>3 DEF q

\* What a tick makes of a loop.
LEMMA TickKeepsLoop ==
  ASSUME IInv, NEW r, r = TickResult(now, nframes)
  PROVE  /\ r.tb \in [warmed : BOOLEAN, next : Int, period : Nat \ {0}, frames : Nat]
         /\ r.tb.frames \in Sizes
<1> USE TimebaseAssumption
<1>1. /\ now \in Int /\ nframes \in Sizes /\ nframes \in Nat \ {0}
      /\ tb.period \in Nat \ {0} /\ tb.next \in Int /\ tb.frames \in Nat
  BY DEF IInv, Loop
<1>2. ASSUME NEW p \in Nat \ {0}, r = Relock(now, p, nframes)
      PROVE  /\ r.tb \in [warmed : BOOLEAN, next : Int, period : Nat \ {0}, frames : Nat]
             /\ r.tb.frames \in Sizes
  BY <1>1, <1>2 DEF Relock
<1>3. CASE ~ tb.warmed
  BY <1>1, <1>2, <1>3 DEF TickResult
<1>4. CASE tb.warmed /\ Reseeds(nframes)
  <2>1. tb.frames \in Nat \ {0}
    BY <1>4 DEF IInv, Loop
  <2>2. tb.period * nframes \in Nat \ {0}
    BY <1>1, Z3
  <2>3. Rescaled(nframes) \in Nat \ {0}
    BY <2>1, <2>2, RoundedUp DEF Rescaled
  <2> QED
    BY <1>2, <1>4, <2>3 DEF TickResult
<1>5. CASE tb.warmed /\ ~ Reseeds(nframes) /\ FarOff(now)
  BY <1>1, <1>2, <1>5 DEF TickResult
<1>6. CASE tb.warmed /\ ~ Reseeds(nframes) /\ ~ FarOff(now)
  <2> DEFINE e == now - tb.next
  <2>1. e \in Int /\ e <= 10 * tb.period /\ -e <= 10 * tb.period
    BY <1>1, <1>6 DEF FarOff, Abs
  <2> HIDE DEF e
  <2>2. Scaled(e, CDen) \in Int /\ Scaled(e, CDen) > -tb.period
    BY <1>1, <2>1, ScaledBounds
  <2>3. Scaled(e, BDen) \in Int
    BY <2>1 DEF Scaled
  <2>4. tb.period + Scaled(e, CDen) \in Nat \ {0}
    BY <1>1, <2>2
  <2>5. r = Track(now, nframes)
    BY <1>6 DEF TickResult
  <2>6. r.tb = [warmed |-> TRUE, next |-> tb.next + Scaled(e, BDen) + tb.period,
                period |-> tb.period + Scaled(e, CDen), frames |-> nframes]
    BY <2>5 DEF Track, e
  <2> QED
    BY <1>1, <2>3, <2>4, <2>6
<1> QED
  BY <1>3, <1>4, <1>5, <1>6

\* A loop made for a size of the host's.
LEMMA FreshLoop ==
  ASSUME NEW n \in Sizes
  PROVE  /\ Nominal(n) \in Nat \ {0}
         /\ Fresh(n) \in [warmed : BOOLEAN, next : Int, period : Nat \ {0}, frames : Nat]
         /\ Fresh(n).warmed = FALSE
<1>1. n \in Nat \ {0} /\ PerFrame \in Nat \ {0}
  BY TimebaseAssumption
<1>2. n * PerFrame \in Nat \ {0}
  BY <1>1, Z3
<1> QED
  BY <1>2 DEF Nominal, Fresh

\* The invariant holds in every reachable state.
LEMMA Invariance == Spec => []IInv
<1>1. Init => IInv
  <2> SUFFICES ASSUME Init PROVE IInv
    OBVIOUS
  <2>1. nframes \in Sizes /\ tb = Fresh(nframes) /\ grid \in Nat /\ now \in Nat
    BY DEF Init
  <2>2. Loop
    BY <2>1, FreshLoop DEF Loop
  <2> QED
    BY <2>1, <2>2 DEF IInv
<1>2. IInv /\ [Next]_vars => IInv'
  <2> SUFFICES ASSUME IInv, [Next]_vars PROVE IInv'
    OBVIOUS
  <2>1. CASE Block
    <3>1. PICK n \in Sizes, s \in Stalls, j \in Jitters :
            /\ grid' = grid + Nominal(nframes) + s
            /\ now' = now \/ now' = grid' + j
            /\ nframes' = n
            /\ tb' = Fresh(n) \/ tb' = tb
      BY <2>1 DEF Block, NextBlock, Later
    <3>2. Nominal(nframes) \in Nat /\ s \in Nat /\ j \in Nat
      BY FreshLoop, TimebaseAssumption DEF IInv
    <3>3. grid' \in Nat /\ now' \in Nat /\ nframes' \in Sizes
      BY <3>1, <3>2 DEF IInv
    <3>4. CASE tb' = Fresh(n)
      BY <3>3, <3>4, FreshLoop DEF IInv, Loop
    <3>5. CASE tb' = tb
      BY <3>3, <3>5 DEF IInv, Loop
    <3> QED
      BY <3>1, <3>4, <3>5
  <2>2. CASE ChangeChannel
    <3>1. PICK frames \in 1 .. nframes - 1, j \in Jitters :
            /\ grid' = grid + Nominal(frames)
            /\ now' = now \/ now' = grid' + j
      BY <2>2 DEF ChangeChannel, NextBlock, Later
    <3>2. frames \in Nat /\ PerFrame \in Nat /\ j \in Nat
      BY TimebaseAssumption DEF IInv
    <3>3. frames * PerFrame \in Nat
      BY <3>2, Z3
    <3>4. grid' \in Nat /\ now' \in Nat
      BY <3>1, <3>2, <3>3 DEF IInv, Nominal
    <3>5. UNCHANGED <<nframes, tb>>
      BY <2>2 DEF ChangeChannel
    <3> QED
      BY <3>4, <3>5 DEF IInv, Loop
  <2>3. CASE Tick
    <3> DEFINE r == TickResult(now, nframes)
    <3>1. tb' = r.tb /\ UNCHANGED <<nframes, grid, now>>
      BY <2>3 DEF Tick
    <3> HIDE DEF r
    <3>2. /\ r.tb \in [warmed : BOOLEAN, next : Int, period : Nat \ {0}, frames : Nat]
          /\ r.tb.frames \in Sizes
      BY TickKeepsLoop DEF r
    <3> QED
      BY <3>1, <3>2 DEF IInv, Loop
  <2>4. CASE Cycle
    <3>1. (tb' = tb \/ tb' = Fresh(nframes)) /\ UNCHANGED <<nframes, grid, now>>
      BY <2>4 DEF Cycle
    <3>2. CASE tb' = tb
      BY <3>1, <3>2 DEF IInv, Loop
    <3>3. CASE tb' = Fresh(nframes)
      BY <3>1, <3>3, FreshLoop DEF IInv, Loop
    <3> QED
      BY <3>1, <3>2, <3>3
  <2>5. CASE UNCHANGED vars
    BY <2>5 DEF IInv, Loop, vars, history
  <2> QED
    BY <2>1, <2>2, <2>3, <2>4, <2>5 DEF Next
<1> QED
  BY <1>1, <1>2, PTL DEF Spec

\* The estimate of a block's duration stays positive (tt_time.c:68-110), so that
\* predicted starts move on and the relock test has a sensible width.
THEOREM PeriodStaysPositive == Spec => []PeriodPositive
<1>1. IInv => PeriodPositive
  BY DEF IInv, Loop, PeriodPositive
<1> QED
  BY <1>1, Invariance, PTL

-----------------------------------------------------------------------------
\* What the one caller of a block was told, with the loop's prediction of the
\* next start beyond it; JACK tells the grid, which only goes on.
Told ==
  /\ starts = <<>> \/ (called = 1 /\ \E x \in Int : starts = <<x>>)
  /\ called \in {0, 1} /\ lastStart \in Int
  /\ starts # <<>> /\ tb.warmed => tb.next > starts[1]
  /\ called = 0 /\ lastStart >= 0 /\ tb.warmed => tb.next > lastStart
  /\ cycle => ~ tb.warmed
  /\ cycle /\ starts # <<>> => starts[1] = grid
  /\ cycle /\ called = 0 /\ lastStart >= 0 => lastStart < grid

OneCaller == callers = 1 => Told /\ StartsAdvance

\* A tick tells the prediction or the clock, and predicts a later start.
LEMMA TickAdvances ==
  ASSUME IInv, BDen > 10, NEW r, r = TickResult(now, nframes)
  PROVE  /\ r.start \in Int /\ r.tb.next > r.start
         /\ r.start = now \/ (tb.warmed /\ r.start = tb.next)
<1> USE TimebaseAssumption
<1>1. /\ now \in Int /\ nframes \in Sizes /\ nframes \in Nat \ {0}
      /\ tb.period \in Nat \ {0} /\ tb.next \in Int /\ tb.frames \in Nat
  BY DEF IInv, Loop
<1>2. ASSUME NEW p \in Nat \ {0}, r = Relock(now, p, nframes)
      PROVE  r.start = now /\ r.tb.next > r.start
  BY <1>1, <1>2 DEF Relock
<1>3. CASE ~ tb.warmed
  BY <1>1, <1>2, <1>3 DEF TickResult
<1>4. CASE tb.warmed /\ Reseeds(nframes)
  <2>1. tb.frames \in Nat \ {0}
    BY <1>4 DEF IInv, Loop
  <2>2. tb.period * nframes \in Nat \ {0}
    BY <1>1, Z3
  <2>3. Rescaled(nframes) \in Nat \ {0}
    BY <2>1, <2>2, RoundedUp DEF Rescaled
  <2>4. r.start = now /\ r.tb.next > r.start
    BY <1>2, <1>4, <2>3 DEF TickResult
  <2> QED
    BY <1>1, <2>4
<1>5. CASE tb.warmed /\ ~ Reseeds(nframes) /\ FarOff(now)
  BY <1>1, <1>2, <1>5 DEF TickResult
<1>6. CASE tb.warmed /\ ~ Reseeds(nframes) /\ ~ FarOff(now)
  <2> DEFINE e == now - tb.next
  <2>1. e \in Int /\ e <= 10 * tb.period /\ -e <= 10 * tb.period
    BY <1>1, <1>6 DEF FarOff, Abs
  <2> HIDE DEF e
  <2>2. Scaled(e, BDen) \in Int /\ Scaled(e, BDen) > -tb.period
    BY <1>1, <2>1, ScaledBounds
  <2>3. r = Track(now, nframes)
    BY <1>6 DEF TickResult
  <2>4. r.start = tb.next /\ r.tb.next = tb.next + Scaled(e, BDen) + tb.period
    BY <2>3 DEF Track, e
  <2> QED
    BY <1>1, <1>6, <2>2, <2>4
<1> QED
  BY <1>3, <1>4, <1>5, <1>6

\* A block begins: the start told in the one before becomes the last.
LEMMA BlockKeepsTold ==
  ASSUME IInv, OneCaller, callers = 1, NEW start \in Int, NEW j \in Int,
         NextBlock(start, j), start > grid, tb' = tb \/ tb'.warmed = FALSE
  PROVE  Told' /\ StartsAdvance'
<1>1. Told
  BY DEF OneCaller
<1>2. called = 1 /\ called' = 0 /\ starts' = <<>> /\ grid' = start /\ cycle' = cycle
  BY DEF NextBlock
<1>3. lastStart' = IF starts = <<>> THEN -1 ELSE starts[1]
  BY DEF NextBlock
<1>4. grid \in Int /\ tb.next \in Int
  BY DEF IInv, Loop
<1>5. StartsAdvance'
  BY <1>2 DEF StartsAdvance
<1>6. CASE starts = <<>>
  <2>1. lastStart' = -1
    BY <1>3, <1>6
  <2>2. cycle' => ~ tb'.warmed
    BY <1>1, <1>2 DEF Told
  <2> QED
    BY <1>2, <1>5, <2>1, <2>2 DEF Told
<1>7. CASE starts # <<>>
  <2>1. PICK x \in Int : starts = <<x>>
    BY <1>1, <1>7 DEF Told
  <2>2. starts[1] = x /\ lastStart' = x
    BY <1>3, <2>1
  <2>3. tb.warmed => tb.next > x
    BY <1>1, <1>7, <2>2 DEF Told
  <2>4. cycle => x = grid /\ ~ tb.warmed
    BY <1>1, <1>7, <2>2 DEF Told
  <2>5. cycle' => x < grid' /\ ~ tb'.warmed
    BY <1>2, <1>4, <2>4
  <2>6. tb'.warmed => tb'.next > x
    BY <2>3
  <2> QED
    BY <1>2, <1>5, <2>1, <2>2, <2>5, <2>6 DEF Told
<1> QED
  BY <1>6, <1>7

\* Where the gain on the phase is below a tenth (blocks of up to a thousand frames
\* at 48 kHz and half a hertz), the starts a lone caller is told go on, over any
\* late callbacks, bursts, stalls, new sizes, relocks and JACK's change to a loop,
\* but for those the clock has not reached (tt_time.c:68-110).
THEOREM StartsGoOn ==
  ASSUME BDen > 10
  PROVE  Spec => []StartsAdvance
<1>1. Init => OneCaller
  <2> SUFFICES ASSUME Init, callers = 1 PROVE Told /\ StartsAdvance
    BY DEF OneCaller
  <2>1. starts = <<>> /\ called = 1 /\ lastStart = -1 /\ tb = Fresh(nframes)
    BY DEF Init
  <2>2. ~ tb.warmed
    BY <2>1 DEF Fresh
  <2> QED
    BY <2>1, <2>2 DEF Told, StartsAdvance
<1>2. IInv /\ OneCaller /\ [Next]_vars => OneCaller'
  <2> SUFFICES ASSUME IInv, OneCaller, [Next]_vars, callers' = 1
               PROVE  Told' /\ StartsAdvance'
    BY DEF OneCaller
  <2>0. callers = 1 /\ Told /\ StartsAdvance
    BY DEF OneCaller, Next, Block, ChangeChannel, NextBlock, Tick, Cycle, vars
  <2>1. CASE Block
    <3>1. PICK n \in Sizes, s \in Stalls, j \in Jitters :
            /\ NextBlock(grid + Nominal(nframes) + s, j)
            /\ tb' = Fresh(n) \/ tb' = tb
      BY <2>1 DEF Block
    <3>2. Nominal(nframes) \in Nat \ {0} /\ s \in Nat /\ j \in Nat /\ grid \in Nat
      BY FreshLoop, TimebaseAssumption DEF IInv
    <3>3. tb' = tb \/ tb'.warmed = FALSE
      BY <3>1 DEF Fresh
    <3>4. grid + Nominal(nframes) + s \in Int /\ grid + Nominal(nframes) + s > grid
      BY <3>2
    <3> DEFINE start == grid + Nominal(nframes) + s
    <3>5. start \in Int /\ start > grid /\ NextBlock(start, j) /\ j \in Int
      BY <3>1, <3>2, <3>4
    <3> HIDE DEF start
    <3> QED
      BY <2>0, <3>3, <3>5, BlockKeepsTold
  <2>2. CASE ChangeChannel
    <3>1. PICK frames \in 1 .. nframes - 1, j \in Jitters :
            NextBlock(grid + Nominal(frames), j)
      BY <2>2 DEF ChangeChannel
    <3>2. /\ frames \in Nat \ {0} /\ PerFrame \in Nat \ {0} /\ j \in Nat
          /\ grid \in Nat
      BY TimebaseAssumption DEF IInv
    <3>3. frames * PerFrame \in Nat \ {0}
      BY <3>2, Z3
    <3>4. grid + Nominal(frames) \in Int /\ grid + Nominal(frames) > grid
      BY <3>2, <3>3 DEF Nominal
    <3>5. tb' = tb
      BY <2>2 DEF ChangeChannel
    <3> QED
      BY <2>0, <3>1, <3>2, <3>4, <3>5, BlockKeepsTold
  <2>3. CASE Tick
    <3> DEFINE r == TickResult(now, nframes)
    <3>1. /\ called = 0 /\ called' = 1 /\ ~ cycle /\ ~ cycle' /\ tb' = r.tb
          /\ starts' = Append(starts, r.start) /\ UNCHANGED <<now, lastStart>>
      BY <2>0, <2>3 DEF Tick, Told
    <3> HIDE DEF r
    <3>2. /\ r.start \in Int /\ r.tb.next > r.start
          /\ r.start = now \/ (tb.warmed /\ r.start = tb.next)
      BY BDen > 10, TickAdvances DEF r
    <3>3. starts = <<>>
      BY <2>0, <3>1 DEF Told
    <3>4. starts' = <<r.start>> /\ starts' # <<>> /\ starts'[1] = r.start
      BY <3>1, <3>2, <3>3
    <3>5. lastStart \in Int /\ now \in Int
      BY <2>0 DEF Told, IInv
    <3>6. lastStart >= 0 /\ tb.warmed => tb.next > lastStart
      BY <2>0, <3>1 DEF Told
    <3>7. lastStart >= 0 => r.start > lastStart \/ (r.start = now /\ now <= lastStart)
      BY <3>2, <3>5, <3>6
    <3>8. StartsAdvance'
      BY <3>1, <3>4, <3>7 DEF StartsAdvance
    <3>9. Told'
      BY <3>1, <3>2, <3>4, <3>5 DEF Told
    <3> QED
      BY <3>8, <3>9
  <2>4. CASE Cycle
    <3>0. called = 0 /\ called' = 1
      BY <2>0, <2>4 DEF Cycle, Told
    <3>1. /\ called = 0 /\ called' = 1 /\ cycle /\ UNCHANGED <<now, grid, lastStart>>
          /\ \/ starts' = Append(starts, grid) /\ UNCHANGED <<tb, cycle>>
             \/ starts' = Append(starts, now) /\ tb' = Fresh(nframes) /\ cycle' = FALSE
      BY <2>4, <3>0, Zenon DEF Cycle
    <3>2. /\ starts = <<>> /\ ~ tb.warmed /\ lastStart \in Int
          /\ lastStart >= 0 => lastStart < grid
      BY <2>0, <3>1 DEF Told
    <3>3. grid \in Int /\ now \in Int
      BY DEF IInv
    <3>4. CASE starts' = Append(starts, grid) /\ UNCHANGED <<tb, cycle>>
      <4>1. starts' = <<grid>> /\ starts' # <<>> /\ starts'[1] = grid
        BY <3>2, <3>4
      <4>2. StartsAdvance'
        BY <3>1, <3>2, <4>1 DEF StartsAdvance
      <4>3. Told'
        BY <3>1, <3>2, <3>3, <3>4, <4>1 DEF Told
      <4> QED
        BY <4>2, <4>3
    <3>5. CASE starts' = Append(starts, now) /\ tb' = Fresh(nframes) /\ cycle' = FALSE
      <4>1. starts' = <<now>> /\ starts' # <<>> /\ starts'[1] = now /\ ~ tb'.warmed
        BY <3>2, <3>5 DEF Fresh
      <4>2. StartsAdvance'
        BY <3>1, <3>2, <3>3, <4>1 DEF StartsAdvance
      <4>3. Told'
        BY <3>1, <3>2, <3>3, <3>5, <4>1 DEF Told
      <4> QED
        BY <4>2, <4>3
    <3> QED
      BY <3>1, <3>4, <3>5
  <2>5. CASE UNCHANGED vars
    BY <2>0, <2>5 DEF Told, StartsAdvance, vars, history
  <2> QED
    BY <2>1, <2>2, <2>3, <2>4, <2>5 DEF Next
<1>3. OneCaller => StartsAdvance
  BY DEF OneCaller, StartsAdvance
<1> QED
  BY <1>1, <1>2, <1>3, Invariance, PTL DEF Spec
=============================================================================
