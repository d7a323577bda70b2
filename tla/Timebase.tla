------------------------------ MODULE Timebase ------------------------------
(***************************************************************************)
(* The delay-locked loop of tt_time.c, ticked by an audio host.            *)
(*                                                                         *)
(* A host starts a block every so often.  A callback may come late, and    *)
(* those due meanwhile come right after it, in a burst; the stream stalls  *)
(* now and then.  In each block every caller (JACK, Pd and ChucK have one, *)
(* Csound one per opcode) ticks the loop once and takes what it returns    *)
(* for the time of the block's first frame.  The JACK client is told that  *)
(* time by JACK, until JACK cannot; then it has a loop for good.           *)
(*                                                                         *)
(* Times are integers and the loop's doubles are rounded to them: b * e    *)
(* and c * e are e \div BDen and e \div CDen towards zero.                 *)
(***************************************************************************)
EXTENDS Integers, SequencesExt

CONSTANTS
  PerFrame,     \* time of one frame
  Sizes,        \* the block sizes the host may use, in frames
  Jitters,      \* how late a callback may come
  Stalls,       \* how long the stream may stall before a block (0: not)
  Reinits,      \* does the host start a new loop for a new size? {TRUE}: always
  CallerCounts, \* ticks per block a run may have: the opcodes that share the loop
  BDen, CDen,   \* the loop's coefficients are 1 / BDen and 1 / CDen
  MaxBlocks,    \* bound on the blocks of a run
  MaxUpsets     \* bound on its late callbacks, stalls and changes of size or channel

ASSUME TimebaseAssumption ==
  /\ PerFrame \in Nat \ {0} /\ CallerCounts \subseteq Nat \ {0}
  /\ MaxBlocks \in Nat /\ MaxUpsets \in Nat
  /\ Sizes \subseteq Nat \ {0} /\ Sizes # {}
  /\ Reinits \subseteq BOOLEAN
  /\ Jitters \subseteq Nat /\ Stalls \subseteq Nat
  \* c < 1/10: blocks of at most 4096 frames at 48 kHz and 0.5 Hz
  /\ BDen \in Nat \ {0} /\ CDen \in Nat /\ CDen > 10

VARIABLES
  callers,   \* how many callers there are
  grid,      \* the true time of the block's first frame
  blocks,    \* blocks started
  now,       \* the time the callback reads
  nframes,   \* the block's size
  called,    \* how many callers have ticked in this block
  tb,        \* struct tt_timebase
  starts,    \* what each caller of this block was told
  lastStart, \* what the first caller of the block before was told
  cycle,     \* JACK's ~use_dll: it says when its cycles start
  upsets,    \* late callbacks, stalls and changes of the stream so far
  steady,    \* nothing but late callbacks since a fresh loop locked, and it has not relocked
  ref,       \* how late the callback was when the loop last locked
  moved      \* how many callbacks since then, before this one, were not as late

history == <<steady, ref, moved>>
vars == <<callers, grid, blocks, now, nframes, called, tb, starts, lastStart, cycle, upsets, history>>

Nominal(n) == n * PerFrame
Abs(x) == IF x < 0 THEN -x ELSE x
Later(x, y) == IF x < y THEN y ELSE x
Count(b) == IF b THEN 1 ELSE 0
Scaled(e, d) == IF e < 0 THEN -((-e) \div d) ELSE e \div d

\* A loop before its first tick.
Fresh(n) == [warmed |-> FALSE, next |-> 0, period |-> Nominal(n), frames |-> 0]

\* The cases of tt_timebase_tick, in its order: what the loop becomes and
\* what the caller is told.
Relock(t, period, n) ==
  [tb |-> [warmed |-> TRUE, next |-> t + period, period |-> period, frames |-> n], start |-> t]

\* The period of blocks of another size, rounded up.
Rescaled(n) == -((-(tb.period * n)) \div tb.frames)

\* The size changed by more than a factor of two either way.
Reseeds(n) == 2 * n < tb.frames \/ n > 2 * tb.frames

\* A bug: the period is corrected by the whole error.
Mutant_WholeError(t, n) ==
  LET e == t - tb.next
  IN [tb |-> [warmed |-> TRUE, next |-> tb.next + Scaled(e, BDen) + tb.period,
              period |-> tb.period + e, frames |-> n],
      start |-> tb.next]

\* A bug: the caller is told the time that was measured.
Mutant_Raw(t, n) ==
  LET e == t - tb.next
  IN [tb |-> [warmed |-> TRUE, next |-> tb.next + Scaled(e, BDen) + tb.period,
              period |-> tb.period + Scaled(e, CDen), frames |-> n],
      start |-> t]

\* A bug: the next start is predicted without the period.
Mutant_NoPeriod(t, n) ==
  LET e == t - tb.next
  IN [tb |-> [warmed |-> TRUE, next |-> tb.next + Scaled(e, BDen),
              period |-> tb.period + Scaled(e, CDen), frames |-> n],
      start |-> tb.next]

\* An error of the prediction pulls it, and the period, towards what was measured.
Track(t, n) ==
  LET e == t - tb.next
  IN [tb |-> [warmed |-> TRUE, next |-> tb.next + Scaled(e, BDen) + tb.period,
              period |-> tb.period + Scaled(e, CDen), frames |-> n],
      start |-> tb.next]

FarOff(t) == Abs(t - tb.next) > 10 * tb.period

\* The caller's tick.
TickResult(t, n) ==
  IF ~tb.warmed THEN Relock(t, tb.period, n)
  ELSE IF Reseeds(n) THEN Relock(t, Rescaled(n), n)
  ELSE IF FarOff(t) THEN Relock(t, tb.period, n)
  ELSE Track(t, n)

Init ==
  /\ callers \in CallerCounts
  /\ grid = 0 /\ now = 0 /\ blocks = 0 /\ called = callers /\ starts = <<>>
  /\ nframes \in Sizes
  /\ tb = Fresh(nframes)
  /\ lastStart = -1 /\ upsets = 0
  /\ steady = FALSE /\ ref = 0 /\ moved = 0
  /\ cycle \in BOOLEAN /\ (cycle => callers = 1)

\* The host's next callback, late by j or behind the one before it.
NextBlock(start, j) ==
  /\ called = callers /\ blocks < MaxBlocks
  /\ grid' = start /\ now' = Later(now, start + j)
  /\ lastStart' = IF starts = <<>> THEN -1 ELSE starts[1]
  /\ blocks' = blocks + 1 /\ called' = 0 /\ starts' = <<>>
  /\ moved' = moved + Count(now - grid # ref)
  /\ UNCHANGED <<callers, cycle, ref>>

\* The host starts its next block: on the grid unless the stream stalled.
\* A loop that has not ticked yet was made for the size of its first block.
Block ==
  \E n \in Sizes, s \in Stalls, j \in Jitters, reinit \in Reinits :
    /\ NextBlock(grid + Nominal(nframes) + s, j)
    /\ nframes' = n
    /\ tb' = IF n # nframes /\ (reinit \/ ~ tb.warmed) THEN Fresh(n) ELSE tb
    /\ steady' = (steady /\ s = 0 /\ n = nframes)
    /\ upsets' = upsets + Count(j > 0) + Count(s > 0) + Count(n # nframes)
    /\ upsets' <= MaxUpsets

\* ChucK's object changes its channel within a block, throws the rest of the
\* block away, and its next sample is the first of a block.
ChangeChannel ==
  /\ callers = 1 /\ ~ cycle
  /\ \E frames \in 1 .. nframes - 1, j \in Jitters :
       /\ NextBlock(grid + Nominal(frames), j)
       /\ upsets' = upsets + Count(j > 0) + 1
  /\ upsets' <= MaxUpsets
  /\ steady' = FALSE
  /\ UNCHANGED <<nframes, tb>>

\* One caller ticks. Nothing tells the second caller of a block that the loop
\* was ticked already (tedium_opcodes.c:123-131).
Tick ==
  /\ called < callers /\ ~ cycle
  /\ LET r == TickResult(now, nframes)
     IN /\ tb' = r.tb
        /\ starts' = Append(starts, r.start)
  /\ IF ~ tb.warmed THEN steady' = TRUE /\ ref' = now - grid /\ moved' = 0
     ELSE /\ steady' = (steady /\ ~ Reseeds(nframes) /\ ~ FarOff(now))
          /\ UNCHANGED <<ref, moved>>
  /\ called' = called + 1
  /\ UNCHANGED <<callers, grid, blocks, now, nframes, lastStart, cycle, upsets>>

\* JACK's process(): the true start of the cycle, or once a fresh loop that ticks
\* first in the cycle after.
Cycle ==
  /\ called < callers /\ cycle
  /\ \/ starts' = Append(starts, grid) /\ UNCHANGED <<tb, cycle>>
     \/ starts' = Append(starts, now) /\ tb' = Fresh(nframes) /\ cycle' = FALSE
  /\ called' = called + 1
  /\ UNCHANGED <<callers, grid, blocks, now, nframes, lastStart, upsets, history>>

Next == Block \/ ChangeChannel \/ Tick \/ Cycle
Spec == Init /\ [][Next]_vars

-----------------------------------------------------------------------------
MaxJitter == CHOOSE j \in Jitters : \A k \in Jitters : k <= j

\* The estimate of the block's duration stays positive, whatever the host's
\* callbacks do (tt_time.c:107 adds c * e to it, with e down to -10 periods).
PeriodPositive == tb.period > 0

\* A later block starts after an earlier one (their render windows would overlap),
\* over late callbacks, bursts, stalls, new sizes, relocks and JACK's change to a
\* loop, but for one case: the start told before is one the clock has still not
\* reached, and the loop gives it up for the clock.
StartsAdvance ==
  callers = 1 /\ starts # <<>> /\ lastStart >= 0
    => starts[1] > lastStart \/ (starts[1] = now /\ now <= lastStart)

\* What the loop is for (test_time.c:38-78): a callback that is not as late as the
\* one the loop locked on moves the starts it tells by no more than its gain times
\* what callbacks are late, not by that lateness; many add up to no more than
\* their number.
JitterRejected ==
  callers = 1 /\ steady /\ starts # <<>>
    => BDen * Abs(starts[1] - (grid + ref)) <= MaxJitter * moved
=============================================================================
