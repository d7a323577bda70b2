------------------------------- MODULE CvBlock ------------------------------
(***************************************************************************)
(* tt_cv_block and the search under it, tt_cvring_find (src/src/tt_core.c: *)
(* 419-509, src/src/tt_ring.c:81-110): the audio thread renders a block    *)
(* of CV by interpolating between the scans that bracket each frame, while *)
(* the sampling thread goes on pushing scans and overwriting the oldest.   *)
(*                                                                         *)
(* Each tt_cvring_get is a step.  It returns its scan, or nothing once it  *)
(* was lapped, or, a ring length behind the scan being written, a mix of   *)
(* the two (what a get copies is the subject of CvRing: AcceptedIsExact,   *)
(* TearsMixTwoScans).  A frame's value follows from the pair of scans it   *)
(* is interpolated from, so that pair is the frame.  Of the smoothing      *)
(* filter's state only its origin matters: nothing, scans rendered since   *)
(* smoothing was last set, or older ones.                                  *)
(***************************************************************************)
EXTENDS Integers, Sequences, FiniteSetsExt

CONSTANTS
  Size,      \* ctx->cv.size
  Frames,    \* nframes
  Period,    \* ns_per_frame
  Gaps,      \* times between two scans: overruns and failed scans stretch them
  MaxScans,  \* bound on the scans pushed
  Slack,     \* how many pushes the visible widx may lag (see CvRing)
  NumCv,     \* ctx->num_cv
  ChanCounts \* the values of nchan that hosts pass

ASSUME SizeAssumption   == Size \in Nat /\ Size >= 2
ASSUME SlackAssumption  == Slack \in 0 .. Size - 1
ASSUME FramesAssumption == Frames \in Nat /\ Frames >= 1
ASSUME PeriodAssumption == Period \in Nat /\ Period >= 1
ASSUME GapsAssumption   == Gaps \subseteq Nat \ {0}
ASSUME ChansAssumption  == NumCv \in Nat \ {0} /\ ChanCounts \subseteq Nat \ {0}

VARIABLES
  stamps,   \* t_ns of every scan whose push has begun
  widx,     \* ctx->cv.widx as the audio thread sees it
  pc,       \* place in tt_cv_block
  t0, w, first,  \* t0_ns, and w and lo of tt_cv_block
  lo, hi,   \* the search interval
  found, idx,    \* the result of the search; then the scan a
  haveB,    \* have_b; b is idx + 1 if so, else a
  bTime,    \* b.t_ns, while there is a b
  out,      \* the frames rendered so far
  ret,      \* the result, 1 while there is none
  lapped,   \* history: a scan of this block was overwritten before it was read
  torn,     \* history: one was read while the push that overwrites it was on
  nc,       \* channels asked for and there are
  smooth,   \* ctx->smooth_hz > 0
  primed,   \* ctx->smooth_primed, as the channels primed: 0 for none
  z,        \* what ctx->smooth_z[ch] comes from: "zero", "since" or "before"
  latest    \* the scan tt_cv_latest or tt_cv_raw has just returned, else -1

ring == <<stamps, widx>>
call == <<t0, w, first>>
pair == <<idx, haveB, bTime>>
history == <<lapped, torn>>
filter == <<nc, smooth, primed, z>>
vars == <<ring, pc, call, lo, hi, found, pair, out, ret, history, filter, latest>>

Chans == 1 .. NumCv

Stamp(i) == stamps[i + 1]
FrameTime(f) == t0 + (f - 1) * Period

\* tt_cvring_get returns 0.
Readable(i) == i < widx /\ widx - i <= Size

\* The push of the scan that takes the slot of scan i has begun.
Overwriting(i) == i + Size < Len(stamps)

\* The times a get of scan i may return; its codes may be mixed as well.
SeenTimes(i) == {Stamp(i)} \cup (IF Overwriting(i) THEN {Stamp(i + Size)} ELSE {})

\* A get that returned 0 leaves a mark if it may have returned a mix.
Got(i) == torn' = (torn \/ Overwriting(i))

Init ==
  /\ stamps = <<>> /\ widx = 0
  /\ pc = "idle" /\ t0 = 0 /\ w = 0 /\ first = 0
  /\ lo = 0 /\ hi = 0 /\ found = 0 /\ idx = 0 /\ haveB = FALSE /\ bTime = 0
  /\ out = <<>> /\ ret = 1 /\ lapped = FALSE /\ torn = FALSE
  /\ nc = 0 /\ smooth = FALSE /\ primed = 0 /\ z = [c \in Chans |-> "zero"] /\ latest = -1

\* tt_cvring_push: the words of a scan go to its slot ...
PushScan(gap) ==
  /\ Len(stamps) < MaxScans /\ Len(stamps) - widx <= Slack
  /\ stamps' = Append(stamps, gap + (IF stamps = <<>> THEN 0 ELSE Stamp(Len(stamps) - 1)))
  /\ UNCHANGED <<widx, pc, call, lo, hi, found, pair, out, ret, history, filter, latest>>

\* ... and then the index that advertises it.
Publish ==
  /\ widx' \in widx + 1 .. Len(stamps)
  /\ UNCHANGED <<stamps, pc, call, lo, hi, found, pair, out, ret, history, filter, latest>>

-----------------------------------------------------------------------------
\* fill_last: no frame is rendered, the last known values are repeated.
Fail == pc' = "idle" /\ ret' = -1

Oldest(n) == IF n > Size THEN n - Size + 1 ELSE 0

Begin(t) ==
  /\ pc = "idle"
  /\ \E n \in ChanCounts : nc' = Min({n, NumCv})
  /\ t0' = t /\ w' = widx /\ first' = Oldest(widx)
  /\ lo' = first' /\ hi' = widx
  /\ out' = <<>> /\ lapped' = FALSE /\ torn' = FALSE
  /\ IF widx = 0 THEN Fail ELSE pc' = "fast" /\ ret' = 1
  /\ latest' = -1
  /\ UNCHANGED <<ring, found, pair, smooth, primed, z>>

\* The newest scan is tried first.
FindFast ==
  /\ pc = "fast"
  /\ \/ /\ Readable(w - 1) /\ Got(w - 1)
        /\ \E t \in SeenTimes(w - 1) :
             IF t <= t0 THEN pc' = "a" /\ idx' = w - 1 /\ found' = 1
                        ELSE pc' = "lo" /\ UNCHANGED <<idx, found>>
     \/ ~ Readable(w - 1) /\ pc' = "lo" /\ UNCHANGED <<idx, found, torn>>
  /\ UNCHANGED <<ring, call, lo, hi, haveB, bTime, out, ret, lapped, filter, latest>>

\* The oldest: t0 may predate the ring.
FindLo ==
  /\ pc = "lo"
  /\ \/ ~ Readable(lo) /\ Fail /\ UNCHANGED <<idx, found, torn>>
     \/ /\ Readable(lo) /\ Got(lo)
        /\ \E t \in SeenTimes(lo) :
             IF t > t0 THEN pc' = "a" /\ idx' = lo /\ found' = 0
                       ELSE pc' = "search" /\ UNCHANGED <<idx, found>>
        /\ UNCHANGED ret
  /\ UNCHANGED <<ring, call, lo, hi, haveB, bTime, out, lapped, filter, latest>>

\* A bug: a scan stamped exactly t0 is taken for a later one.
Mutant_FindMid ==
  /\ pc = "search" /\ hi - lo > 1
  /\ LET mid == lo + (hi - lo) \div 2 IN
     \/ ~ Readable(mid) /\ Fail /\ UNCHANGED <<lo, hi, torn>>
     \/ /\ Readable(mid) /\ Got(mid)
        /\ \E t \in SeenTimes(mid) : IF t < t0 THEN lo' = mid /\ UNCHANGED hi
                                             ELSE hi' = mid /\ UNCHANGED lo
        /\ UNCHANGED <<pc, ret>>
  /\ UNCHANGED <<ring, call, found, pair, out, lapped, filter, latest>>

FindMid ==
  /\ pc = "search" /\ hi - lo > 1
  /\ LET mid == lo + (hi - lo) \div 2 IN
     \/ ~ Readable(mid) /\ Fail /\ UNCHANGED <<lo, hi, torn>>
     \/ /\ Readable(mid) /\ Got(mid)
        /\ \E t \in SeenTimes(mid) : IF t <= t0 THEN lo' = mid /\ UNCHANGED hi
                                              ELSE hi' = mid /\ UNCHANGED lo
        /\ UNCHANGED <<pc, ret>>
  /\ UNCHANGED <<ring, call, found, pair, out, lapped, filter, latest>>

FindDone ==
  /\ pc = "search" /\ hi - lo <= 1
  /\ pc' = "a" /\ idx' = lo /\ found' = 1
  /\ UNCHANGED <<ring, call, lo, hi, haveB, bTime, out, ret, history, filter, latest>>

\* The search returns, and its bounds are gone with it.
GetA ==
  /\ pc = "a"
  /\ IF Readable(idx) THEN pc' = "b" /\ Got(idx) /\ UNCHANGED ret ELSE Fail /\ UNCHANGED torn
  /\ lo' = 0 /\ hi' = 0 /\ found' = 0
  /\ UNCHANGED <<ring, call, pair, out, lapped, filter, latest>>

\* Fetch the scan after i, if the block began with it in the ring.
GetNext(i) ==
  /\ haveB'  = (i + 1 < w /\ Readable(i + 1))
  /\ lapped' = (lapped \/ (i + 1 < w /\ ~ Readable(i + 1)))
  /\ IF haveB' THEN bTime' \in SeenTimes(i + 1) /\ Got(i + 1)
              ELSE bTime' = 0 /\ UNCHANGED torn

\* The filter starts from the first scan rendered since smoothing was set, in the
\* channels this block has.
Prime ==
  IF smooth /\ primed = 0
  THEN primed' = nc /\ z' = [c \in Chans |-> IF c <= nc THEN "since" ELSE z[c]]
  ELSE UNCHANGED <<primed, z>>

GetB ==
  /\ pc = "b"
  /\ GetNext(idx)
  /\ Prime
  /\ pc' = "frame"
  /\ UNCHANGED <<ring, call, lo, hi, found, idx, out, ret, nc, smooth, latest>>

\* The frame about to be rendered is at or after b: b becomes a.
PastB == haveB /\ bTime <= FrameTime(Len(out) + 1)

Advance ==
  /\ pc = "frame" /\ Len(out) < Frames
  /\ PastB
  /\ idx' = idx + 1
  /\ GetNext(idx + 1)
  /\ UNCHANGED <<ring, pc, call, lo, hi, found, out, ret, filter, latest>>

\* A bug: the pair moves on at most once per frame.
Mutant_Render ==
  /\ pc = "frame" /\ Len(out) < Frames
  /\ out' = Append(out, [a |-> idx, b |-> IF haveB THEN idx + 1 ELSE idx])
  /\ UNCHANGED <<ring, pc, call, lo, hi, found, pair, ret, history, filter, latest>>

Render ==
  /\ pc = "frame" /\ Len(out) < Frames
  /\ ~ PastB
  /\ out' = Append(out, [a |-> idx, b |-> IF haveB THEN idx + 1 ELSE idx])
  /\ UNCHANGED <<ring, pc, call, lo, hi, found, pair, ret, history, filter, latest>>

\* The pair of scans is a local of the block.
Finish ==
  /\ pc = "frame" /\ Len(out) = Frames
  /\ pc' = "idle" /\ ret' = 0
  /\ idx' = 0 /\ haveB' = FALSE /\ bTime' = 0
  /\ UNCHANGED <<ring, call, lo, hi, found, out, history, filter, latest>>

-----------------------------------------------------------------------------
Block == FindFast \/ FindLo \/ FindMid \/ FindDone \/ GetA \/ GetB
         \/ Advance \/ Render \/ Finish

\* A host renders blocks in turn, or Csound in pieces of 64 frames; from any time.
LatestTime == IF widx = 0 THEN 0 ELSE Stamp(widx - 1)
HostRenders == \E t \in 0 .. LatestTime + 1 : Begin(t)

\* A bug: the filter goes on from where it was left.
Mutant_SetSmoothing(on) ==
  /\ pc = "idle"
  /\ smooth' = on
  /\ z' = [c \in Chans |-> IF z[c] = "zero" THEN "zero" ELSE "before"]
  /\ UNCHANGED <<ring, pc, call, lo, hi, found, pair, out, ret, history, nc, primed>>
  /\ UNCHANGED latest

\* tt_set_cv_smoothing, from the host's own thread.
SetSmoothing(on) ==
  /\ pc = "idle"
  /\ smooth' = on /\ primed' = 0
  /\ z' = [c \in Chans |-> IF z[c] = "zero" THEN "zero" ELSE "before"]
  /\ UNCHANGED <<ring, pc, call, lo, hi, found, pair, out, ret, history, nc, latest>>

\* tt_cv_latest and tt_cv_raw: the count, then the scan before it.
LatestCount ==
  /\ pc = "idle" /\ latest' = widx - 1
  /\ IF widx = 0 THEN UNCHANGED pc ELSE pc' = "latest"
  /\ UNCHANGED <<ring, call, lo, hi, found, pair, out, ret, history, filter>>

\* Lapped, a caller has the last value of a block (tt_cv_latest) or 0 (tt_cv_raw).
LatestGet ==
  /\ pc = "latest"
  /\ pc' = "idle"
  /\ latest' = IF Readable(latest) THEN latest ELSE -1
  /\ UNCHANGED <<ring, call, lo, hi, found, pair, out, ret, history, filter>>

Next == \/ (\E gap \in Gaps : PushScan(gap)) \/ Publish
        \/ HostRenders
        \/ Block
        \/ LatestCount \/ LatestGet
        \/ \E on \in BOOLEAN : SetSmoothing(on)

Spec == Init /\ [][Next]_vars

-----------------------------------------------------------------------------
(* Correctness *)

\* The newest of the first n scans stamped at or before t, or -1.
Newest(t, n) == Max({-1} \cup {i \in 0 .. n - 1 : Stamp(i) <= t})

\* The search returns no scan later than the newest at or before t0, and that one
\* itself, or that t0 is older than the oldest it may look at, unless a scan it
\* looked at was just then being overwritten (tt_ring.c:72-78).  And the latest
\* reading is no older than any frame of the block rendered before it.
FindIsNewest ==
  /\ pc = "a" => IF found = 1
                 THEN idx <= Newest(t0, w) /\ (~ torn => idx = Newest(t0, w))
                 ELSE idx = first /\ (~ torn => Newest(t0, w) < first)
  /\ (pc = "idle" /\ latest >= 0) => \A f \in DOMAIN out : out[f].b <= latest

\* A frame is interpolated between the scans on either side of it: exactly those
\* unless one was overwritten first, or was being overwritten as it was read, and
\* then from an older place, held.  The pair never moves back.
FramesBracketed ==
  \A f \in DOMAIN out :
    LET true == Max({first, Newest(FrameTime(f), w)}) IN
    /\ out[f].a <= true
    /\ ~ (lapped \/ torn) => out[f] = [a |-> true, b |-> IF true + 1 < w THEN true + 1 ELSE true]
    /\ (out[f].b > out[f].a /\ ~ torn) => FrameTime(f) < Stamp(out[f].b)
    /\ f > 1 => out[f - 1].a <= out[f].a

\* A smoothed frame comes from scans rendered since smoothing was last set and from
\* no others, over blocks that fail, changes of the cutoff, and smoothing off and
\* on again: but for a channel that was not in the block that primed the filter.
SmoothedSinceSet ==
  (pc = "frame" /\ smooth) =>
    /\ primed > 0
    /\ \A c \in 1 .. Min({nc, primed}) : z[c] = "since"
=============================================================================
