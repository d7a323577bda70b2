----------------------------- MODULE EventPath -----------------------------
(***************************************************************************)
(* The way of an edge from a jack or a button to the library's users: the  *)
(* kernel's line queue, gpio_poll, and handle_events in the sampling       *)
(* thread, which publishes the line's level, a button's time of press, and *)
(* queues the edge in the two event rings (src/src/tt_core.c:159-199).     *)
(* TriggerPath and Buttons add those that take the edges out.              *)
(*                                                                         *)
(* The n-th edge of a line is active for odd n, so an edge is its line and *)
(* its number; edges holds the kernel's time stamps.  The rings are the    *)
(* abstract queues that EvRing implements.  Jacks come before buttons on   *)
(* the lines.                                                              *)
(***************************************************************************)
EXTENDS Naturals, Sequences, FiniteSets, SequencesExt

CONSTANTS
  Setups,      \* the hosts and what is connected: see SetupAssumption
  RingSize,    \* capacity of ev and of tev (512)
  BatchMax,    \* TT_EVENT_BATCH
  Frames,      \* nframes of a block
  MaxEdges     \* bound on the edges of all the lines together

\* A host, the lines that see edges, ns_per_frame, and a bound on its clock.
ASSUME SetupAssumption ==
  \A s \in Setups : /\ s.host \in {"render", "pd", "jack", "reader"}
                    /\ {s.jacks, s.buttons, s.maxTime} \subseteq Nat
                    /\ s.jacks + s.buttons >= 1
                    /\ s.period \in Nat \ {0}
ASSUME LimitAssumption == {RingSize, BatchMax, Frames} \subseteq Nat \ {0}

VARIABLES
  setup,       \* which host it is
  now,
  edges,       \* edges[l][n]: when the n-th edge of line l happened
  kq,          \* the edges of l still queued in the kernel
  spc, batch,  \* the sampling thread: its place in handle_events, edges to go
  level,       \* ctx->trig_level and btn_level, as the number of the edge that set it
  btnSince,    \* ctx->btn_since
  ev, tev,     \* the two rings
  evLost, tevLost,   \* the edges of l that each has refused: its drop counter
  nEvents      \* ctx->n_events

kernel  == <<setup, edges, kq>>
counts  == <<evLost, tevLost, nEvents>>
sampler == <<spc, batch, level, btnSince, counts>>
path    == <<now, kernel, sampler, ev, tev>>

Lines   == 1 .. setup.jacks + setup.buttons
Jacks   == 1 .. setup.jacks
Buttons == setup.jacks + 1 .. setup.jacks + setup.buttons
Window  == Frames * setup.period

Edge(l, n) == [line |-> l, num |-> n]
TimeOf(e)  == edges[e.line][e.num]
Active(n)  == n % 2 = 1
Least(a, b) == IF a < b THEN a ELSE b

\* Time starts at 1: a btn_since of 0 means no press.
PathInit ==
  /\ setup \in Setups /\ now = 1
  /\ edges = [l \in Lines |-> <<>>] /\ kq = [l \in Lines |-> <<>>]
  /\ spc = "poll" /\ batch = <<>>
  /\ level = [l \in Lines |-> 0] /\ btnSince = [b \in Buttons |-> 0]
  /\ ev = <<>> /\ tev = <<>>
  /\ evLost = [l \in Lines |-> 0] /\ tevLost = [l \in Lines |-> 0] /\ nEvents = 0

-----------------------------------------------------------------------------
(* The lines and the clock. *)

Tick ==
  /\ now < setup.maxTime
  /\ now' = now + 1
  /\ UNCHANGED <<kernel, sampler, ev, tev>>

TotalEdges == FoldSet(LAMBDA l, n : n + Len(edges[l]), 0, Lines)

Happen(l) ==
  /\ TotalEdges < MaxEdges
  /\ edges' = [edges EXCEPT ![l] = Append(@, now)]
  /\ kq'    = [kq EXCEPT ![l] = Append(@, Edge(l, Len(edges[l]) + 1))]
  /\ UNCHANGED <<setup, now, sampler, ev, tev>>

-----------------------------------------------------------------------------
(* handle_events *)

\* One snapshot of the queues stands for poll() and the reads one after another: an
\* edge that comes in between is one of the next call's.
\* gpio_poll reads line l until it is empty or the batch, which has n, is full.
Share(l, n) == Least(Len(kq[l]), BatchMax - n)

\* The lines in turn, each drained before the next.
Taken[l \in 0 .. setup.jacks + setup.buttons] ==
  IF l = 0 THEN <<>>
  ELSE Taken[l - 1] \o SubSeq(kq[l], 1, Share(l, Len(Taken[l - 1])))

PollHal ==
  /\ spc = "poll"
  /\ batch' = Taken[setup.jacks + setup.buttons]
  /\ kq' = [l \in Lines |-> SubSeq(kq[l], Share(l, Len(Taken[l - 1])) + 1, Len(kq[l]))]
  /\ spc' = IF batch' = <<>> THEN "poll" ELSE "level"
  /\ UNCHANGED <<setup, now, edges, level, btnSince, counts, ev, tev>>

\* A button's level and its time of press are relaxed stores: they reach memory in
\* either order, both before the edge's push, which loads with acquire and stores
\* with release.
AfterLevel == IF spc = "level" /\ Head(batch).line \in Buttons THEN "since" ELSE "ev"

\* A bug: the level is published only once the edge is in the rings.
Mutant_StoreLevel ==
  /\ spc \in {"level", "levelLast"}
  /\ spc' = AfterLevel
  /\ UNCHANGED <<now, kernel, batch, level, btnSince, counts, ev, tev>>

StoreLevel ==
  /\ spc \in {"level", "levelLast"}
  /\ level' = [level EXCEPT ![Head(batch).line] = Head(batch).num]
  /\ spc' = AfterLevel
  /\ UNCHANGED <<now, kernel, batch, btnSince, counts, ev, tev>>

AfterSince == IF spc = "level" THEN "levelLast" ELSE "ev"

\* A bug: a release leaves the time of its press.
Mutant_StoreSince ==
  /\ spc \in {"level", "since"} /\ Head(batch).line \in Buttons
  /\ btnSince' = IF Active(Head(batch).num)
                 THEN [btnSince EXCEPT ![Head(batch).line] = TimeOf(Head(batch))]
                 ELSE btnSince
  /\ spc' = AfterSince
  /\ UNCHANGED <<now, kernel, batch, level, counts, ev, tev>>

StoreSince ==
  /\ spc \in {"level", "since"} /\ Head(batch).line \in Buttons
  /\ btnSince' = [btnSince EXCEPT ![Head(batch).line] =
                    IF Active(Head(batch).num) THEN TimeOf(Head(batch)) ELSE 0]
  /\ spc' = AfterSince
  /\ UNCHANGED <<now, kernel, batch, level, counts, ev, tev>>

\* The count of the event, after its last push.
CountEvent ==
  /\ nEvents' = nEvents + 1
  /\ batch' = Tail(batch)
  /\ spc' = IF batch' = <<>> THEN "poll" ELSE "level"

PushEv ==
  /\ spc = "ev"
  /\ IF Len(ev) < RingSize
     THEN ev' = Append(ev, Head(batch)) /\ UNCHANGED evLost
     ELSE evLost' = [evLost EXCEPT ![Head(batch).line] = @ + 1] /\ UNCHANGED ev
  /\ IF Head(batch).line \in Jacks
     THEN spc' = "tev" /\ UNCHANGED <<batch, nEvents>>
     ELSE CountEvent
  /\ UNCHANGED <<now, kernel, level, btnSince, tevLost, tev>>

\* A bug: both copies go into the ring of tt_poll_events.
Mutant_PushTev ==
  /\ spc = "tev"
  /\ ev' = IF Len(ev) < RingSize THEN Append(ev, Head(batch)) ELSE ev
  /\ CountEvent
  /\ UNCHANGED <<now, kernel, level, btnSince, evLost, tevLost, tev>>

\* A trigger's edge goes to the renderer too.
PushTev ==
  /\ spc = "tev"
  /\ IF Len(tev) < RingSize
     THEN tev' = Append(tev, Head(batch)) /\ UNCHANGED tevLost
     ELSE tevLost' = [tevLost EXCEPT ![Head(batch).line] = @ + 1] /\ UNCHANGED tev
  /\ CountEvent
  /\ UNCHANGED <<now, kernel, level, btnSince, evLost, ev>>

HandleEvents == PollHal \/ StoreLevel \/ StoreSince \/ PushEv \/ PushTev

PathNext == Tick \/ (\E l \in Lines : Happen(l)) \/ HandleEvents

-----------------------------------------------------------------------------
(* For the properties *)

\* What of the batch has still to go into ev.
Left == IF spc = "tev" THEN Tail(batch) ELSE batch

\* The edges of line l in q, which are in the order they happened in.
Count(l, q) == Cardinality({i \in DOMAIN q : q[i].line = l})
InOrder(l, q) ==
  \A i, j \in DOMAIN q :
    i < j /\ q[i].line = l /\ q[j].line = l => q[i].num < q[j].num
=============================================================================
