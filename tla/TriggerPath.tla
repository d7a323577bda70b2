---------------------------- MODULE TriggerPath ----------------------------
(***************************************************************************)
(* The consumers of the trigger jacks' edges on the audio thread:          *)
(* tt_poll_events and tt_trigger_block, which renders them as signals      *)
(* (src/src/tt_core.c:561-628).                                            *)
(***************************************************************************)
EXTENDS EventPath

CONSTANTS
  HeldMax,     \* TT_HELD_MAX
  ChanCounts   \* the values of nchan they pass

VARIABLES
  held,       \* ctx->held[0 .. nheld - 1]
  render,     \* ctx->trig_render
  apc,        \* the audio thread: "idle", or "drain" and "place" in tt_trigger_block
  block,      \* the first window not rendered yet: from block * Window
  again,      \* the last block begun was of the window before that, for another object
  nchan,      \* the channels asked for
  out,        \* out[l]: the signal of jack l last rendered
  polled,     \* what tt_poll_events has returned, in order
  applied     \* history: the number of edges of l tt_trigger_block has consumed

audio == <<held, render, apc, block, again, nchan, out, applied>>

\* The window being rendered starts here.
Start == (IF again THEN block - 1 ELSE block) * Window

AudioInit ==
  /\ held = <<>> /\ render = [l \in Jacks |-> FALSE]
  /\ apc = "idle" /\ block = 0 /\ again = FALSE /\ nchan = setup.jacks
  /\ out = [l \in Jacks |-> [f \in 1 .. Frames |-> FALSE]]
  /\ polled = <<>>
  /\ applied = [l \in Jacks |-> 0]

-----------------------------------------------------------------------------
\* One pop of tt_poll_events, on the audio thread too.
PollEvents ==
  /\ setup.host = "render" /\ apc = "idle"
  /\ ev # <<>>
  /\ polled' = Append(polled, Head(ev))
  /\ ev' = Tail(ev)
  /\ UNCHANGED <<now, kernel, sampler, tev, audio>>

\* The host renders a block once it is over, as tedium.h:219-227 requires; Csound, that
\* renders its period in pieces of 64 frames, renders all but the last one later.
\* Objects that share the context each render the window, one after another.
TriggerBlock ==
  /\ setup.host = "render" /\ apc = "idle"
  /\ \/ now >= (block + 1) * Window /\ again' = FALSE
     \/ block > 0 /\ again' = TRUE
  /\ apc' = "drain"
  /\ nchan' \in ChanCounts
  /\ UNCHANGED <<now, kernel, sampler, ev, tev, polled>>
  /\ UNCHANGED <<held, render, block, out, applied>>

DrainHeld ==
  /\ apc = "drain"
  /\ tev # <<>> /\ Len(held) < HeldMax
  /\ held' = Append(held, Head(tev))
  /\ tev' = Tail(tev)
  /\ UNCHANGED <<now, kernel, sampler, ev, polled>>
  /\ UNCHANGED <<render, apc, block, again, nchan, out, applied>>

\* A bug: rounded up to the next frame.
Mutant_FrameOf(e) ==
  IF TimeOf(e) <= Start THEN 1
  ELSE Least(Frames, (TimeOf(e) - Start + setup.period - 1) \div setup.period + 1)

\* The frame an edge is placed on: 0 if it is late, counted from 1 here.
FrameOf(e) ==
  IF TimeOf(e) <= Start THEN 1 ELSE Least(Frames, (TimeOf(e) - Start) \div setup.period + 1)

\* Not after this window: such an edge stays held.
Due(e) == TimeOf(e) < Start + Window

\* Each channel starts at the level it ended the block before on.
StartLevels ==
  /\ apc = "drain"
  /\ tev = <<>> \/ Len(held) >= HeldMax
  /\ out' = [l \in Jacks |-> [f \in 1 .. Frames |-> l <= nchan /\ render[l]]]
  /\ apc' = "place"
  /\ UNCHANGED <<now, kernel, sampler, ev, tev, polled>>
  /\ UNCHANGED <<held, render, block, again, nchan, applied>>

\* The next edge of this window overwrites the rest of the block.  One of a channel
\* that this block does not ask for is dropped, and counts as consumed.
PlaceEdge ==
  /\ apc = "place"
  /\ \E i \in DOMAIN held :
       LET e == held[i] IN
       /\ Due(e) /\ \A j \in 1 .. i - 1 : ~ Due(held[j])
       /\ held' = RemoveAt(held, i)
       /\ applied' = [applied EXCEPT ![e.line] = @ + 1]
       /\ IF e.line <= nchan
          THEN /\ render' = [render EXCEPT ![e.line] = Active(e.num)]
               /\ out' = [out EXCEPT ![e.line] =
                    [f \in 1 .. Frames |-> IF f >= FrameOf(e) THEN Active(e.num) ELSE @[f]]]
          ELSE UNCHANGED <<render, out>>
  /\ UNCHANGED <<now, kernel, sampler, ev, tev, polled>>
  /\ UNCHANGED <<apc, block, again, nchan>>

BlockDone ==
  /\ apc = "place"
  /\ \A i \in DOMAIN held : ~ Due(held[i])
  /\ apc' = "idle"
  /\ block' = IF again THEN block ELSE block + 1
  /\ UNCHANGED <<now, kernel, sampler, ev, tev, polled>>
  /\ UNCHANGED <<held, render, again, nchan, out, applied>>

Audio == PollEvents \/ TriggerBlock \/ DrainHeld \/ StartLevels \/ PlaceEdge \/ BlockDone

-----------------------------------------------------------------------------
(* Correctness *)

\* The jacks that every block asks for.
Rendered == {l \in Jacks : \A c \in ChanCounts : l <= c}

\* On each jack that every block asks for, no edge is lost, repeated or overtaken on
\* the way to the rendered signals of all the objects together (tedium~.c:28-30),
\* except those tev refused and counted: the object that renders first takes an edge,
\* and the others' signals are without it.  If none was refused, those rendered are
\* the line's first.
RenderPathIntact ==
  \A l \in Rendered :
    LET way == held \o tev \o batch \o kq[l] IN
    /\ InOrder(l, way)
    /\ applied[l] + Count(l, way) + tevLost[l] = Len(edges[l])
    /\ tevLost[l] = 0 => \A i \in DOMAIN way : way[i].line = l => applied[l] < way[i].num

\* The same of the edges tt_poll_events returns, whatever tt_trigger_block takes
\* (tedium.h:229-230, "Independent of tt_poll_events -- using both is fine").
PollPathIntact ==
  setup.host = "render" => \A l \in Jacks :
    LET way == polled \o ev \o Left \o kq[l] IN
    /\ InOrder(l, way)
    /\ Count(l, way) + evLost[l] = Len(edges[l])

\* A host that has polled an edge reads a level (tt_trigger_state) that is at
\* least as new as that edge.
StateNotBehindEvents ==
  \A i \in DOMAIN polled : polled[i].num <= level[polled[i].line]

\* Edges of line l before time t.
Before(l, t) == Cardinality({n \in DOMAIN edges[l] : edges[l][n] < t})

\* The signal just rendered, by the first object, is the level the jack had at the end of each frame,
\* as far as the edges had arrived: an edge that came in time is on its exact
\* frame, a late one is on frame 0, and none is early (tedium.h:210-229).
EdgesOnTheirFrames ==
  (apc = "idle" /\ block > 0 /\ ~ again) =>
    \A l \in Rendered : tevLost[l] = 0 =>
      \A f \in 1 .. Frames :
        out[l][f] =
          Active(Least(applied[l], Before(l, (block - 1) * Window + f * setup.period)))
=============================================================================
