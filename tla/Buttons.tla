------------------------------- MODULE Buttons ------------------------------
(***************************************************************************)
(* What programs make of a button's edges: Pd's clock turns queued edges   *)
(* into messages with a hold time (tedium~.c:173-206), JACK's process into *)
(* MIDI notes (tedium-jack.c:108-135); tt_button_held_ms reads level and   *)
(* time of press (tt_core.c:666-684), for Pd's messages and, at any time,  *)
(* for the opcodes and UGens that show it.                                 *)
(*                                                                         *)
(* Level and time are relaxed words: the two stores of an edge and the two *)
(* loads of a question take effect in either order.  The stores of an edge *)
(* stay apart from those of the next, and the loads of a question from the *)
(* pop before it, as the rings' acquire loads lie between.                 *)
(***************************************************************************)
EXTENDS EventPath

CONSTANT PollMax   \* the host's array (32)

ASSUME PollMaxAssumption == PollMax \in Nat \ {0}

VARIABLES
  hpc, got,    \* the host's thread: its place, and its array ev[32]
  seen, since, \* the level and the time it has loaded of the button it asks about
  asked,       \* that button, while it asks
  asof,        \* history: its latest edge wholly published when the question began
  cycle,       \* the JACK cycle to come
  midi,        \* the notes in JACK's buffer of this cycle
  handled      \* history: the buttons' edges the host has dealt with, in order

asking == <<seen, since, asked, asof>>
poller == <<hpc, got, asking, cycle, midi, handled>>

HostInit ==
  /\ hpc = "idle" /\ got = <<>> /\ seen = 0 /\ since = 0 /\ asked = 0 /\ asof = 0
  /\ cycle = 0 /\ midi = <<>> /\ handled = <<>>

-----------------------------------------------------------------------------
(* tt_poll_events in Pd's clock callback and in JACK's process *)

\* The window process() renders: one cycle in arrears.
CycleStart == cycle * Window

Wake ==
  /\ hpc = "idle" /\ setup.host \in {"pd", "jack"}
  /\ setup.host = "jack" => now >= CycleStart + Window
  /\ hpc' = "drain" /\ midi' = <<>>
  /\ UNCHANGED <<now, kernel, sampler, ev, tev, got, asking, cycle, handled>>

DrainOne ==
  /\ hpc = "drain" /\ ev # <<>> /\ Len(got) < PollMax
  /\ got' = Append(got, Head(ev)) /\ ev' = Tail(ev)
  /\ UNCHANGED <<now, kernel, sampler, tev, hpc, asking, cycle, midi, handled>>

DrainDone ==
  /\ hpc = "drain" /\ (ev = <<>> \/ Len(got) >= PollMax)
  /\ hpc' = "events"
  /\ UNCHANGED <<now, kernel, sampler, ev, tev, got, asking, cycle, midi, handled>>

\* A bug: the array is left at the first event of another kind.
Mutant_Skip ==
  /\ hpc = "events" /\ got # <<>> /\ Head(got).line \notin Buttons
  /\ got' = <<>>
  /\ UNCHANGED <<now, kernel, sampler, ev, tev, hpc, asking, cycle, midi, handled>>

\* Other events than the buttons' are passed over.
Skip ==
  /\ hpc = "events" /\ got # <<>> /\ Head(got).line \notin Buttons
  /\ got' = Tail(got)
  /\ UNCHANGED <<now, kernel, sampler, ev, tev, hpc, asking, cycle, midi, handled>>

AllDone ==
  /\ hpc = "events" /\ got = <<>>
  /\ hpc' = "idle"
  /\ cycle' = IF setup.host = "jack" THEN cycle + 1 ELSE cycle
  /\ UNCHANGED <<now, kernel, sampler, ev, tev, got, asking, midi, handled>>

Deal(e, ok, press) == Append(handled, [line |-> e.line, num |-> e.num, ok |-> ok, press |-> press])

\* A press is sent with a hold time of 0.
SendPress ==
  /\ setup.host = "pd" /\ hpc = "events" /\ got # <<>>
  /\ Head(got).line \in Buttons /\ Active(Head(got).num)
  /\ handled' = Deal(Head(got), TRUE, 0) /\ got' = Tail(got)
  /\ UNCHANGED <<now, kernel, sampler, ev, tev, hpc, asking, cycle, midi>>

\* The latest edge of b of which both the level and the time are stored.
WhollyPublished(b) ==
  IF spc = "since" /\ Head(batch).line = b THEN level[b] - 1 ELSE level[b]

Question(b) == hpc' = "level" /\ asked' = b /\ asof' = WhollyPublished(b)

\* A release asks tt_button_held_ms first.
AskRelease ==
  /\ setup.host = "pd" /\ hpc = "events" /\ got # <<>>
  /\ Head(got).line \in Buttons /\ ~ Active(Head(got).num)
  /\ Question(Head(got).line)
  /\ UNCHANGED <<now, kernel, sampler, ev, tev, got, seen, since, cycle, midi, handled>>

\* A bug: the difference to the window's start wraps for a late edge.
Mutant_Offset(e) ==
  IF TimeOf(e) < CycleStart THEN Frames - 1
  ELSE Least(Frames - 1, (TimeOf(e) - CycleStart) \div setup.period)

\* The frame of a note.
Offset(e) ==
  IF TimeOf(e) <= CycleStart THEN 0
  ELSE Least(Frames - 1, (TimeOf(e) - CycleStart) \div setup.period)

\* External: jack_midi_event_reserve refuses an event before the last one written.
Refused(e) == midi # <<>> /\ Offset(e) < Last(midi).off

\* A note, unless the buffer refuses it: then the code goes on with the next event.
SendNote ==
  /\ setup.host = "jack" /\ hpc = "events" /\ got # <<>> /\ Head(got).line \in Buttons
  /\ LET e == Head(got) IN
     /\ midi' = IF Refused(e) THEN midi ELSE Append(midi, [line |-> e.line, off |-> Offset(e)])
     /\ handled' = Deal(e, ~ Refused(e), 0)
  /\ got' = Tail(got)
  /\ UNCHANGED <<now, kernel, sampler, ev, tev, hpc, asking, cycle>>

-----------------------------------------------------------------------------
(* tt_button_held_ms *)

\* An opcode or a UGen asks at any time.
Ask(b) ==
  /\ setup.host = "reader" /\ hpc = "idle"
  /\ Question(b)
  /\ UNCHANGED <<now, kernel, sampler, ev, tev, got, seen, since, cycle, midi, handled>>

\* tt_button_state: if it is not pressed the time does not matter.
LoadLevel ==
  /\ hpc \in {"level", "levelLast"}
  /\ seen' = level[asked]
  /\ hpc' = IF hpc = "level" THEN "since" ELSE "answer"
  /\ since' = IF hpc = "levelLast" /\ Active(level[asked]) THEN since ELSE 0
  /\ UNCHANGED <<now, kernel, sampler, ev, tev, got, asked, asof, cycle, midi, handled>>

LoadSince ==
  /\ hpc \in {"level", "since"}
  /\ since' = IF hpc = "level" \/ Active(seen) THEN btnSince[asked] ELSE 0
  /\ hpc' = IF hpc = "level" THEN "levelLast" ELSE "answer"
  /\ UNCHANGED <<now, kernel, sampler, ev, tev, got, seen, asked, asof, cycle, midi, handled>>

\* The answer, now - since or 0, goes into the message or to the reader.
Answer ==
  /\ hpc = "answer"
  /\ IF setup.host = "pd"
     THEN handled' = Deal(Head(got), TRUE, since) /\ got' = Tail(got) /\ hpc' = "events"
     ELSE hpc' = "idle" /\ UNCHANGED <<handled, got>>
  /\ UNCHANGED <<now, kernel, sampler, ev, tev, asking, cycle, midi>>

Host ==
  \/ Wake \/ DrainOne \/ DrainDone \/ Skip \/ AllDone
  \/ SendPress \/ AskRelease \/ SendNote
  \/ (\E b \in Buttons : Ask(b)) \/ LoadLevel \/ LoadSince \/ Answer

-----------------------------------------------------------------------------
(* Correctness *)

\* The edges the host has dealt with.
Dealt == [i \in DOMAIN handled |-> Edge(handled[i].line, handled[i].num)]

\* Every edge of a button is made a message or a note once and in its order, over
\* host arrays and batches that fill, except for those ev refused and those the
\* MIDI buffer did.
EdgesDealtOnce ==
  setup.host \in {"pd", "jack"} => \A b \in Buttons :
    LET way == Dealt \o got \o ev \o Left \o kq[b] IN
    /\ InOrder(b, way)
    /\ Count(b, way) + evLost[b] = Len(edges[b])

\* A hold time is counted from a press that had not ended when it was asked for: not
\* from one whose release was wholly published by then, whatever is pressed and
\* released while the two words are stored and loaded.
HoldIsNotStale ==
  (hpc = "answer" /\ since > 0) =>
    \E p \in DOMAIN edges[asked] : p >= asof /\ Active(p) /\ edges[asked][p] = since

\* What the header of the external says of its message (tedium~.c:17): a release is
\* sent with the time its button was held, so counted from its own press.  The code
\* breaks it: by then the button is not held (tedium~.c:186).
ReleaseTellsHold ==
  setup.host = "pd" => \A i \in DOMAIN handled :
    LET m == handled[i] IN ~ Active(m.num) => m.press = edges[m.line][m.num - 1]

\* The buffer refuses no note of a button on account of that button: its own edges
\* come in order, late ones and ones after the window included.
RefusedOnlyAcrossButtons ==
  [][ (setup.host = "jack" /\ handled' # handled /\ ~ Last(handled').ok)
        => Last(midi).line # Last(handled').line ]_handled
=============================================================================
