---------------------------- MODULE LegacySwitch ----------------------------
(***************************************************************************)
(* The Pd external tedium_switch: it tells its patch a press, a release    *)
(* and how long the switch was down (src/software/externals/tedium_        *)
(* switch.c).  It reads its pin from a clock every millisecond of Pd's     *)
(* time, and once while it is made, when nothing is connected to its       *)
(* outlets yet.  The pin is pulled up: a switch that is down reads 0.      *)
(***************************************************************************)
EXTENDS Naturals, Sequences

CONSTANT MaxMs   \* bound on Pd's clock

ASSUME MaxMsAssumption == MaxMs \in Nat

VARIABLES
  ms,           \* Pd's time
  pin,          \* what digitalRead gives
  made, ran,    \* the object exists; its clock has run this millisecond
  clkState, switchState, ticks,   \* its fields
  heard,        \* what it has told the patch, in order
  downAt        \* history: when it last saw its pin fall

fields == <<clkState, switchState, ticks, heard, downAt>>
switchVars == <<ms, pin, made, ran, fields>>

SwitchInit ==
  /\ ms = 0 /\ pin \in {0, 1} /\ made = FALSE /\ ran = FALSE
  /\ clkState = 1 /\ switchState = 0 /\ ticks = 0
  /\ heard = <<>> /\ downAt = 0

\* A finger, at any time between two reads; contacts may bounce.
Finger ==
  /\ pin' = 1 - pin
  /\ UNCHANGED <<ms, made, ran, fields>>

Millisecond ==
  /\ made => ran
  /\ ms < MaxMs
  /\ ms' = ms + 1 /\ ran' = FALSE
  /\ UNCHANGED <<pin, made, fields>>

Fell == clkState = 1 /\ pin = 0
Rose == clkState = 0 /\ pin = 1

\* A bug: the count of one press is carried into the next.
Mutant_Count(down) == ticks' = ticks + down

\* The count runs from the tick of the press, that one included.
Count(down) == ticks' = IF Rose THEN 0 ELSE ticks + down

\* At a release the time goes out first, then the 0.
TickTo(connected) ==
  /\ clkState' = pin
  /\ switchState' = IF Fell THEN 1 ELSE IF Rose THEN 0 ELSE switchState
  /\ Count(switchState')
  /\ heard' = IF ~ connected THEN heard
              ELSE IF Fell THEN Append(heard, [press |-> TRUE, held |-> 0, after |-> 0])
              ELSE IF Rose
              THEN Append(heard, [press |-> FALSE, held |-> ticks, after |-> ms - downAt])
              ELSE heard
  /\ downAt' = IF Fell THEN ms ELSE downAt
  /\ ran' = TRUE

Make ==
  /\ ~ made /\ made' = TRUE
  /\ TickTo(FALSE)
  /\ UNCHANGED <<ms, pin>>

ClockTick ==
  /\ made /\ ~ ran
  /\ TickTo(TRUE)
  /\ UNCHANGED <<ms, pin, made>>

SwitchNext == Finger \/ Millisecond \/ Make \/ ClockTick

SwitchSpec == SwitchInit /\ [][SwitchNext]_switchVars

-----------------------------------------------------------------------------
(* Correctness *)

\* The patch hears presses and releases in turn, and with each release the whole
\* milliseconds since that press was seen (tedium_switch.c:2-3), over short
\* presses, bounces, and a switch that is down when the object is made: then a
\* release is the first thing it hears.
SwitchTimes ==
  /\ \A i \in DOMAIN heard : ~ heard[i].press => heard[i].held = heard[i].after
  /\ \A i \in 1 .. Len(heard) - 1 : heard[i].press # heard[i + 1].press
=============================================================================
