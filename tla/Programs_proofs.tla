--------------------------- MODULE Programs_proofs --------------------------
(***************************************************************************)
(* Proofs about the programs beside the library: the old Pd externals, the *)
(* OSC client, the calibration file and the installer.  Their modules share *)
(* no name, and each section is about one of them.                         *)
(***************************************************************************)
EXTENDS OscClient, CalFile, Installer, LegacyAdc, LegacySwitch,
        SequenceTheorems, FiniteSetTheorems, WellFoundedInduction, TLAPS

-----------------------------------------------------------------------------
(* tedium_switch *)

Messages == [press : BOOLEAN, held : Nat, after : Nat]

SwitchType ==
  /\ ms \in Nat /\ pin \in {0, 1} /\ made \in BOOLEAN /\ ran \in BOOLEAN
  /\ clkState \in {0, 1} /\ switchState \in {0, 1} /\ ticks \in Nat
  /\ downAt \in Nat /\ heard \in Seq(Messages)

\* The count is the milliseconds since the press, with the one the clock has
\* already run in; up to then the clock has not run without the object.
TicksExact ==
  /\ ~ made => ~ ran /\ switchState = 0 /\ heard = <<>>
  /\ switchState = 1 <=> clkState = 0
  /\ switchState = 0 => ticks = 0
  /\ switchState = 1 => downAt <= ms /\ ticks = (ms - downAt) + (IF ran THEN 1 ELSE 0)

\* What the patch heard last is the switch's state.
HeardState == heard # <<>> => (heard[Len(heard)].press <=> switchState = 1)

SwitchInv == SwitchType /\ TicksExact /\ HeardState /\ SwitchTimes

\* What the clock does to the counter, whatever it tells the patch.
LEMMA TickTicks ==
  ASSUME SwitchType, TicksExact, ~ ran, NEW connected, TickTo(connected)
  PROVE  /\ clkState' \in {0, 1} /\ switchState' \in {0, 1} /\ ticks' \in Nat
         /\ downAt' \in Nat /\ ran'
         /\ switchState' = 1 <=> clkState' = 0
         /\ switchState' = 0 => ticks' = 0
         /\ switchState' = 1 => downAt' <= ms /\ ticks' = (ms - downAt') + 1
BY DEF SwitchType, TicksExact, TickTo, Count, Fell, Rose

\* A message appended leaves the earlier ones.
LEMMA SwitchTells ==
  ASSUME SwitchInv, NEW m \in Messages, heard' = Append(heard, m),
         m.press <=> switchState' = 1, switchState' # switchState,
         switchState \in {0, 1}, switchState' \in {0, 1},
         ~ m.press => m.held = m.after
  PROVE  heard' \in Seq(Messages) /\ HeardState' /\ SwitchTimes'
<1> USE DEF SwitchInv, SwitchType
<1>1. heard' \in Seq(Messages) /\ Len(heard') = Len(heard) + 1 /\ Len(heard) \in Nat
  OBVIOUS
<1>2. heard'[Len(heard')] = m /\ \A i \in 1 .. Len(heard) : heard'[i] = heard[i]
  OBVIOUS
<1>3. HeardState'
  BY <1>2 DEF HeardState
<1>4. ASSUME NEW i \in DOMAIN heard', ~ heard'[i].press PROVE heard'[i].held = heard'[i].after
  <2>1. CASE i = Len(heard')
    BY <2>1, <1>2, <1>4
  <2>2. CASE i \in DOMAIN heard
    BY <2>2, <1>2, <1>4 DEF SwitchTimes
  <2> QED BY <2>1, <2>2, <1>1
<1>5. ASSUME NEW i \in 1 .. Len(heard') - 1 PROVE heard'[i].press # heard'[i + 1].press
  <2>1. CASE i = Len(heard)
    <3>1. heard'[i] = heard[Len(heard)] /\ heard'[i + 1] = m /\ heard # <<>>
      BY <2>1, <1>1, <1>2
    <3>2. heard[Len(heard)] \in Messages
      BY <3>1
    <3> QED BY <3>1, <3>2 DEF HeardState, Messages
  <2>2. CASE i \in 1 .. Len(heard) - 1
    BY <2>2, <1>1, <1>2 DEF SwitchTimes
  <2> QED BY <2>1, <2>2, <1>1
<1> QED BY <1>1, <1>3, <1>4, <1>5 DEF SwitchTimes

\* What a clock tick tells the patch.
LEMMA SwitchHears ==
  ASSUME SwitchInv, ~ ran, TickTo(TRUE)
  PROVE  heard' \in Seq(Messages) /\ HeardState' /\ SwitchTimes'
<1> USE DEF SwitchInv, SwitchType
<1>1. CASE Fell
  <2> DEFINE m == [press |-> TRUE, held |-> 0, after |-> 0]
  <2>1. heard' = Append(heard, m) /\ switchState' = 1 /\ switchState = 0 /\ m \in Messages
    BY <1>1 DEF TickTo, Fell, TicksExact, Messages
  <2>2. m.press = TRUE
    OBVIOUS
  <2> HIDE DEF m
  <2> QED BY <2>1, <2>2, SwitchTells
<1>2. CASE Rose
  <2> DEFINE m == [press |-> FALSE, held |-> ticks, after |-> ms - downAt]
  <2>1. /\ heard' = Append(heard, m) /\ switchState' = 0 /\ switchState = 1
        /\ m \in Messages /\ ticks = ms - downAt
    BY <1>2 DEF TickTo, Fell, Rose, TicksExact, Messages
  <2>2. m.press = FALSE /\ m.held = m.after
    BY <2>1
  <2> HIDE DEF m
  <2> QED BY <2>1, <2>2, SwitchTells
<1>3. CASE ~ Fell /\ ~ Rose
  BY <1>3 DEF TickTo, HeardState, SwitchTimes
<1> QED BY <1>1, <1>2, <1>3

\* The switch's fields start out right.
LEMMA SwitchStarts == SwitchInit => SwitchInv
<1> SUFFICES ASSUME SwitchInit PROVE SwitchInv
  OBVIOUS
<1> USE DEF SwitchInit
<1>3. made \in BOOLEAN /\ ran \in BOOLEAN
  BY Zenon
<1>1. SwitchType /\ TicksExact
  BY <1>3 DEF SwitchType, TicksExact
<1>2. HeardState /\ SwitchTimes
  BY DEF HeardState, SwitchTimes
<1> QED BY <1>1, <1>2 DEF SwitchInv

\* Every step of the switch, and every step of a patch without it, keeps them.
LEMMA SwitchSteps ==
  ASSUME SwitchInv, [SwitchNext]_switchVars
  PROVE  SwitchInv'
<1> USE DEF SwitchInv
<1>1. CASE UNCHANGED switchVars
  BY <1>1 DEF switchVars, fields, SwitchType, TicksExact, HeardState, SwitchTimes
<1>2. CASE Finger
  BY <1>2 DEF Finger, fields, SwitchType, TicksExact, HeardState, SwitchTimes
<1>3. CASE Millisecond
  <2>4. ran' \in BOOLEAN
    BY <1>3, Zenon DEF Millisecond
  <2>1. SwitchType'
    BY <1>3, <2>4 DEF Millisecond, fields, SwitchType
  <2>3. TicksExact'
    BY <1>3 DEF Millisecond, fields, SwitchType, TicksExact
  <2>2. HeardState' /\ SwitchTimes'
    BY <1>3 DEF Millisecond, fields, HeardState, SwitchTimes
  <2> QED BY <2>1, <2>2, <2>3
<1>4. CASE Make
  <2>1. TickTo(FALSE) /\ ~ ran /\ made' /\ UNCHANGED <<ms, pin>>
    BY <1>4 DEF Make, TicksExact, SwitchType
  <2>2. heard' = heard
    BY <2>1 DEF TickTo
  <2>3. SwitchType' /\ TicksExact'
    BY <2>1, <2>2, TickTicks DEF SwitchType, TicksExact
  <2>4. heard = <<>>
    BY <1>4 DEF Make, TicksExact
  <2> QED BY <2>2, <2>3, <2>4 DEF HeardState, SwitchTimes
<1>5. CASE ClockTick
  <2>1. TickTo(TRUE) /\ ~ ran /\ UNCHANGED <<ms, pin, made>> /\ made
    BY <1>5 DEF ClockTick
  <2>2. SwitchType' /\ TicksExact'
    BY <2>1, TickTicks, SwitchHears DEF SwitchType, TicksExact
  <2> QED BY <2>1, <2>2, SwitchHears
<1> QED BY <1>1, <1>2, <1>3, <1>4, <1>5 DEF SwitchNext, switchVars

\* The old switch tells its patch presses and releases in turn, and with each release
\* the milliseconds since its press, for any length of run.
THEOREM SwitchTimesKept == SwitchSpec => []SwitchTimes
<1>1. SwitchInv => SwitchTimes
  BY DEF SwitchInv
<1> QED BY <1>1, SwitchStarts, SwitchSteps, PTL DEF SwitchSpec
-----------------------------------------------------------------------------
(* The OSC client *)

ButtonStates == {"OK", "PRESSED", "SHORT", "LONG"}
OscStates    == {"OK", "SHORT", "LONG", "SHORT_OFF", "LONG_OFF"}

OscType ==
  /\ flag \in [Inputs -> BOOLEAN] /\ owed \in [Triggers -> BOOLEAN]
  /\ state \in [Buttons -> ButtonStates] /\ osc \in [Buttons -> OscStates]
  /\ off \in [Triggers -> BOOLEAN] /\ DOMAIN last = Inputs
  /\ cnt \in 1 .. AdcChannels /\ send \in Nat /\ passes \in Nat /\ at \in Nat

\* The step stands at a button or a trigger there is.
AtInput ==
  /\ pc \in {"adc", "bundle", "dead", "switch", "store", "trigger", "on", "off"}
  /\ pc \in {"switch", "store"} => at \in 1 .. NumButtons
  /\ pc \in {"trigger", "on", "off"} => at \in 1 .. NumTriggers
  /\ pc \in {"adc", "bundle"} => at = 1

\* What the bundle lacks is counted in _send, and after the last channel it lacks
\* nothing.
Bundled ==
  /\ send = 0 => bundle = adc
  /\ (pc \notin {"adc", "bundle", "dead"} /\ cnt = 1) => bundle = adc

\* The button at whose switch the main loop is between its message and its store.
Storing(b) == pc = "store" /\ b = button

\* The off message a button or a trigger waits for is that of its last message.
NotesMatch ==
  /\ \A b \in Buttons :
       /\ osc[b] = "SHORT_OFF" /\ ~ Storing(b) => last[b] = <<"SHORT", 1>>
       /\ osc[b] = "LONG_OFF" /\ ~ Storing(b) => last[b] = <<"LONG", 1>>
       /\ Storing(b) /\ seen = "SHORT" => last[b] = <<"SHORT", 1>>
       /\ Storing(b) /\ seen = "LONG" => last[b] = <<"LONG", 1>>
  /\ \A t \in Triggers :
       /\ off[t] => last[t] = <<"trigger", 1>>
       /\ ~ off[t] => last[t] \in {None, <<"trigger", 0>>}
  /\ pc = "on" => ~ off[trigger]

\* The stored readings are those of the converter to within the deadband.
Near(x, y) ==
  /\ x > 4000 => y <= 2 /\ y >= -2
  /\ x <= 4000 => y <= 4002 - x /\ y >= 3998 - x

Stored ==
  /\ given \in [1 .. AdcChannels -> Nat]
  /\ adc \in [1 .. AdcChannels -> Int]
  /\ \A c \in 1 .. AdcChannels : Near(given[c], adc[c])

OscInv == OscType /\ AtInput /\ EdgesRemembered /\ Bundled /\ Stored /\ NotesMatch

\* The limit takes a difference that wraps to zero, and leaves the others.
LEMMA Inverted ==
  ASSUME NEW x \in Nat, x <= 4095
  PROVE  Converted(x) = IF x > SCALE THEN 0 ELSE SCALE - x
<1>1. CASE x > 4000
  <2>1. (4000 - x) % 65536 = 69536 - x
    BY <1>1, Z3
  <2> QED BY <1>1, <2>1 DEF Converted, SCALE
<1>2. CASE x <= 4000
  <2>1. (4000 - x) % 65536 = 4000 - x
    BY <1>2, Z3
  <2> QED BY <1>2, <2>1 DEF Converted, SCALE
<1> QED BY <1>1, <1>2

\* A button is no trigger, and both are inputs.
LEMMA InputKinds ==
  /\ Buttons \cap Triggers = {} /\ Inputs = Buttons \cup Triggers
  /\ AtInput => (pc \in {"switch", "store"} => button \in Buttons)
  /\ AtInput => (pc \in {"trigger", "on", "off"} => trigger \in Triggers)
  /\ \A b \in Buttons : b = <<"button", b[2]>> /\ b[2] \in 1 .. NumButtons
BY DEF Buttons, Triggers, Inputs, AtInput, button, trigger

\* The client starts with nothing to send.
LEMMA OscStarts == OscInit => OscInv
<1> SUFFICES ASSUME OscInit PROVE OscInv
  OBVIOUS
<1> USE DEF OscInit
<1>1. OscType
  BY AdcChannelsAssumption DEF OscType, ButtonStates, OscStates
<1>2. AtInput /\ EdgesRemembered /\ Bundled
  BY DEF AtInput, EdgesRemembered, Bundled
<1>3. NotesMatch
  BY DEF NotesMatch, Storing, Inputs, None
<1>4. Stored
  BY DEF Stored, Near, SCALE
<1> QED BY <1>1, <1>2, <1>3, <1>4 DEF OscInv

\* The fields keep their types.
LEMMA OscTypeStep ==
  ASSUME OscType, AtInput, [OscNext]_oscVars
  PROVE  OscType'
<1> USE InputKinds, InputsAssumption, AdcChannelsAssumption DEF OscType
<1>1. CASE UNCHANGED oscVars
  BY <1>1 DEF oscVars, gpio, sender
<1>2. ASSUME NEW t \in Triggers, TriggerEdge(t) PROVE OscType'
  BY <1>2 DEF TriggerEdge, gpio, sender
<1>3. ASSUME NEW b \in Buttons, ButtonDown(b) \/ ButtonUp(b) PROVE OscType'
  <2>1. flag' \in [Inputs -> BOOLEAN]
    BY <1>3 DEF ButtonDown, ButtonUp
  <2> QED BY <1>3, <2>1 DEF ButtonDown, ButtonUp, gpio, sender
<1>4. CASE InitButtons
  BY <1>4 DEF InitButtons, sender
<1>5. CASE Poll
  <2>1. flag' \in [Inputs -> BOOLEAN]
    BY <1>5 DEF Poll
  <2>2. state' \in [Buttons -> ButtonStates]
    BY <1>5 DEF Poll, ButtonStates
  <2>3. osc' \in [Buttons -> OscStates]
    BY <1>5 DEF Poll, OscStates, Done
  <2> QED BY <1>5, <2>1, <2>2, <2>3 DEF Poll, sender
<1>6. CASE ReadAdc
  BY <1>6 DEF ReadAdc, gpio
<1>7. CASE SendBundle
  BY <1>7 DEF SendBundle, gpio
<1>8. CASE BundleFails \/ SwitchCrashes
  BY <1>8 DEF BundleFails, SwitchCrashes, gpio
<1>9. CASE Switch
  BY <1>9 DEF Switch, Proceed, gpio
<1>10. CASE Store
  <2>1. osc' \in [Buttons -> OscStates]
    BY <1>10 DEF Store, OscStates, AfterSeen
  <2> QED BY <1>10, <2>1 DEF Store, Proceed, gpio
<1>11. CASE TestTrigger
  <2>1. flag' = [flag EXCEPT ![trigger] = FALSE] \/ flag' = flag
    BY <1>11 DEF TestTrigger
  <2>2. flag' \in [Inputs -> BOOLEAN]
    BY <2>1
  <2>3. at' \in Nat
    BY <1>11 DEF TestTrigger, Proceed
  <2> QED BY <1>11, <2>2, <2>3 DEF TestTrigger, gpio
<1>12. CASE SendOn
  BY <1>12 DEF SendOn, Proceed, gpio
<1>13. CASE SendOff
  <2>3. off' = [off EXCEPT ![trigger] = FALSE] \/ off' = off
    BY <1>13 DEF SendOff
  <2>4. off' \in [Triggers -> BOOLEAN]
    BY <2>3
  <2>1. at' \in Nat /\ passes' \in Nat
    BY <1>13 DEF SendOff, Proceed
  <2>2. DOMAIN last' = Inputs
    BY <1>13 DEF SendOff
  <2> QED BY <1>13, <2>1, <2>2, <2>4 DEF SendOff, gpio
<1> QED
  BY <1>1, <1>2, <1>3, <1>4, <1>5, <1>6, <1>7, <1>8, <1>9, <1>10, <1>11, <1>12, <1>13
     DEF OscNext, World, GpioThread, Main

\* The main loop stays at what there is.
LEMMA PlacedStep ==
  ASSUME OscType, AtInput, [OscNext]_oscVars
  PROVE  AtInput'
<1> USE InputsAssumption DEF OscType, AtInput
<1>1. CASE UNCHANGED sender
  BY <1>1 DEF sender
<1>2. CASE ReadAdc
  BY <1>2 DEF ReadAdc
<1>3. CASE SendBundle \/ BundleFails \/ SwitchCrashes
  BY <1>3 DEF SendBundle, BundleFails, SwitchCrashes
<1>4. CASE Switch
  BY <1>4 DEF Switch, Proceed
<1>5. CASE Store
  BY <1>5 DEF Store, Proceed
<1>6. CASE TestTrigger
  BY <1>6 DEF TestTrigger, Proceed
<1>7. CASE SendOn
  BY <1>7 DEF SendOn, Proceed
<1>8. CASE SendOff
  BY <1>8 DEF SendOff, Proceed
<1> QED
  BY <1>1, <1>2, <1>3, <1>4, <1>5, <1>6, <1>7, <1>8
     DEF OscNext, World, GpioThread, Main, oscVars, TriggerEdge, ButtonDown, ButtonUp, InitButtons, Poll

\* An edge is owed until its message, and its flag goes down only for that.
LEMMA EdgesStep ==
  ASSUME OscType, AtInput, EdgesRemembered, [OscNext]_oscVars
  PROVE  EdgesRemembered'
<1> SUFFICES ASSUME NEW t \in Triggers, owed'[t]
             PROVE  flag'[t] \/ (pc' = "on" /\ trigger' = t)
  BY DEF EdgesRemembered
<1> USE InputKinds DEF OscType, EdgesRemembered
<1>1. CASE UNCHANGED <<owed, pc, at>> /\ \A i \in Triggers : flag[i] => flag'[i]
  BY <1>1 DEF trigger
<1>2. ASSUME NEW u \in Triggers, TriggerEdge(u) PROVE flag'[t] \/ (pc' = "on" /\ trigger' = t)
  BY <1>2 DEF TriggerEdge, sender, trigger
<1>3. ASSUME NEW b \in Buttons, ButtonDown(b) \/ ButtonUp(b)
      PROVE  UNCHANGED <<owed, pc, at>> /\ \A i \in Triggers : flag[i] => flag'[i]
  BY <1>3 DEF ButtonDown, ButtonUp, sender
<1>4. ASSUME Poll
      PROVE  UNCHANGED <<owed, pc, at>> /\ \A i \in Triggers : flag[i] => flag'[i]
  BY <1>4 DEF Poll, sender
<1>5. CASE UNCHANGED <<owed, flag>> /\ pc # "on"
  BY <1>5
<1>6. CASE TestTrigger
  BY <1>6 DEF TestTrigger, trigger
<1>7. CASE SendOn
  BY <1>7 DEF SendOn, trigger
<1> QED
  BY <1>1, <1>2, <1>3, <1>4, <1>5, <1>6, <1>7
     DEF OscNext, World, GpioThread, Main, oscVars, sender, InitButtons, ReadAdc, SendBundle,
         BundleFails, Switch, SwitchCrashes, Store, SendOff

\* A reading that moved is counted until a bundle says it.
LEMMA BundledStep ==
  ASSUME OscType, AtInput, Bundled, [OscNext]_oscVars
  PROVE  Bundled'
<1> USE AdcChannelsAssumption DEF OscType, Bundled, AtInput
<1>1. CASE UNCHANGED sender
  BY <1>1 DEF sender
<1>2. CASE ReadAdc
  <2>1. (adc' = adc /\ send' = send) \/ send' = send + 1
    BY <1>2 DEF ReadAdc
  <2> QED BY <1>2, <2>1 DEF ReadAdc
<1>3. CASE SendBundle
  BY <1>3 DEF SendBundle
<1>4. CASE UNCHANGED <<bundle, send, adc, cnt>> /\ (pc' \in {"adc", "bundle", "dead"}
                                                \/ pc \notin {"adc", "bundle", "dead"})
  BY <1>4
<1> QED
  BY <1>1, <1>2, <1>3, <1>4
     DEF OscNext, World, GpioThread, Main, oscVars, TriggerEdge, ButtonDown, ButtonUp, InitButtons, Poll,
         BundleFails, Switch, SwitchCrashes, Store, TestTrigger, SendOn, SendOff

\* A reading replaces the one stored, or is within the deadband of it.
LEMMA StoredStep ==
  ASSUME OscType, Stored, [OscNext]_oscVars
  PROVE  Stored'
<1>1. CASE UNCHANGED <<given, adc>>
  BY <1>1 DEF Stored, Near
<1>2. CASE ReadAdc
  <2>1. PICK x \in Readings :
          /\ given' = [given EXCEPT ![cnt] = x]
          /\ \/ adc' = [adc EXCEPT ![cnt] = Converted(x)]
             \/ adc' = adc /\ ~ Moved(Converted(x), adc[cnt])
    BY <1>2, Zenon DEF ReadAdc
  <2>2. x \in Nat /\ x <= 4095 /\ cnt \in 1 .. AdcChannels
    BY ReadingsAssumption DEF OscType
  <2>3. Converted(x) \in Int /\ Near(x, Converted(x))
    BY <2>2, Inverted DEF Near, SCALE
  <2>4. ASSUME NEW y \in Int, ~ Moved(Converted(x), y)
        PROVE  Near(x, y)
    BY <2>2, <2>4, Inverted DEF Near, Moved, SCALE
  <2>5. given' \in [1 .. AdcChannels -> Nat]
    BY <2>1, <2>2 DEF Stored
  <2>6. adc' \in [1 .. AdcChannels -> Int]
    BY <2>1, <2>2, <2>3 DEF Stored
  <2>0. DOMAIN given = 1 .. AdcChannels /\ DOMAIN adc = 1 .. AdcChannels
    BY DEF Stored
  <2>7. ASSUME NEW c \in 1 .. AdcChannels
        PROVE  Near(given'[c], adc'[c])
    <3>1. CASE c # cnt
      <4>1. given'[c] = given[c] /\ adc'[c] = adc[c]
        BY <2>0, <2>1, <3>1
      <4> QED BY <4>1 DEF Stored
    <3>2. CASE c = cnt
      <4>1. given'[c] = x /\ adc[c] \in Int
        BY <2>0, <2>1, <3>2 DEF Stored
      <4>2. adc'[c] = Converted(x) \/ (adc'[c] = adc[c] /\ ~ Moved(Converted(x), adc[c]))
        BY <2>0, <2>1, <3>2
      <4> QED BY <2>3, <2>4, <4>1, <4>2
    <3> QED BY <3>1, <3>2
  <2> QED BY <2>5, <2>6, <2>7 DEF Stored, Near
<1> QED
  BY <1>1, <1>2
     DEF OscNext, World, GpioThread, Main, oscVars, sender, TriggerEdge, ButtonDown, ButtonUp,
         InitButtons, Poll, SendBundle, BundleFails, Switch, SwitchCrashes, Store, TestTrigger,
         SendOn, SendOff

\* Steps that leave the notes alone: an edge, a poll that reports nothing the switch
\* waits for, a step of the main loop at another input.
LEMMA NotesKept ==
  ASSUME OscType, AtInput, NotesMatch,
         UNCHANGED <<last, off, seen>>,
         \A b \in Buttons : /\ osc'[b] = osc[b] \/ osc'[b] \in {"OK", "SHORT", "LONG"}
                            /\ Storing(b)' <=> Storing(b),
         pc' # "on" \/ UNCHANGED <<pc, at>>
  PROVE  NotesMatch'
BY DEF NotesMatch, OscType, Storing, trigger

\* Each step of the switches keeps the off messages those of the last messages.
LEMMA NotesStep ==
  ASSUME OscType, AtInput, NotesMatch, [OscNext]_oscVars
  PROVE  NotesMatch'
<1> USE InputKinds DEF OscType, AtInput
<1>1. CASE UNCHANGED <<last, off, seen, osc, pc, at>>
  BY <1>1, NotesKept DEF Storing, button
<1>2. CASE Poll
  <2>1. \A b \in Buttons : osc'[b] = osc[b] \/ osc'[b] \in {"OK", "SHORT", "LONG"}
    BY <1>2 DEF Poll, Done
  <2> QED BY <1>2, <2>1, NotesKept DEF Poll, sender, Storing, button
<1>3. CASE UNCHANGED <<last, off, seen, osc>> /\ pc # "store" /\ pc' \notin {"store", "on"}
  BY <1>3, NotesKept DEF Storing
<1>4. CASE Switch
  <2>1. \A t \in Triggers : last'[t] = last[t] /\ off'[t] = off[t]
    BY <1>4 DEF Switch
  <2>2. pc' # "on"
    BY <1>4 DEF Switch, Proceed
  <2>3. ASSUME NEW b \in Buttons, b # button
        PROVE  last'[b] = last[b] /\ osc'[b] = osc[b] /\ ~ Storing(b) /\ ~ Storing(b)'
    BY <1>4, <2>3 DEF Switch, Storing, Proceed, button
  <2>4. button \in Buttons /\ osc' = osc /\ seen' = osc[button] /\ ~ Storing(button)
    BY <1>4 DEF Switch, Storing
  <2>5. CASE osc[button] = "OK"
    BY <1>4, <2>1, <2>2, <2>3, <2>4, <2>5 DEF Switch, NotesMatch, Storing, Proceed
  <2>6. CASE osc[button] # "OK"
    <3>1. pc' = "store" /\ at' = at /\ button' = button
      BY <1>4, <2>6 DEF Switch, OscStates, button
    <3>2. /\ osc[button] = "SHORT" => last'[button] = <<"SHORT", 1>>
          /\ osc[button] = "LONG" => last'[button] = <<"LONG", 1>>
      BY <1>4, <2>4 DEF Switch
    <3> QED BY <2>1, <2>2, <2>3, <2>4, <3>1, <3>2 DEF NotesMatch, Storing
  <2> QED BY <2>5, <2>6
<1>5. CASE Store
  <2>1. UNCHANGED <<last, off>> /\ pc' \notin {"on", "store"}
    BY <1>5 DEF Store, Proceed
  <2>2. ASSUME NEW b \in Buttons, b # button
        PROVE  osc'[b] = osc[b] /\ ~ Storing(b)
    BY <1>5, <2>2 DEF Store, Storing
  <2>3. /\ button \in Buttons /\ Storing(button)
        /\ osc'[button] = "SHORT_OFF" => seen = "SHORT"
        /\ osc'[button] = "LONG_OFF" => seen = "LONG"
    BY <1>5 DEF Store, Storing, AfterSeen
  <2> QED BY <2>1, <2>2, <2>3 DEF NotesMatch, Storing
<1>6. CASE TestTrigger
  <2>1. UNCHANGED <<last, off, seen, osc>> /\ pc # "store" /\ pc' # "store"
    BY <1>6 DEF TestTrigger, Proceed
  <2>2. pc' = "on" => ~ off'[trigger']
    BY <1>6 DEF TestTrigger, Proceed, trigger
  <2> QED BY <2>1, <2>2 DEF NotesMatch, Storing
<1>7. CASE SendOn
  <2>1. /\ UNCHANGED <<osc, seen>> /\ pc # "store" /\ pc' \notin {"store", "on"}
        /\ trigger \in Triggers
    BY <1>7 DEF SendOn, Proceed
  <2>2. /\ last' = [last EXCEPT ![trigger] = <<"trigger", 1>>]
        /\ off' = [off EXCEPT ![trigger] = TRUE]
    BY <1>7 DEF SendOn
  <2> QED BY <2>1, <2>2 DEF NotesMatch, Storing
<1>8. CASE SendOff
  <2>1. /\ UNCHANGED <<osc, seen>> /\ pc # "store" /\ pc' \notin {"store", "on"}
        /\ trigger \in Triggers
    BY <1>8 DEF SendOff, Proceed
  <2>2. \/ UNCHANGED <<last, off>>
        \/ /\ last' = [last EXCEPT ![trigger] = <<"trigger", 0>>]
           /\ off' = [off EXCEPT ![trigger] = FALSE]
    BY <1>8 DEF SendOff
  <2> QED BY <2>1, <2>2 DEF NotesMatch, Storing
<1>9. CASE ReadAdc
  BY <1>3, <1>9 DEF ReadAdc
<1>10. CASE SendBundle \/ BundleFails \/ SwitchCrashes
  BY <1>3, <1>10 DEF SendBundle, BundleFails, SwitchCrashes
<1> QED
  BY <1>1, <1>2, <1>4, <1>5, <1>6, <1>7, <1>8, <1>9, <1>10
     DEF OscNext, World, GpioThread, Main, oscVars, sender, TriggerEdge, ButtonDown, ButtonUp, InitButtons

\* The six together, from the start and over every step.
LEMMA OscSteps == OscInv /\ [OscNext]_oscVars => OscInv'
BY OscTypeStep, PlacedStep, EdgesStep, BundledStep, StoredStep, NotesStep DEF OscInv

\* No edge of a trigger is forgotten by the main loop, whenever in it the interrupt
\* comes, for any number of buttons and triggers.
THEOREM EdgesNotForgotten == OscSpec => []EdgesRemembered
<1>1. OscInv => EdgesRemembered
  BY DEF OscInv
<1> QED BY <1>1, OscStarts, OscSteps, PTL DEF OscSpec

\* After a turn of the channels the receiver has been told each channel's reading,
\* inverted and in range, to within the deadband, for any number of channels and
\* whatever the converter gives, wrapped differences too.
THEOREM BundleTold == OscSpec => []BundleTellsReadings
<1>1. OscInv => BundleTellsReadings
  <2> SUFFICES ASSUME OscInv, pc = "switch", cnt = 1, NEW c \in 1 .. AdcChannels
               PROVE  ~ Moved(IF given[c] > SCALE THEN 0 ELSE SCALE - given[c], bundle[c])
    BY DEF BundleTellsReadings
  <2>1. bundle = adc
    BY DEF OscInv, Bundled
  <2>2. given[c] \in Nat /\ adc[c] \in Int /\ Near(given[c], adc[c])
    BY DEF OscInv, Stored
  <2> QED BY <2>1, <2>2 DEF Near, Moved, SCALE
<1> QED BY <1>1, OscStarts, OscSteps, PTL DEF OscSpec

\* A message that ends a note ends the one that was begun, and a trigger's on comes
\* after an off.
LEMMA PairedStep ==
  ASSUME OscInv, [OscNext]_oscVars, NEW i \in Inputs, last'[i] # last[i]
  PROVE  /\ last'[i][2] = 0 => last[i] = <<last'[i][1], 1>>
         /\ i \in Triggers /\ last'[i][2] = 1 => last[i] \in {None, <<"trigger", 0>>}
<1> USE InputKinds DEF OscInv, OscType
<1>1. CASE Switch
  <2>1. button \in Buttons /\ button \notin Triggers /\ ~ Storing(button)
    BY <1>1 DEF Switch, Storing
  <2>2. i = button
    BY <1>1 DEF Switch
  <2>3. CASE osc[button] \in {"SHORT", "LONG"}
    BY <1>1, <2>1, <2>2, <2>3 DEF Switch
  <2>4. CASE osc[button] = "SHORT_OFF"
    <3>1. last'[i] = <<"SHORT", 0>> /\ last[i] = <<"SHORT", 1>>
      BY <1>1, <2>1, <2>2, <2>4 DEF Switch, NotesMatch
    <3> QED BY <3>1, <2>1, <2>2
  <2>5. CASE osc[button] = "LONG_OFF"
    <3>1. last'[i] = <<"LONG", 0>> /\ last[i] = <<"LONG", 1>>
      BY <1>1, <2>1, <2>2, <2>5 DEF Switch, NotesMatch
    <3> QED BY <3>1, <2>1, <2>2
  <2>6. CASE osc[button] = "OK"
    BY <1>1, <2>6 DEF Switch
  <2> QED BY <2>1, <2>3, <2>4, <2>5, <2>6 DEF OscStates
<1>2. CASE SendOn
  <2>1. trigger \in Triggers /\ i = trigger /\ last'[i] = <<"trigger", 1>>
    BY <1>2 DEF SendOn
  <2>2. last[trigger] \in {None, <<"trigger", 0>>}
    BY <1>2, <2>1 DEF SendOn, NotesMatch
  <2> QED BY <2>1, <2>2
<1>3. CASE SendOff
  <2>1. trigger \in Triggers /\ i = trigger /\ off[trigger] /\ last'[i] = <<"trigger", 0>>
    BY <1>3 DEF SendOff
  <2>2. last[trigger] = <<"trigger", 1>>
    BY <2>1 DEF NotesMatch
  <2> QED BY <2>1, <2>2
<1> QED
  BY <1>1, <1>2, <1>3
     DEF OscNext, World, GpioThread, Main, oscVars, sender, TriggerEdge, ButtonDown, ButtonUp, InitButtons,
         Poll, ReadAdc, SendBundle, BundleFails, SwitchCrashes, Store, TestTrigger

\* The notes the receiver sees are paired, for any number of buttons and triggers.
THEOREM NotesArePaired == OscSpec => NotesPaired
<1>1. OscInv /\ [OscNext]_oscVars
        => [\A i \in Inputs : last'[i] # last[i] =>
              /\ last'[i][2] = 0 => last[i] = <<last'[i][1], 1>>
              /\ i \in Triggers /\ last'[i][2] = 1 => last[i] \in {None, <<"trigger", 0>>}]_oscVars
  BY PairedStep
<1> QED BY <1>1, OscStarts, OscSteps, PTL DEF OscSpec, NotesPaired

\* Since the last poll the main loop has not been through button b's switch: it is in
\* its first pass, or in its second one and not past b.
Ahead(b) ==
  \/ pc \in {"adc", "bundle", "dead"}
  \/ pc \in {"switch", "store"} /\ at <= b[2]

Fresh(b) == passes = 0 \/ (passes = 1 /\ Ahead(b))

\* A report waits for the switch less than two passes, and so does what is left of it
\* when the next press is done: by the next report it is gone.  What the main loop is
\* about to store is the follower of what it read.
ReportInv ==
  \A b \in Buttons :
    /\ osc[b] \in {"SHORT", "LONG"} => Fresh(b) /\ ~ Done(b)
    /\ Done(b) /\ osc[b] # "OK" => Fresh(b)
    /\ Storing(b) => seen = osc[b] /\ seen # "OK"

\* Nothing is reported at first.
LEMMA ReportStarts == OscInit => ReportInv
BY DEF OscInit, ReportInv, Storing, Done

\* Two passes after a poll no button is fresh.
LEMMA TwoPasses ==
  ASSUME ReportInv, passes >= 2, NEW b \in Buttons
  PROVE  osc[b] \notin {"SHORT", "LONG"} /\ (Done(b) => osc[b] = "OK")
BY DEF ReportInv, Fresh

\* A poll finds nothing left of the report before, and begins a fresh one.
LEMMA PollReports ==
  ASSUME PassesPerPoll >= 2, OscType, AtInput, ReportInv, Poll
  PROVE  ReportInv'
<1> SUFFICES ASSUME NEW b \in Buttons
             PROVE  /\ osc'[b] \in {"SHORT", "LONG"} => Fresh(b)' /\ ~ Done(b)'
                    /\ Done(b)' /\ osc'[b] # "OK" => Fresh(b)'
                    /\ Storing(b)' => seen' = osc'[b] /\ seen' # "OK"
  BY DEF ReportInv
<1>1. passes >= 2
  BY OffDelayAssumption DEF Poll, OscType
<1>2. osc[b] \notin {"SHORT", "LONG"} /\ (Done(b) => osc[b] = "OK")
  BY <1>1, TwoPasses
<1>3. Fresh(b)'
  BY DEF Poll, Fresh
<1>4. Done(b) => ~ Done(b)'
  BY DEF Poll, Done, Pressed, Taken, OscType
<1>5. osc'[b] = IF Done(b) THEN state[b] ELSE osc[b]
  BY DEF Poll
<1>6. Storing(b)' = Storing(b) /\ seen' = seen
  BY DEF Poll, sender, Storing, button
<1>7. Storing(b) => seen = osc[b] /\ seen # "OK"
  BY DEF ReportInv
<1> QED BY <1>2, <1>3, <1>4, <1>5, <1>6, <1>7

\* A step of the main loop that is not at the end of a pass leaves the buttons ahead
\* of it ahead, but the one it was at.
LEMMA ReportKept ==
  ASSUME OscType, AtInput, ReportInv, UNCHANGED <<state, osc>>,
         \A b \in Buttons : Storing(b)' => Storing(b) /\ seen' = seen,
         \A b \in Buttons : osc[b] # "OK" /\ Fresh(b) => Fresh(b)'
  PROVE  ReportInv'
BY DEF ReportInv, Done

\* Where a step that goes on goes.
LEMMA GoesOn ==
  ASSUME NEW num \in Nat, at \in Nat, NEW again, NEW phase, Proceed(num, again, phase)
  PROVE  /\ at < num => pc' = again /\ at' = at + 1
         /\ at >= num => pc' = phase /\ at' = 1
BY DEF Proceed

\* The report's way from the poll that makes it through the switch.
LEMMA ReportStep ==
  ASSUME PassesPerPoll >= 2, OscType, AtInput, ReportInv, [OscNext]_oscVars
  PROVE  ReportInv'
<1> USE InputKinds, InputsAssumption, OffDelayAssumption DEF OscType, AtInput
<1>1. CASE UNCHANGED <<state, osc, pc, at, seen, passes>>
  BY <1>1, ReportKept DEF Storing, button, Fresh, Ahead
<1>2. CASE InitButtons
  BY <1>2, ReportKept DEF InitButtons, sender, Storing, button, Fresh
<1>3. CASE Poll
  BY <1>3, PollReports
<1>4. CASE ReadAdc
  BY <1>4, ReportKept DEF ReadAdc, gpio, Storing, Fresh, Ahead
<1>5. CASE SendBundle
  BY <1>5, ReportKept DEF SendBundle, gpio, Storing, Fresh, Ahead
<1>6. CASE BundleFails \/ SwitchCrashes
  BY <1>6, ReportKept DEF BundleFails, SwitchCrashes, gpio, Storing, Fresh, Ahead
<1>7. CASE Switch
  <2>1. UNCHANGED <<state, osc, passes>> /\ button \in Buttons /\ seen' = osc[button] /\ pc = "switch"
    BY <1>7 DEF Switch, gpio
  <2>2. CASE osc[button] = "OK"
    <3>1. /\ at < NumButtons => pc' = "switch" /\ at' = at + 1
          /\ at >= NumButtons => pc' = "trigger"
      BY <1>7, <2>2, GoesOn DEF Switch
    <3>2. ASSUME NEW b \in Buttons, osc[b] # "OK", Fresh(b) PROVE Fresh(b)'
      <4>1. b[2] # at
        BY <2>2, <3>2 DEF button
      <4>2. b[2] \in 1 .. NumButtons
        OBVIOUS
      <4>3. passes = 0 \/ at <= b[2]
        BY <2>1, <3>2 DEF Fresh, Ahead
      <4>4. \A n \in 1 .. NumButtons : n # at /\ at <= n => at < n
        OBVIOUS
      <4>5. at < b[2] \/ passes = 0
        BY <4>1, <4>2, <4>3, <4>4
      <4>6. passes = 0 => Fresh(b)'
        BY <2>1 DEF Fresh
      <4>7. CASE at < b[2]
        <5>1. at < NumButtons /\ at + 1 <= b[2]
          BY <4>2, <4>7
        <5>2. pc' = "switch" /\ at' <= b[2]
          BY <3>1, <5>1
        <5> QED BY <5>2, <3>2, <2>1 DEF Fresh, Ahead
      <4> QED BY <4>5, <4>6, <4>7
    <3>3. pc' # "store"
      BY <3>1
    <3> QED BY <2>1, <3>2, <3>3, ReportKept DEF Storing
  <2>3. CASE osc[button] # "OK"
    <3>1. pc' = "store" /\ at' = at /\ button' = button
      BY <1>7, <2>3 DEF Switch, OscStates, button
    <3>2. \A b \in Buttons : Fresh(b)' <=> Fresh(b)
      BY <2>1, <3>1 DEF Fresh, Ahead
    <3> QED BY <2>1, <2>3, <3>1, <3>2 DEF ReportInv, Storing, Done
  <2> QED BY <2>2, <2>3
<1>8. CASE Store
  <2>1. PICK b0 \in Buttons : b0 = button
    BY <1>8 DEF Store
  <2>2. /\ UNCHANGED <<state, seen, passes>> /\ Storing(b0)
        /\ osc' = [osc EXCEPT ![b0] = AfterSeen]
    BY <1>8, <2>1 DEF Store, gpio, Storing
  <2>3. /\ at < NumButtons => pc' = "switch" /\ at' = at + 1
        /\ at >= NumButtons => pc' = "trigger"
    BY <1>8, GoesOn DEF Store
  <2>4. seen = osc[b0] /\ (osc[b0] \in {"SHORT", "LONG"} => ~ Done(b0))
    BY <2>2 DEF ReportInv
  <2>5. osc'[b0] \notin {"SHORT", "LONG"} /\ (Done(b0) => osc'[b0] = "OK")
    BY <2>2, <2>4 DEF AfterSeen
  <2>6. \A b \in Buttons : Done(b)' <=> Done(b)
    BY <2>2 DEF Done
  <2>7. ASSUME NEW b \in Buttons, b # b0, Fresh(b) PROVE Fresh(b)'
    <3>1. b[2] # at /\ b[2] \in 1 .. NumButtons
      BY <2>1, <2>7 DEF button
    <3>2. at < b[2] \/ passes = 0
      <4>1. pc = "store"
        BY <1>8 DEF Store
      <4>2. passes = 0 \/ at <= b[2]
        BY <2>7, <4>1 DEF Fresh, Ahead
      <4>3. \A n \in 1 .. NumButtons : n # at /\ at <= n => at < n
        OBVIOUS
      <4> QED BY <3>1, <4>2, <4>3
    <3>3. CASE passes = 0
      BY <2>2, <3>3 DEF Fresh
    <3>4. CASE at < b[2]
      <4>1. pc' = "switch" /\ at' <= b[2]
        BY <2>3, <3>1, <3>4
      <4>2. passes = 0 \/ passes = 1
        BY <2>7 DEF Fresh
      <4> QED BY <2>2, <4>1, <4>2 DEF Fresh, Ahead
    <3> QED BY <3>2, <3>3, <3>4
  <2>8. \A b \in Buttons : b # b0 => osc'[b] = osc[b]
    BY <2>2
  <2>9. pc' # "store"
    BY <2>3
  <2> QED BY <2>5, <2>6, <2>7, <2>8, <2>9 DEF ReportInv, Storing
<1>9. CASE TestTrigger
  BY <1>9, ReportKept DEF TestTrigger, gpio, Storing, Fresh, Ahead, Proceed
<1>10. CASE SendOn
  BY <1>10, ReportKept DEF SendOn, gpio, Storing, Fresh, Ahead, Proceed
<1>11. CASE SendOff
  <2>1. UNCHANGED <<state, osc, seen>> /\ pc' # "store"
    BY <1>11 DEF SendOff, gpio, Proceed
  <2>2. ASSUME NEW b \in Buttons, Fresh(b) PROVE Fresh(b)'
    <3>1. passes = 0
      BY <1>11, <2>2 DEF SendOff, Fresh, Ahead
    <3> QED BY <1>11, <3>1 DEF SendOff, Fresh, Ahead, Proceed
  <2> QED BY <2>1, <2>2, ReportKept DEF Storing
<1> QED
  BY <1>1, <1>2, <1>3, <1>4, <1>5, <1>6, <1>7, <1>8, <1>9, <1>10, <1>11
     DEF OscNext, World, GpioThread, Main, oscVars, gpio, sender, TriggerEdge, ButtonDown, ButtonUp

\* No press is lost between the two threads, for any number of buttons, as long as
\* the main loop makes two passes between two polls: 6 ms against 1 ms.
THEOREM ReportsKept == PassesPerPoll >= 2 => (OscSpec => ReportsNotOverwritten)
<1> SUFFICES ASSUME PassesPerPoll >= 2 PROVE OscSpec => ReportsNotOverwritten
  OBVIOUS
<1> DEFINE RInv == OscType /\ AtInput /\ ReportInv
<1>1. OscInit => RInv
  BY OscStarts, ReportStarts DEF OscInv
<1>2. RInv /\ [OscNext]_oscVars => RInv'
  BY OscTypeStep, PlacedStep, ReportStep
<1>3. ASSUME RInv, NEW b \in Buttons, Poll, osc'[b] # osc[b]
      PROVE  osc[b] = "OK" /\ ~ (pc = "store" /\ button = b)
  <2>1. passes >= 2
    BY <1>3, OffDelayAssumption DEF Poll, OscType
  <2>2. Done(b)
    BY <1>3 DEF Poll
  <2>3. osc[b] = "OK"
    BY <1>3, <2>1, <2>2, TwoPasses
  <2> QED BY <1>3, <2>3 DEF ReportInv, Storing
<1>4. RInv /\ [OscNext]_oscVars
        => [\A b \in Buttons : (Poll /\ osc'[b] # osc[b]) =>
              osc[b] = "OK" /\ ~ (pc = "store" /\ button = b)]_oscVars
  BY <1>3
<1> QED BY <1>1, <1>2, <1>4, PTL DEF OscSpec, ReportsNotOverwritten
-----------------------------------------------------------------------------
(* The calibration file *)

Calibrations == [1 .. CvChannels -> Nat]

CalType ==
  /\ file \in Seq(Seq(Nat)) /\ path \in 0 .. Len(file) /\ tmp \in 0 .. Len(file)
  /\ tpc \in {"off", "solve", "create", "write", "rename"} /\ saves \in Nat
  /\ cal \in Calibrations /\ current \in Seq(Calibrations)
  /\ lpc \in {"off", "size", "read"} /\ loaded \in Calibrations

\* File n says what calibration c says.
Says(n, c) == /\ n \in 1 .. Len(file) /\ Len(file[n]) = CvChannels
              /\ \A i \in 1 .. CvChannels : file[n][i] = c[i]

\* The two names never stand for one file, and the calibration file is the latest
\* save.
Names ==
  /\ path = tmp => path = 0
  /\ path = 0 <=> current = <<>>
  /\ path # 0 => Says(path, current[Len(current)])

\* The tool writes its calibration to the temporary file, and renames it complete.
Writing ==
  /\ tpc \in {"write", "rename"} =>
       /\ f = tmp /\ tmp # 0 /\ Len(file[tmp]) <= CvChannels
       /\ \A i \in 1 .. Len(file[tmp]) : file[tmp][i] = cal[i]
  /\ tpc = "rename" => Len(file[tmp]) = CvChannels

\* A load reads a file that nobody writes, and that is the save it began with.
Loading ==
  /\ lpc \in {"size", "read"} =>
       asOf \in 1 .. Len(current) /\ lf # tmp /\ Says(lf, current[asOf])
  /\ lpc = "read" => size = CvChannels
  /\ (lpc = "off" /\ ~ failed /\ asOf > 0) => asOf \in 1 .. Len(current)

CalInv == CalType /\ Names /\ Writing /\ Loading /\ LoadIsLatestSave

\* There is no calibration file at first.
LEMMA CalStarts == CalInit => CalInv
<1> SUFFICES ASSUME CalInit PROVE CalInv
  OBVIOUS
<1> USE CvChannelsAssumption DEF CalInit
<1>1. CalType
  BY DEF CalType, Nominal, Calibrations
<1>2. Names /\ Writing /\ Loading /\ LoadIsLatestSave
  BY DEF Names, Writing, Loading, LoadIsLatestSave
<1> QED BY <1>1, <1>2 DEF CalInv

\* A step that writes no file but the temporary one, and leaves the names and the
\* loads, leaves what the others say.
LEMMA OthersSay ==
  ASSUME CalType, UNCHANGED <<path, current, lpc, lf, size, loaded, ret, failed, asOf>>,
         Len(file') >= Len(file), file' \in Seq(Seq(Nat)),
         \A n \in 1 .. Len(file) : n # tmp => file'[n] = file[n],
         tmp' # tmp => tmp' = 0 \/ tmp' > Len(file),
         Names, Loading, LoadIsLatestSave
  PROVE  Names' /\ Loading' /\ LoadIsLatestSave'
<1> USE DEF CalType
<1>1. \A n \in 1 .. Len(file) : n # tmp => n # tmp'
  OBVIOUS
<1>2. ASSUME NEW n \in 1 .. Len(file), n # tmp, NEW c, Says(n, c)
      PROVE  n \in 1 .. Len(file') /\ Len(file'[n]) = CvChannels
             /\ \A i \in 1 .. CvChannels : file'[n][i] = c[i]
  <2>1. file'[n] = file[n]
    BY <1>2
  <2>2. Len(file') \in Nat /\ Len(file) \in Nat
    OBVIOUS
  <2>3. n \in 1 .. Len(file')
    BY <2>2
  <2> QED BY <1>2, <2>1, <2>3 DEF Says
<1>3. Names'
  <2>1. path' = tmp' => path' = 0
    BY <1>1 DEF Names
  <2>2. path # 0 => Says(path, current[Len(current)])'
    BY <1>2 DEF Names, Says
  <2> QED BY <2>1, <2>2 DEF Names
<1>4. Loading'
  <2>1. ASSUME lpc \in {"size", "read"} PROVE lf # tmp' /\ Says(lf, current[asOf])'
    BY <1>1, <1>2, <2>1 DEF Loading, Says
  <2> QED BY <2>1 DEF Loading
<1> QED BY <1>3, <1>4 DEF LoadIsLatestSave

\* What the tool writes to the temporary file.
LEMMA ToolWrites ==
  ASSUME CalType, Names, Writing, Loading, LoadIsLatestSave, Create \/ Write
  PROVE  CalType' /\ Names' /\ Writing' /\ Loading' /\ LoadIsLatestSave'
<1> USE DEF CalType
<1>1. CASE Create /\ tmp = 0
  <2>1. /\ file' = Append(file, <<>>) /\ tmp' = Len(file) + 1 /\ f' = Len(file) + 1
        /\ tpc' = "write" /\ UNCHANGED <<path, saves, cal, loader, current>>
    BY <1>1 DEF Create
  <2>2. /\ file' \in Seq(Seq(Nat)) /\ Len(file') = Len(file) + 1
        /\ file'[Len(file) + 1] = <<>> /\ \A n \in 1 .. Len(file) : file'[n] = file[n]
    BY <2>1
  <2>3. CalType'
    BY <2>1, <2>2 DEF loader
  <2>4. Writing'
    BY <2>1, <2>2, CvChannelsAssumption DEF Writing
  <2> QED BY <2>1, <2>2, <2>3, <2>4, OthersSay DEF loader
<1>2. CASE Create /\ tmp # 0
  <2>1. /\ file' = [file EXCEPT ![tmp] = <<>>] /\ tmp' = tmp /\ f' = tmp
        /\ tpc' = "write" /\ UNCHANGED <<path, saves, cal, loader, current>>
    BY <1>2 DEF Create
  <2>2. /\ file' \in Seq(Seq(Nat)) /\ Len(file') = Len(file)
        /\ file'[tmp] = <<>> /\ \A n \in 1 .. Len(file) : n # tmp => file'[n] = file[n]
    BY <1>2, <2>1
  <2>3. CalType'
    BY <2>1, <2>2 DEF loader
  <2>4. Writing'
    BY <1>2, <2>1, <2>2, CvChannelsAssumption DEF Writing
  <2> QED BY <2>1, <2>2, <2>3, <2>4, OthersSay DEF loader
<1>3. CASE Write
  <2> DEFINE text == file[tmp]
  <2>1. /\ f = tmp /\ tmp \in 1 .. Len(file) /\ text \in Seq(Nat) /\ Len(text) < CvChannels
        /\ tpc = "write"
    BY <1>3 DEF Write, Writing
  <2>2. file' = [file EXCEPT ![tmp] = Append(text, cal[Len(text) + 1])]
    BY <1>3, <2>1 DEF Write
  <2>3. cal[Len(text) + 1] \in Nat
    <3>1. cal \in [1 .. CvChannels -> Nat]
      BY <2>1 DEF Calibrations
    <3>2. Len(text) + 1 \in 1 .. CvChannels
      <4>1. Len(text) \in Nat
        BY <2>1
      <4> HIDE DEF text, CalType
      <4> QED BY <2>1, <4>1, CvChannelsAssumption
    <3> HIDE DEF text, CalType
    <3> QED BY <3>1, <3>2
  <2>4. /\ file' \in Seq(Seq(Nat)) /\ Len(file') = Len(file)
        /\ \A n \in 1 .. Len(file) : n # tmp => file'[n] = file[n]
    BY <2>1, <2>2, <2>3
  <2>5. file'[tmp] = Append(text, cal[Len(text) + 1])
    BY <2>1, <2>2
  <2>6. UNCHANGED <<path, tmp, tool, loader, current>>
    BY <1>3 DEF Write
  <2>7. CalType'
    BY <2>4, <2>6 DEF tool, loader
  <2>8. Writing'
    <3>1. \A i \in 1 .. Len(text) : text[i] = cal[i]
      BY <2>1 DEF Writing
    <3>2. Len(file'[tmp]) = Len(text) + 1
      BY <2>1, <2>3, <2>5
    <3>3. \A i \in 1 .. Len(text) + 1 : file'[tmp][i] = cal[i]
      BY <2>1, <2>3, <2>5, <3>1
    <3> QED BY <2>1, <2>6, <3>2, <3>3, CvChannelsAssumption DEF Writing, tool
  <2> QED BY <2>4, <2>6, <2>7, <2>8, OthersSay DEF loader
<1> QED BY <1>1, <1>2, <1>3

\* The rename makes the calibration written the latest save; loads that go on keep
\* theirs.
LEMMA RenameSaves ==
  ASSUME CalType, Names, Writing, Loading, LoadIsLatestSave, Rename
  PROVE  CalType' /\ Names' /\ Writing' /\ Loading' /\ LoadIsLatestSave'
<1> USE DEF CalType
<1>1. /\ tpc = "rename" /\ path' = tmp /\ tmp' = 0 /\ current' = Append(current, cal)
      /\ tpc' = "off" /\ UNCHANGED <<file, saves, cal, f, loader>>
  BY DEF Rename
<1>2. /\ current' \in Seq(Calibrations) /\ Len(current') = Len(current) + 1
      /\ current'[Len(current) + 1] = cal /\ \A n \in 1 .. Len(current) : current'[n] = current[n]
  BY <1>1
<1>3. CalType'
  BY <1>1, <1>2 DEF loader
<1>4. Says(tmp, cal) /\ tmp # 0
  BY <1>1 DEF Writing, Says
<1>5. Names'
  <2>1. Says(path, current[Len(current)])'
    BY <1>1, <1>2, <1>4 DEF Says
  <2>2. current' # <<>>
    BY <1>2
  <2> QED BY <1>1, <1>4, <2>1, <2>2 DEF Names
<1>6. Writing'
  BY <1>1 DEF Writing
<1>7. Loading'
  <2>1. ASSUME lpc \in {"size", "read"} PROVE lf # 0 /\ Says(lf, current[asOf])'
    BY <2>1, <1>1, <1>2 DEF Loading, Says, loader
  <2>2. \A n \in 1 .. Len(current) : n \in 1 .. Len(current')
    BY <1>2
  <2> QED BY <1>1, <2>1, <2>2 DEF Loading, loader
<1>8. LoadIsLatestSave'
  BY <1>1, <1>2 DEF LoadIsLatestSave, Loading, loader
<1> QED BY <1>3, <1>5, <1>6, <1>7, <1>8

\* The tool's other steps touch no file but to remove the temporary name.
LEMMA ToolRest ==
  ASSUME CalType, Names, Writing, Loading, LoadIsLatestSave,
         Start \/ Solve \/ Abandon \/ Flush \/ SaveFails
  PROVE  CalType' /\ Names' /\ Writing' /\ Loading' /\ LoadIsLatestSave'
<1> USE DEF CalType
<1>1. /\ UNCHANGED <<file, path, loader, current>> /\ tmp' \in {0, tmp}
  BY DEF Start, Solve, Abandon, Flush, SaveFails
<1>2. saves' \in Nat /\ tpc' \in {"off", "solve", "create", "write", "rename"}
  BY DEF Start, Solve, Abandon, Flush, SaveFails
<1>3. cal' \in Calibrations
  <2>1. CASE Solve
    BY <2>1 DEF Solve, Calibrations
  <2>2. CASE UNCHANGED cal
    BY <2>2
  <2> QED BY <2>1, <2>2 DEF Start, Abandon, Flush, SaveFails
<1>4. CalType'
  BY <1>1, <1>2, <1>3 DEF loader
<1>5. Writing'
  BY DEF Start, Solve, Abandon, Flush, SaveFails, Writing
<1> QED BY <1>1, <1>4, <1>5, OthersSay DEF loader

\* A load of a file that says a calibration gives that calibration.
LEMMA LoadGives ==
  ASSUME CalType, Loading, LoadRead
  PROVE  ret' = 0 /\ loaded' = current[asOf] /\ loaded' \in Calibrations
<1> USE DEF CalType
<1>1. /\ Says(lf, current[asOf]) /\ size = CvChannels /\ current[asOf] \in Calibrations
      /\ file[lf] \in Seq(Nat)
  <2>1. lpc = "read"
    BY DEF LoadRead
  <2>2. Says(lf, current[asOf]) /\ size = CvChannels /\ asOf \in 1 .. Len(current)
    BY <2>1 DEF Loading
  <2> QED BY <2>2 DEF Says
<1>2. SubSeq(file[lf], 1, size) = file[lf]
  BY <1>1 DEF Says
<1>3. /\ loaded' = [c \in 1 .. CvChannels |-> IF c \in DOMAIN file[lf] THEN file[lf][c] ELSE loaded[c]]
      /\ ret' = IF file[lf] = <<>> THEN 1 ELSE 0
  <2>1. Len(file[lf]) >= size
    BY <1>1 DEF Says
  <2> HIDE DEF CalType
  <2> QED BY <1>2, <2>1 DEF LoadRead
<1>4. DOMAIN file[lf] = 1 .. CvChannels /\ file[lf] # <<>>
  BY <1>1, CvChannelsAssumption DEF Says
<1>5. loaded' = [c \in 1 .. CvChannels |-> current[asOf][c]]
  BY <1>1, <1>3, <1>4 DEF Says
<1> QED BY <1>1, <1>3, <1>4, <1>5 DEF Calibrations

\* The loads write nothing.
LEMMA LoadSteps ==
  ASSUME CalType, Names, Writing, Loading, LoadIsLatestSave, Load
  PROVE  CalType' /\ Names' /\ Writing' /\ Loading' /\ LoadIsLatestSave'
<1> USE DEF CalType
<1>1. UNCHANGED <<file, path, tmp, tool, current>>
  BY DEF Load, LoadOpen, LoadSize, LoadRead, LoadFails
<1>2. Names' /\ Writing'
  BY <1>1 DEF Names, Writing, Says, tool
<1>3. CASE LoadOpen
  <2>1. CalType'
    BY <1>1, <1>3, CvChannelsAssumption DEF LoadOpen, tool, Nominal, Calibrations
  <2>2. current # <<>> => Len(current) \in 1 .. Len(current)
    OBVIOUS
  <2>3. Loading' /\ LoadIsLatestSave'
    BY <1>1, <1>3, <2>2 DEF LoadOpen, Names, Loading, LoadIsLatestSave, Says
  <2> QED BY <1>2, <2>1, <2>3
<1>4. CASE LoadSize
  BY <1>1, <1>2, <1>4 DEF LoadSize, Loading, LoadIsLatestSave, Says, tool
<1>5. CASE LoadRead
  BY <1>1, <1>2, <1>5, LoadGives DEF LoadRead, Loading, LoadIsLatestSave, tool
<1>6. CASE LoadFails
  BY <1>1, <1>2, <1>6 DEF LoadFails, Loading, LoadIsLatestSave, tool
<1> QED BY <1>3, <1>4, <1>5, <1>6 DEF Load

\* A program that loads the calibration gets the latest save that had succeeded when it
\* began, whole, whatever the tool does meanwhile and wherever it was stopped, for
\* any number of channels and saves.
THEOREM LoadsLatestSave == CalSpec => []LoadIsLatestSave
<1>1. CalInv /\ [CalNext]_calVars => CalInv'
  <2>1. CalInv /\ UNCHANGED calVars => CalInv'
    BY DEF CalInv, CalType, Names, Writing, Loading, LoadIsLatestSave, Says, calVars, tool, loader
  <2>2. CalInv /\ CalNext => CalInv'
    BY ToolWrites, RenameSaves, ToolRest, LoadSteps DEF CalNext, Tool, CalInv
  <2> QED BY <2>1, <2>2
<1>2. CalInv => LoadIsLatestSave
  BY DEF CalInv
<1> QED BY <1>1, <1>2, CalStarts, PTL DEF CalSpec
-----------------------------------------------------------------------------
(* terminal_tedium_adc *)

\* A set of numbers that is not empty has its least one.
LEMMA LeastMember ==
  ASSUME NEW S, S \subseteq Nat, S # {}
  PROVE  Min(S) \in S /\ \A y \in S : Min(S) <= y
<1>1. PICK x \in S : \A y \in S : ~ (<<y, x>> \in OpToRel(<, Nat))
  BY NatLessThanWellFounded, WFMin, Zenon
<1>2. \A y \in S : x <= y
  <2> SUFFICES ASSUME NEW y \in S PROVE x <= y
    OBVIOUS
  <2>1. x \in Nat /\ y \in Nat
    OBVIOUS
  <2>2. ~ (y < x)
    <3>1. y < x => <<y, x>> \in OpToRel(<, Nat)
      BY <2>1 DEF OpToRel
    <3> QED BY <1>1, <3>1, Zenon
  <2> QED BY <2>1, <2>2
<1> QED BY <1>2, Zenon DEF Min

Methods == {"message", "unusable", "close"}

AdcType ==
  /\ alive \in BOOLEAN /\ version \in BOOLEAN
  /\ fds \subseteq Descriptors /\ IsFiniteSet(fds)
  /\ spifd \in Descriptors \cup {-1} /\ careless \in Nat
  /\ calls \in Seq(Methods) /\ status \in {-1, 0, 1}
  /\ ~ alive => spifd = -1 /\ calls = <<>> /\ report = NoReport

\* While a close waits for its message its descriptor is no longer one of the open
\* ones, which an open would lose; nor has the patch been told that it is open, unless
\* it answered with an open.
Closing ==
  InClose => Cardinality(fds) <= careless /\ (careless = 0 => status # 1)

\* Out of a close, the status heard last is what the object holds.
Told ==
  /\ spifd >= 0 /\ ~ InClose => status = 1
  /\ alive /\ status = 1 /\ careless = 0 => spifd >= 0

DeviceInv == AdcType /\ Closing /\ Told /\ DescriptorsKept

\* One descriptor more or less.
LEMMA OneDescriptor ==
  ASSUME NEW S, IsFiniteSet(S), NEW x
  PROVE  /\ Cardinality(S) \in Nat /\ Cardinality(S \ {x}) \in Nat
         /\ Cardinality(S) <= Cardinality(S \ {x}) + 1
         /\ Cardinality(S \ {x}) <= Cardinality(S)
         /\ IsFiniteSet(S \cup {x}) /\ IsFiniteSet(S \ {x})
         /\ Cardinality(S \cup {x}) <= Cardinality(S) + 1
<1>1. Cardinality(S) \in Nat
  BY FS_CardinalityType
<1>2. IsFiniteSet(S \ {x})
      /\ Cardinality(S \ {x}) = IF x \in S THEN Cardinality(S) - 1 ELSE Cardinality(S)
  BY FS_RemoveElement
<1>3. IsFiniteSet(S \cup {x})
      /\ Cardinality(S \cup {x}) = IF x \in S THEN Cardinality(S) ELSE Cardinality(S) + 1
  BY FS_AddElement
<1>4. Cardinality(S \ {x}) \in Nat
  BY <1>2, FS_CardinalityType
<1> QED BY <1>1, <1>2, <1>3, <1>4

\* A method called is on top of those that wait, and one that returns leaves them.
LEMMA CallStack ==
  ASSUME calls \in Seq(Methods)
  PROVE  /\ \A m \in Methods : /\ Append(calls, m) \in Seq(Methods)
                               /\ Wait(m) => (InClose' <=> InClose \/ m = "close")
         /\ calls' = calls \o <<"unusable", "close">> => calls' \in Seq(Methods) /\ InClose'
         /\ calls = <<>> => ~ InClose
         /\ calls # <<>> => Below \in Seq(Methods) /\ Len(Below) = Len(calls) - 1
                            /\ \A i \in 1 .. Len(Below) : Below[i] = calls[i]
<1>1. ASSUME NEW m \in Methods
      PROVE  /\ Append(calls, m) \in Seq(Methods)
             /\ Wait(m) => (InClose' <=> InClose \/ m = "close")
  <2>1. /\ Append(calls, m) \in Seq(Methods) /\ Len(Append(calls, m)) = Len(calls) + 1
        /\ Append(calls, m)[Len(calls) + 1] = m
        /\ \A i \in 1 .. Len(calls) : Append(calls, m)[i] = calls[i]
    OBVIOUS
  <2> QED BY <2>1 DEF Wait, InClose
<1>2. calls' = calls \o <<"unusable", "close">> => calls' \in Seq(Methods) /\ InClose'
  <2> DEFINE two == <<"unusable", "close">>
  <2>1. two \in Seq(Methods) /\ Len(two) = 2 /\ two[2] = "close"
    BY DEF Methods
  <2>2. calls \o two \in Seq(Methods) /\ Len(calls \o two) = Len(calls) + 2
        /\ (calls \o two)[Len(calls) + 2] = "close"
    <3> HIDE DEF two
    <3>1. /\ calls \o two \in Seq(Methods) /\ Len(calls \o two) = Len(calls) + Len(two)
          /\ \A i \in 1 .. Len(calls) + Len(two) :
               (calls \o two)[i] = IF i <= Len(calls) THEN calls[i] ELSE two[i - Len(calls)]
      BY <2>1, ConcatProperties
    <3> QED BY <2>1, <3>1
  <2>3. calls' = calls \o two => Len(calls) + 2 \in DOMAIN calls' /\ calls'[Len(calls) + 2] = "close"
    <3> HIDE DEF two
    <3> QED BY <2>2
  <2> QED BY <2>2, <2>3 DEF InClose
<1>3. calls = <<>> => ~ InClose
  BY DEF InClose
<1>4. calls # <<>> => Below \in Seq(Methods) /\ Len(Below) = Len(calls) - 1
                      /\ \A i \in 1 .. Len(Below) : Below[i] = calls[i]
  <2> SUFFICES ASSUME calls # <<>>
               PROVE  /\ Below \in Seq(Methods) /\ Len(Below) = Len(calls) - 1
                      /\ \A i \in 1 .. Len(Below) : Below[i] = calls[i]
    OBVIOUS
  <2>1. Len(calls) \in Nat /\ Len(calls) >= 1
    OBVIOUS
  <2> DEFINE n == Len(calls) - 1
  <2>2. n \in Nat /\ \A i \in 1 .. n : calls[i] \in Methods
    BY <2>1
  <2> HIDE DEF n
  <2>3. /\ SubSeq(calls, 1, n) \in Seq(Methods)
        /\ Len(SubSeq(calls, 1, n)) = IF 1 <= n THEN n - 1 + 1 ELSE 0
        /\ \A i \in 1 .. n - 1 + 1 : SubSeq(calls, 1, n)[i] = calls[1 + i - 1]
    <3>1. 1 \in Int /\ n \in Int
      BY <2>2
    <3> QED BY <2>2, <3>1, SubSeqProperties
  <2>4. Len(SubSeq(calls, 1, n)) = n /\ \A i \in 1 .. n : SubSeq(calls, 1, n)[i] = calls[i]
    BY <2>2, <2>3
  <2>5. Below = SubSeq(calls, 1, n)
    BY DEF Below, n
  <2> QED BY <2>3, <2>4, <2>5 DEF n
<1> QED BY <1>1, <1>2, <1>3, <1>4

\* What an open loses it counts.
LEMMA OpenCounts ==
  ASSUME DeviceInv, CountCareless
  PROVE  /\ careless' \in Nat /\ careless <= careless' /\ Cardinality(fds) <= careless'
         /\ InClose => careless' = careless + 1
<1>1. Cardinality(fds) \in Nat /\ Cardinality(fds) <= Cardinality(fds \ {spifd}) + 1
      /\ Cardinality(fds \ {spifd}) \in Nat
  BY OneDescriptor DEF DeviceInv, AdcType
<1>2. CASE spifd >= 0
  BY <1>1, <1>2 DEF DeviceInv, AdcType, DescriptorsKept, CountCareless
<1>3. CASE InClose
  BY <1>1, <1>3 DEF DeviceInv, AdcType, Closing, CountCareless
<1>4. CASE ~ (spifd >= 0) /\ ~ InClose
  <2>1. fds \ {spifd} = fds
    BY <1>4, DescriptorAssumption DEF DeviceInv, AdcType
  <2>2. Cardinality(fds) <= careless
    BY <2>1 DEF DeviceInv, DescriptorsKept
  <2>3. careless' = careless
    BY <1>4 DEF CountCareless
  <2> QED BY <1>4, <2>2, <2>3 DEF DeviceInv, AdcType
<1> QED BY <1>2, <1>3, <1>4

\* The descriptor a device gets is free and a number.
LEMMA NewDescriptor ==
  ASSUME Descriptors \ fds # {}
  PROVE  Min(Descriptors \ fds) \in Descriptors \ fds /\ Min(Descriptors \ fds) >= 0
<1>1. Descriptors \ fds \subseteq Nat
  BY DescriptorAssumption
<1>2. Min(Descriptors \ fds) \in Descriptors \ fds
  BY <1>1, LeastMember
<1>3. Min(Descriptors \ fds) \in Nat
  BY <1>1, <1>2
<1> QED BY <1>2, <1>3

\* The device starts closed.
LEMMA DeviceStarts == AdcInit => DeviceInv
<1> SUFFICES ASSUME AdcInit PROVE DeviceInv
  OBVIOUS
<1> USE DEF AdcInit
<1>1. alive \in BOOLEAN /\ calls = <<>> /\ fds = {} /\ spifd = -1
  BY Zenon
<1>2. AdcType
  BY <1>1, FS_EmptySet DEF AdcType, NoReport
<1>3. ~ InClose
  BY DEF InClose
<1>4. Cardinality(fds \ {spifd}) = 0
  BY <1>1, FS_EmptySet
<1>5. Closing /\ Told /\ DescriptorsKept
  BY <1>3, <1>4 DEF Closing, Told, DescriptorsKept
<1> QED BY <1>2, <1>5 DEF DeviceInv

\* An open that works.
LEMMA OpenWorksStep ==
  ASSUME DeviceInv, NEW v \in BOOLEAN, OpenWorks(v)
  PROVE  DeviceInv'
<1> DEFINE new == Min(Descriptors \ fds)
<1>1. /\ spifd' = new /\ fds' = fds \cup {new} /\ status' = 1 /\ version' = v /\ alive' = alive
      /\ alive /\ report' = NoReport /\ Wait("message") /\ Descriptors \ fds # {}
  BY DEF OpenWorks, Callable
<1>2. new \in Descriptors \ fds /\ new >= 0
  BY <1>1, NewDescriptor
<1> HIDE DEF new
<1>3. /\ careless' \in Nat /\ careless <= careless' /\ Cardinality(fds) <= careless'
      /\ InClose => careless' = careless + 1
  BY OpenCounts DEF OpenWorks
<1>4. calls' \in Seq(Methods) /\ (InClose' <=> InClose)
  BY <1>1, CallStack DEF DeviceInv, AdcType, Methods, Wait
<1>5. AdcType'
  BY <1>1, <1>2, <1>3, <1>4, OneDescriptor DEF DeviceInv, AdcType
<1>6. Closing'
  <2>1. Cardinality(fds') <= Cardinality(fds) + 1 /\ Cardinality(fds) \in Nat
        /\ Cardinality(fds') \in Nat
    BY <1>1, <1>5, OneDescriptor DEF DeviceInv, AdcType
  <2> QED BY <1>3, <1>4, <2>1 DEF DeviceInv, AdcType, Closing
<1>7. Told'
  BY <1>1, <1>2 DEF Told
<1>8. DescriptorsKept'
  <2>1. fds' \ {spifd'} = fds
    BY <1>1, <1>2
  <2> QED BY <1>1, <1>3, <2>1 DEF DescriptorsKept
<1> QED BY <1>5, <1>6, <1>7, <1>8 DEF DeviceInv

\* An open that does not.
LEMMA OpenFailsStep ==
  ASSUME DeviceInv, NEW v \in BOOLEAN, OpenFails(v) \/ OpenUnusable(v)
  PROVE  DeviceInv'
<1>1. /\ careless' \in Nat /\ careless <= careless' /\ Cardinality(fds) <= careless'
      /\ InClose => careless' = careless + 1
  BY OpenCounts DEF OpenFails, OpenUnusable
<1>2. /\ UNCHANGED <<alive, fds>> /\ alive /\ version' = v /\ status' = 0
      /\ report' = NoReport
  BY DEF OpenFails, OpenUnusable, Callable
<1>3. Cardinality(fds \ {spifd'}) <= Cardinality(fds) /\ Cardinality(fds) \in Nat
      /\ Cardinality(fds \ {spifd'}) \in Nat
  BY OneDescriptor DEF DeviceInv, AdcType
<1>4. calls' \in Seq(Methods) /\ (spifd' = -1 \/ (spifd' \in Descriptors /\ InClose'))
  <2>1. CASE OpenFails(v)
    BY <2>1, CallStack DEF OpenFails, DeviceInv, AdcType, Methods, Wait
  <2>2. CASE OpenUnusable(v)
    BY <2>2, CallStack, NewDescriptor DEF OpenUnusable, DeviceInv, AdcType
  <2> QED BY <2>1, <2>2
<1>5. AdcType'
  BY <1>1, <1>2, <1>4 DEF DeviceInv, AdcType
<1> QED BY <1>1, <1>2, <1>3, <1>4, <1>5 DEF DeviceInv, Closing, Told, DescriptorsKept

\* A close up to its message.
LEMMA CloseStep ==
  ASSUME DeviceInv, Close
  PROVE  DeviceInv'
<1>1. /\ UNCHANGED <<alive, version, careless>> /\ alive /\ report' = NoReport
      /\ spifd \in Descriptors
  BY DEF Close, Callable, DeviceInv, AdcType
<1>2. spifd >= 0
  BY <1>1, DescriptorAssumption
<1>3. CASE spifd \in fds
  <2>1. fds' = fds \ {spifd} /\ Wait("close") /\ status' = 0 /\ spifd' = spifd
    BY <1>3 DEF Close, CloseDevice
  <2>2. calls' \in Seq(Methods) /\ InClose'
    BY <2>1, CallStack DEF DeviceInv, AdcType, Methods, Wait
  <2>3. AdcType'
    BY <1>1, <2>1, <2>2, OneDescriptor DEF DeviceInv, AdcType
  <2>4. fds' \ {spifd'} = fds \ {spifd}
    BY <2>1
  <2>5. Cardinality(fds' \ {spifd'}) <= careless' /\ Cardinality(fds') <= careless'
    <3>1. Cardinality(fds \ {spifd}) <= careless
      BY DEF DeviceInv, DescriptorsKept
    <3> QED BY <1>1, <2>1, <2>4, <3>1
  <2> QED BY <1>3, <2>1, <2>2, <2>3, <2>5 DEF DeviceInv, Closing, Told, DescriptorsKept
<1>4. CASE spifd \notin fds
  <2>1. spifd' = -1 /\ UNCHANGED <<fds, calls, status>>
    BY <1>4 DEF Close
  <2>2. AdcType'
    BY <1>1, <2>1 DEF DeviceInv, AdcType
  <2>3. fds \ {spifd} = fds /\ fds' \ {spifd'} = fds
    BY <1>4, <2>1, DescriptorAssumption DEF DeviceInv, AdcType
  <2>4. InClose /\ (InClose' <=> InClose)
    BY <1>2, <1>4, <2>1 DEF DeviceInv, DescriptorsKept, InClose
  <2>5. Cardinality(fds' \ {spifd'}) = Cardinality(fds \ {spifd})
    BY <2>3
  <2>6. DescriptorsKept'
    BY <1>1, <2>1, <2>5 DEF DeviceInv, DescriptorsKept
  <2>7. Closing' /\ Told'
    BY <1>1, <2>1, <2>4 DEF DeviceInv, AdcType, Closing, Told
  <2> QED BY <2>2, <2>6, <2>7 DEF DeviceInv
<1> QED BY <1>3, <1>4

\* A close, and the open that called it, after the message.
LEMMA CloseReturnsStep ==
  ASSUME DeviceInv, CloseReturns
  PROVE  DeviceInv'
<1>1. /\ spifd' = -1 /\ UNCHANGED <<alive, version, fds, careless>> /\ report' = NoReport
      /\ calls # <<>> /\ calls[Len(calls)] = "close"
  BY DEF CloseReturns
<1>2. InClose
  BY <1>1 DEF InClose, DeviceInv, AdcType
<1>3. /\ Below \in Seq(Methods) /\ Len(Below) = Len(calls) - 1
      /\ \A i \in 1 .. Len(Below) : Below[i] = calls[i]
  BY <1>1, CallStack DEF DeviceInv, AdcType
<1>4. calls' \in Seq(Methods) /\ status' \in {0, status} /\ (InClose' => InClose)
  <2>1. CASE Len(calls) > 1
    <3> DEFINE n == Len(calls) - 1
    <3>1. n \in 1 .. Len(Below) /\ Resume(n)
      BY <1>3, <2>1 DEF CloseReturns, DeviceInv, AdcType
    <3>2. calls' = [Below EXCEPT ![n] = "message"] \/ calls' = Below
      BY <3>1 DEF Resume
    <3> HIDE DEF n
    <3>3. calls' \in Seq(Methods)
      BY <1>3, <3>1, <3>2 DEF Methods
    <3>4. status' \in {0, status}
      BY <3>1 DEF Resume
    <3> QED BY <1>2, <3>3, <3>4
  <2>2. CASE Len(calls) <= 1
    <3>1. calls' = <<>> /\ status' = status
      BY <2>2 DEF CloseReturns, DeviceInv, AdcType
    <3> QED BY <1>2, <3>1
  <2> QED BY <2>1, <2>2 DEF DeviceInv, AdcType
<1>5. AdcType'
  BY <1>1, <1>4 DEF DeviceInv, AdcType
<1>6. fds' \ {spifd'} = fds
  BY <1>1, DescriptorAssumption DEF DeviceInv, AdcType
<1>7. DescriptorsKept'
  <2>1. Cardinality(fds' \ {spifd'}) <= careless'
    <3>1. Cardinality(fds) <= careless
      BY <1>2 DEF DeviceInv, Closing
    <3> QED BY <1>1, <1>6, <3>1
  <2> QED BY <1>1, <2>1 DEF DescriptorsKept
<1>8. Closing' /\ Told'
  BY <1>1, <1>2, <1>4 DEF DeviceInv, AdcType, Closing, Told
<1> QED BY <1>5, <1>7, <1>8 DEF DeviceInv

\* Steps that leave the device and its messages alone.
LEMMA DeviceKept ==
  ASSUME DeviceInv, UNCHANGED <<alive, spifd, fds, status, careless>>, version' \in BOOLEAN,
         calls' \in Seq(Methods), InClose' <=> InClose,
         alive \/ (calls' = calls /\ report' = report)
  PROVE  DeviceInv'
BY DEF DeviceInv, AdcType, Closing, Told, DescriptorsKept

\* The end of an object and the next one.
LEMMA ObjectStep ==
  ASSUME DeviceInv, Free \/ New
  PROVE  DeviceInv'
<1>1. calls = <<>> /\ calls' = calls /\ ~ InClose /\ ~ InClose'
  BY CallStack DEF Free, New, DeviceInv, AdcType, InClose
<1>2. CASE Free
  <2>1. /\ alive' = FALSE /\ spifd' = -1 /\ report' = NoReport
        /\ UNCHANGED <<version, status, careless>>
    BY <1>2 DEF Free
  <2>2. fds' = fds \ {spifd}
    BY <1>2, DescriptorAssumption DEF Free, CloseDevice, DeviceInv, AdcType
  <2>3. fds' \ {spifd'} = fds'
    BY <2>1, <2>2, DescriptorAssumption DEF DeviceInv, AdcType
  <2>4. AdcType'
    BY <1>1, <2>1, <2>2, OneDescriptor DEF DeviceInv, AdcType
  <2>5. DescriptorsKept'
    BY <2>1, <2>2, <2>3 DEF DeviceInv, DescriptorsKept
  <2> QED BY <1>1, <2>1, <2>4, <2>5 DEF DeviceInv, Closing, Told
<1>3. CASE New
  <2>1. alive' = TRUE /\ spifd' = -1 /\ status' = -1 /\ UNCHANGED <<fds, report, careless>>
    BY <1>3 DEF New, FreshObject
  <2>2. version' \in BOOLEAN /\ spifd = -1
    BY <1>3 DEF New, FreshObject, DeviceInv, AdcType
  <2>3. AdcType'
    BY <1>1, <2>1, <2>2 DEF DeviceInv, AdcType
  <2> QED BY <1>1, <2>1, <2>2, <2>3 DEF DeviceInv, Closing, Told, DescriptorsKept
<1> QED BY <1>2, <1>3

\* Every step of the object.
LEMMA DeviceSteps ==
  ASSUME DeviceInv, [AdcNext]_adcVars
  PROVE  DeviceInv'
<1> USE DEF object, settings
<1>1. CASE UNCHANGED adcVars
  BY <1>1, DeviceKept DEF adcVars, InClose, DeviceInv, AdcType
<1>2. ASSUME NEW v \in BOOLEAN, OpenWorks(v) \/ OpenFails(v) \/ OpenUnusable(v)
      PROVE  DeviceInv'
  BY <1>2, OpenWorksStep, OpenFailsStep
<1>3. CASE Close \/ CloseReturns \/ Free \/ New
  BY <1>3, CloseStep, CloseReturnsStep, ObjectStep
<1>4. CASE Returns
  <2>1. UNCHANGED <<alive, spifd, version, fds, status, careless>> /\ calls' = Below
        /\ calls # <<>> /\ calls[Len(calls)] = "message"
    BY <1>4 DEF Returns
  <2>2. alive
    BY <2>1 DEF DeviceInv, AdcType
  <2>3. /\ Below \in Seq(Methods) /\ Len(Below) = Len(calls) - 1
        /\ \A i \in 1 .. Len(Below) : Below[i] = calls[i]
    BY <2>1, CallStack DEF DeviceInv, AdcType
  <2>4. InClose' <=> InClose
    BY <2>1, <2>3 DEF InClose, DeviceInv, AdcType
  <2> QED BY <2>1, <2>2, <2>3, <2>4, DeviceKept DEF DeviceInv, AdcType
<1>5. ASSUME NEW s \in Smooths, Smooth(s) PROVE DeviceInv'
  BY <1>5, DeviceKept DEF Smooth, Callable, InClose, DeviceInv, AdcType
<1>6. ASSUME NEW d \in Deadbands, Deadband(d) PROVE DeviceInv'
  BY <1>6, DeviceKept DEF Deadband, Callable, InClose, DeviceInv, AdcType
<1>7. ASSUME NEW lo \in Raws, NEW hi \in Raws, NEW k \in {0, 1, smooth}, NEW works \in BOOLEAN,
             Bang(lo, hi, k, works)
      PROVE  DeviceInv'
  <2>1. UNCHANGED <<alive, spifd, version, fds, status, careless>> /\ alive /\ Wait("message")
    BY <1>7 DEF Bang, Callable
  <2> QED BY <2>1, CallStack, DeviceKept DEF DeviceInv, AdcType, Methods, Wait
<1> QED BY <1>1, <1>2, <1>3, <1>4, <1>5, <1>6, <1>7 DEF AdcNext, adcVars

\* The object never reads or closes a descriptor that is not its own, and loses
\* none but by an open of what is open, for any descriptors and depth of calls.
THEOREM DescriptorsAreKept == AdcSpec => []DescriptorsKept
<1>1. DeviceInv => DescriptorsKept
  BY DEF DeviceInv
<1> QED BY <1>1, DeviceStarts, DeviceSteps, PTL DEF AdcSpec

\* Between two calls the last status heard is the state of the device, for any depth of
\* calls out of the messages.
THEOREM StatusIsTrue == AdcSpec => []StatusTruthful
<1>1. DeviceInv => StatusTruthful
  <2> SUFFICES ASSUME DeviceInv, alive, calls = <<>>
               PROVE  /\ spifd >= 0 => status = 1
                      /\ (status = 1 /\ careless = 0) => spifd >= 0
    BY DEF StatusTruthful
  <2>1. ~ InClose
    BY DEF InClose
  <2> QED BY <2>1 DEF DeviceInv, Told
<1> QED BY <1>1, DeviceStarts, DeviceSteps, PTL DEF AdcSpec

\* The settings are those that smooth and deadband leave, and the last readings are
\* none below 0.
Settings ==
  /\ smooth_shift \in 0 .. 4 /\ smooth = <<1, 2, 4, 8, 16>>[smooth_shift + 1]
  /\ deadband \in 0 .. 5 /\ version \in BOOLEAN
  /\ a2d \in [Channels -> Nat]
  /\ ~ alive => report = NoReport

PanelInv == Settings /\ PanelReadings

\* The shift of smooth divides by its count, whatever float it got.
LEMMA ShiftsAgree ==
  ASSUME NEW s \in Int
  PROVE  ShiftOf(s) \in 0 .. 4 /\ CountOf(s) = <<1, 2, 4, 8, 16>>[ShiftOf(s) + 1]
<1>1. CASE s < 2
  BY <1>1 DEF ShiftOf, CountOf
<1>2. CASE s >= 2 /\ s < 4
  BY <1>2 DEF ShiftOf, CountOf
<1>3. CASE s >= 4 /\ s < 8
  BY <1>3 DEF ShiftOf, CountOf
<1>4. CASE s >= 8 /\ s < 16
  BY <1>4 DEF ShiftOf, CountOf
<1>5. CASE s >= 16
  BY <1>5 DEF ShiftOf, CountOf
<1> QED BY <1>1, <1>2, <1>3, <1>4, <1>5

\* A value that the dead band holds back is as near to the mean above 0 as to the mean.
LEMMA HeldBack ==
  ASSUME NEW a \in Nat, NEW v \in Int, NEW d \in Nat, Distance(a, v) <= d
  PROVE  Distance(a, AtLeast0(v)) <= d
BY DEF Distance, AtLeast0

\* What Value tells of a sum is within the dead band of its mean.
LEMMA ValueNear ==
  ASSUME Settings, NEW sum \in Int, NEW c \in Channels
  PROVE  /\ Value(sum, c) \in Nat
         /\ Distance(Value(sum, c), AtLeast0(Scale - (sum \div smooth))) <= deadband
<1> DEFINE mean == sum \div smooth
<1>1. smooth \in {1, 2, 4, 8, 16}
  BY DEF Settings
<1>2. mean \in Int
  BY <1>1
<1>3. Shifted(sum) = mean
  BY DEF Settings, Shifted
<1> HIDE DEF mean
<1> DEFINE v == Scale - mean
<1>4. v \in Int
  BY <1>2 DEF Scale
<1>5. Value(sum, c) = IF deadband > 0 /\ Distance(a2d[c], v) <= deadband THEN a2d[c] ELSE AtLeast0(v)
  BY <1>3 DEF Value
<1> HIDE DEF v
<1>6. a2d[c] \in Nat /\ deadband \in Nat
  BY DEF Settings
<1>7. AtLeast0(v) \in Nat /\ Distance(AtLeast0(v), AtLeast0(v)) = 0
  BY <1>4 DEF AtLeast0, Distance
<1>8. Distance(Value(sum, c), AtLeast0(v)) <= deadband
  BY <1>4, <1>5, <1>6, <1>7, HeldBack
<1> QED BY <1>5, <1>6, <1>7, <1>8 DEF v, mean

\* A bang tells each outlet its jack's mean.
LEMMA BangTells ==
  ASSUME PanelInv, NEW lo \in Raws, NEW hi \in Raws, NEW k \in {0, 1, smooth},
         NEW works \in BOOLEAN, Bang(lo, hi, k, works)
  PROVE  PanelInv'
<1> USE DEF PanelInv
<1>1. /\ UNCHANGED <<alive, version, settings>> /\ alive
  BY DEF Bang, Callable
<1>2. /\ smooth' = smooth /\ smooth_shift' = smooth_shift /\ deadband' = deadband
      /\ version' = version /\ alive'
  BY <1>1 DEF settings
<1>3. smooth \in {1, 2, 4, 8, 16} /\ k \in Int /\ lo \in Int /\ hi \in Int
  BY RawAssumption DEF Settings
<1> DEFINE sum(c) == IF works THEN Sum(lo, hi, k, c) ELSE 0
           value == [c \in 0 .. NumChannels - 1 |-> Value(sum(c), c)]
<1>4. NumChannels \in {6, 8} /\ 0 .. NumChannels - 1 \subseteq Channels
  BY DEF NumChannels, Channels
<1>5. ASSUME NEW c \in Channels PROVE sum(c) \in Int /\ Sum(lo, hi, k, c) \in Int
  BY <1>3 DEF Sum, Channels
<1> HIDE DEF sum
<1>6. ASSUME NEW c \in 0 .. NumChannels - 1
      PROVE  value[c] \in Nat
             /\ Distance(value[c], AtLeast0(Scale - (sum(c) \div smooth))) <= deadband
  BY <1>4, <1>5, ValueNear
<1>7. /\ a2d' = IF deadband > 0
                THEN [c \in Channels |-> IF c < NumChannels THEN value[c] ELSE a2d[c]]
                ELSE a2d
      /\ report' = [ok |-> works, lo |-> lo, hi |-> hi, k |-> k,
                    told |-> [o \in DOMAIN OutletChannel |-> value[OutletChannel[o]]]]
  BY DEF Bang, sum
<1> HIDE DEF value
<1>8. a2d' \in [Channels -> Nat]
  <2>1. ASSUME NEW c \in Channels, c < NumChannels PROVE value[c] \in Nat
    BY <1>4, <1>6, <2>1 DEF Channels
  <2> QED BY <1>7, <2>1 DEF Settings
<1>9. Settings'
  BY <1>2, <1>8 DEF Settings
<1>10. ASSUME NEW o \in DOMAIN OutletChannel
       PROVE  /\ OutletChannel[o] \in 0 .. NumChannels - 1
              /\ PanelFromAdc[o] = OutletChannel[o]
  <2>1. CASE version
    <3>1. OutletChannel = <<5, 6, 1, 4, 7, 0, 3, 2>> /\ PanelFromAdc = OutletChannel
          /\ NumChannels = 8
      BY <2>1 DEF OutletChannel, PanelFromAdc, NumChannels
    <3> QED BY <3>1
  <2>2. CASE ~ version
    <3>1. OutletChannel = <<0, 1, 2, 3, 4, 5>> /\ PanelFromAdc = <<0, 1, 2, 3, 4, 5, 6, 7>>
          /\ NumChannels = 6
      BY <2>2 DEF OutletChannel, PanelFromAdc, NumChannels
    <3> QED BY <3>1
  <2> QED BY <2>1, <2>2 DEF Settings
<1>11. PanelReadings'
  <2> SUFFICES ASSUME works, NEW o \in DOMAIN OutletChannel
               PROVE  Distance(value[OutletChannel[o]],
                               AtLeast0(Scale - (Sum(lo, hi, k, PanelFromAdc[o]) \div smooth)))
                        <= deadband
    <3>1. /\ report'.ok = works /\ report'.lo = lo /\ report'.hi = hi /\ report'.k = k
          /\ report'.told = [o \in DOMAIN OutletChannel |-> value[OutletChannel[o]]]
      BY <1>7
    <3>2. OutletChannel' = OutletChannel /\ PanelFromAdc' = PanelFromAdc
      BY <1>2 DEF OutletChannel, PanelFromAdc
    <3>3. \A c : Sum(lo, hi, k, c)' = Sum(lo, hi, k, c)
      BY <1>2 DEF Sum
    <3> QED BY <1>2, <3>1, <3>2, <3>3 DEF PanelReadings, Sum
  <2>1. sum(OutletChannel[o]) = Sum(lo, hi, k, OutletChannel[o])
    BY DEF sum
  <2> QED BY <1>6, <1>10, <2>1
<1> QED BY <1>9, <1>11

\* Every other step forgets the report.
LEMMA PanelSteps ==
  ASSUME PanelInv, [AdcNext]_adcVars
  PROVE  PanelInv'
<1> USE DEF PanelInv, object, settings
<1>1. CASE UNCHANGED adcVars
  <2>1. UNCHANGED <<alive, version, smooth, smooth_shift, deadband, a2d, report>>
    BY <1>1 DEF adcVars
  <2>2. Settings'
    BY <2>1 DEF Settings
  <2>3. PanelReadings'
    BY <2>1 DEF PanelReadings, OutletChannel, PanelFromAdc, Sum
  <2> QED BY <2>2, <2>3
<1>2. CASE report' = NoReport /\ Settings'
  BY <1>2 DEF PanelReadings, NoReport
<1>3. ASSUME NEW v \in BOOLEAN, OpenWorks(v) \/ OpenFails(v) \/ OpenUnusable(v)
      PROVE  PanelInv'
  BY <1>2, <1>3 DEF OpenWorks, OpenFails, OpenUnusable, Settings
<1>4. CASE Close \/ CloseReturns \/ Returns \/ Free
  BY <1>2, <1>4 DEF Close, CloseReturns, Returns, Free, Settings
<1>5. CASE New
  <2>1. report' = NoReport
    BY <1>5 DEF New, Settings
  <2>2. Settings'
    BY <1>5, <2>1 DEF New, FreshObject, Settings
  <2> QED BY <1>2, <2>1, <2>2
<1>6. ASSUME NEW arg \in Smooths, Smooth(arg) PROVE PanelInv'
  <2>1. PICK s \in AsUnsigned(arg) : smooth' = CountOf(s) /\ smooth_shift' = ShiftOf(s)
    BY <1>6 DEF Smooth
  <2>2. s \in Int
    BY ArgumentAssumption DEF AsUnsigned
  <2>3. smooth_shift' \in 0 .. 4 /\ smooth' = <<1, 2, 4, 8, 16>>[smooth_shift' + 1]
    BY <2>1, <2>2, ShiftsAgree
  <2>4. report' = NoReport /\ UNCHANGED <<alive, version, deadband, a2d>>
    BY <1>6 DEF Smooth
  <2>5. Settings'
    BY <2>3, <2>4 DEF Settings
  <2> QED BY <1>2, <2>4, <2>5
<1>7. ASSUME NEW d \in Deadbands, Deadband(d) PROVE PanelInv'
  BY <1>2, <1>7, ArgumentAssumption DEF Deadband, Settings
<1>8. ASSUME NEW lo \in Raws, NEW hi \in Raws, NEW k \in {0, 1, smooth}, NEW works \in BOOLEAN,
             Bang(lo, hi, k, works)
      PROVE  PanelInv'
  BY <1>8, BangTells
<1> QED BY <1>1, <1>3, <1>4, <1>5, <1>6, <1>7, <1>8 DEF AdcNext, adcVars

\* Each outlet tells its jack within the dead band, in whatever order the settings
\* came, for all readings and arguments of smooth and deadband.
THEOREM PanelReadingsTrue == AdcSpec => []PanelReadings
<1>1. AdcInit => PanelInv
  <2> SUFFICES ASSUME AdcInit PROVE PanelInv
    OBVIOUS
  <2>1. alive /\ report = NoReport /\ version \in BOOLEAN
    BY DEF AdcInit
  <2>2. Settings
    BY <2>1 DEF AdcInit, Settings
  <2> QED BY <2>1, <2>2 DEF PanelInv, PanelReadings, NoReport
<1>2. PanelInv => PanelReadings
  BY DEF PanelInv
<1> QED BY <1>1, <1>2, PanelSteps, PTL DEF AdcSpec
-----------------------------------------------------------------------------
(* The installer: what its unit runs *)

Planned == {"deps", "boot", "rt", "build", "service"}
Undoing == {"unboot", "unlimit", "ununit", "unfile"}

\* The first of the steps t from the i-th on.
FirstOf(i, t) ==
  LET left == {j \in i .. Len(Steps) : Steps[j] \in t} IN
  IF left = {} THEN "idle" ELSE Steps[Min(left)]

\* The next step is one of those asked for, and a boot step that is left comes before
\* the later ones.
LEMMA NextStep ==
  ASSUME NEW i \in 1 .. 6, NEW t
  PROVE  /\ FirstOf(i, t) \in {"idle"} \cup Planned
         /\ i <= 2 /\ "boot" \in t => FirstOf(i, t) \in {"deps", "boot"}
<1> DEFINE left == {j \in i .. Len(Steps) : Steps[j] \in t}
<1>1. Len(Steps) = 5 /\ Steps[1] = "deps" /\ Steps[2] = "boot" /\ Steps[3] = "rt"
      /\ Steps[4] = "build" /\ Steps[5] = "service"
  BY DEF Steps
<1>2. left \subseteq Nat /\ left \subseteq i .. 5
  BY <1>1
<1>3. FirstOf(i, t) = IF left = {} THEN "idle" ELSE Steps[Min(left)]
  BY DEF FirstOf
<1>4. i <= 2 /\ "boot" \in t => 2 \in left
  BY <1>1
<1> HIDE DEF left
<1>5. left # {} => Min(left) \in left /\ \A y \in left : Min(left) <= y
  BY <1>2, LeastMember
<1>6. CASE left = {}
  BY <1>3, <1>4, <1>6
<1>7. CASE left # {}
  <2>1. PICK m \in i .. 5 : m = Min(left) /\ FirstOf(i, t) = Steps[m] /\ \A y \in left : m <= y
    BY <1>2, <1>3, <1>5, <1>7
  <2>2. m \in {1, 2, 3, 4, 5}
    BY <2>1
  <2>3. Steps[m] \in Planned
    BY <1>1, <2>2 DEF Planned
  <2>4. i <= 2 /\ "boot" \in t => m <= 2
    BY <1>4, <2>1
  <2>5. i <= 2 /\ "boot" \in t => Steps[m] \in {"deps", "boot"}
    BY <1>1, <2>2, <2>4
  <2> QED BY <2>1, <2>3, <2>5
<1> QED BY <1>6, <1>7

\* The script's next step, before and after a step that chooses other ones.
LEMMA FromIs ==
  ASSUME NEW i \in 1 .. 6
  PROVE  From(i) = FirstOf(i, todo) /\ From(i)' = FirstOf(i, todo')
BY DEF From, FirstOf

\* The unit's binary is there, and a run that has installed one still has it; when the
\* uninstaller removes a binary no unit is left.
UnitInv ==
  /\ UnitHasBinary
  /\ step \in {"idle", "backup", "append"} \cup Planned \cup Undoing
  /\ haveJack /\ step \notin {"idle"} \cup Undoing => prefix \in bin
  /\ step = "unfile" => unit = "none"

\* Each step of the script and of the user keeps it.
LEMMA UnitStep ==
  ASSUME UnitInv, [InstallNext]_installVars
  PROVE  UnitInv'
<1> USE DEF UnitInv, UnitHasBinary, Undoing
<1>1. CASE UNCHANGED installVars
  BY <1>1 DEF installVars, system, options
<1>2. CASE User
  <2>1. UNCHANGED <<bin, unit, prefix, step, haveJack>>
    BY <1>2 DEF User, Insert, Delete, options
  <2> QED BY <2>1
<1>3. ASSUME NEW s \in StepSets, NEW b \in Boards, NEW p \in PrefixDirs, Install(s, b, p)
      PROVE  UnitInv'
  <2>1. haveJack' = FALSE /\ UNCHANGED <<bin, unit>> /\ step' = From(1)'
    BY <1>3 DEF Install, system
  <2>2. From(1)' \in {"idle"} \cup Planned
    BY NextStep, FromIs
  <2> QED BY <2>1, <2>2 DEF Planned
<1>4. ASSUME NEW p \in PrefixDirs, Uninstall(p) PROVE UnitInv'
  BY <1>4 DEF Uninstall, system
<1>5. ASSUME NEW i \in 1 .. 5, StepDone(i) PROVE step' \in {"idle"} \cup Planned
  BY <1>5, NextStep, FromIs DEF StepDone
<1>6. CASE Stop
  BY <1>6 DEF Stop, system
<1>7. CASE InstallDeps
  BY <1>5, <1>7 DEF InstallDeps, system, options, Planned
<1>8. CASE RefreshBlock \/ Backup
  BY <1>8 DEF RefreshBlock, Backup, system, options, Planned
<1>9. CASE AppendBlock
  <2>1. step = "append" /\ UNCHANGED <<bin, unit, options, haveJack>> /\ StepDone(2)
    BY <1>9, Zenon DEF AppendBlock
  <2>2. step' \in {"idle"} \cup Planned
    BY <1>5, <2>1
  <2> QED BY <2>1, <2>2 DEF Planned, options
<1>10. CASE ConfigureRt
  BY <1>5, <1>10 DEF ConfigureRt, options, Planned
<1>11. CASE BuildSoftware
  <2>1. /\ bin' = IF haveJack' THEN bin \cup {prefix} ELSE bin
        /\ step' \in {"idle"} \cup Planned /\ UNCHANGED <<unit, prefix>>
    BY <1>5, <1>11 DEF BuildSoftware, options
  <2> QED BY <2>1 DEF Planned
<1>12. CASE InstallService
  <2>1. /\ unit' = IF haveJack THEN prefix ELSE unit
        /\ step = "service" /\ step' \in {"idle"} \cup Planned /\ UNCHANGED <<bin, prefix, haveJack>>
    BY <1>5, <1>12 DEF InstallService, options
  <2> QED BY <2>1 DEF Planned
<1>13. CASE RemoveBlock \/ RemoveLimits \/ RemoveUnit
  BY <1>13 DEF RemoveBlock, RemoveLimits, RemoveUnit, options, Planned
<1>14. CASE RemoveFiles
  BY <1>14 DEF RemoveFiles, options, Planned
<1> QED
  BY <1>1, <1>2, <1>3, <1>4, <1>6, <1>7, <1>8, <1>9, <1>10, <1>11, <1>12, <1>13, <1>14
     DEF InstallNext, Command, Script

\* The unit never points at a binary that is not there, for any prefixes, choices of
\* steps, number of runs and places where they stop.
THEOREM UnitKeepsBinary == InstallSpec => []UnitHasBinary
<1>1. InstallInit => UnitInv
  BY DEF InstallInit, UnitInv, UnitHasBinary
<1>2. UnitInv => UnitHasBinary
  BY DEF UnitInv
<1> QED BY <1>1, <1>2, UnitStep, PTL DEF InstallSpec
-----------------------------------------------------------------------------
(* The boot configuration: what the edits and sed make of its lines *)

\* The lines outside a block, and all that may be in the file.
Plainly == Mine \cup {""}
Text    == Plainly \cup Boards \cup {"begin", "end", "[all]"}

Plain(c) == \A i \in DOMAIN c : c[i] \in Plainly

\* The block with board b's settings stands at the k-th line, and no other.
BlockAt(c, k, b) ==
  /\ k \in 1 .. Len(c) - 3
  /\ c[k] = "begin" /\ c[k + 1] = "[all]" /\ c[k + 2] = b /\ c[k + 3] = "end"
  /\ \A i \in DOMAIN c : i \in k .. k + 3 \/ c[i] \in Plainly

\* The lines of the kinds are different ones.
LEMMA Kinds ==
  /\ "begin" \notin Plainly /\ "end" \notin Plainly /\ "[all]" \notin Plainly
  /\ Boards \cap Plainly = {} /\ Boards \cap {"begin", "end", "[all]", ""} = {}
  /\ Mine \subseteq Plainly /\ "" \notin Mine /\ Boards \cap Mine = {}
  /\ "begin" \notin Mine /\ "end" \notin Mine /\ "[all]" \notin Mine
  /\ Filters \subseteq Mine
BY NamesAssumption DEF Plainly, Mine

\* A line put in, place by place.
LEMMA Inserted ==
  ASSUME NEW S, NEW c \in Seq(S), NEW i \in 1 .. Len(c) + 1, NEW x \in S
  PROVE  /\ InsertAt(c, i, x) \in Seq(S) /\ Len(InsertAt(c, i, x)) = Len(c) + 1
         /\ \A j \in 1 .. Len(c) + 1 :
              InsertAt(c, i, x)[j] = IF j < i THEN c[j] ELSE IF j = i THEN x ELSE c[j - 1]
<1> DEFINE a == SubSeq(c, 1, i - 1)
           b == SubSeq(c, i, Len(c))
           m == <<x>>
<1>1. Len(c) \in Nat /\ i - 1 \in Nat /\ i \in Int
  OBVIOUS
<1>2. a \in Seq(S) /\ Len(a) = i - 1 /\ \A j \in 1 .. i - 1 : a[j] = c[j]
  BY <1>1, SubSeqProperties
<1>3. b \in Seq(S) /\ Len(b) = Len(c) - i + 1 /\ \A j \in 1 .. Len(c) - i + 1 : b[j] = c[i + j - 1]
  BY <1>1, SubSeqProperties
<1>4. m \in Seq(S) /\ Len(m) = 1 /\ m[1] = x
  OBVIOUS
<1>5. InsertAt(c, i, x) = (a \o m) \o b
  BY DEF InsertAt
<1> HIDE DEF a, b, m
<1> DEFINE am == a \o m
<1>6. /\ am \in Seq(S) /\ Len(am) = i
      /\ \A j \in 1 .. i : am[j] = IF j <= i - 1 THEN a[j] ELSE m[j - (i - 1)]
  <2>1. /\ am \in Seq(S) /\ Len(am) = Len(a) + Len(m)
        /\ \A j \in 1 .. Len(a) + Len(m) : am[j] = IF j <= Len(a) THEN a[j] ELSE m[j - Len(a)]
    BY <1>2, <1>4, ConcatProperties
  <2> HIDE DEF am
  <2>2. Len(a) + Len(m) = i /\ Len(a) = i - 1
    BY <1>1, <1>2, <1>4
  <2> QED BY <2>1, <2>2
<1> HIDE DEF am
<1>7. /\ am \o b \in Seq(S) /\ Len(am \o b) = Len(c) + 1
      /\ \A j \in 1 .. Len(c) + 1 : (am \o b)[j] = IF j <= i THEN am[j] ELSE b[j - i]
  <2>1. /\ am \o b \in Seq(S) /\ Len(am \o b) = Len(am) + Len(b)
        /\ \A j \in 1 .. Len(am) + Len(b) : (am \o b)[j] = IF j <= Len(am) THEN am[j] ELSE b[j - Len(am)]
    BY <1>3, <1>6, ConcatProperties
  <2>2. Len(am) + Len(b) = Len(c) + 1 /\ Len(am) = i
    BY <1>1, <1>3, <1>6
  <2> QED BY <2>1, <2>2
<1>8. ASSUME NEW j \in 1 .. Len(c) + 1
      PROVE  (am \o b)[j] = IF j < i THEN c[j] ELSE IF j = i THEN x ELSE c[j - 1]
  <2>1. CASE j < i
    <3>1. j \in 1 .. i /\ j \in 1 .. i - 1 /\ j <= i /\ j <= i - 1
      BY <1>1, <2>1
    <3>2. (am \o b)[j] = am[j] /\ am[j] = a[j] /\ a[j] = c[j]
      BY <1>2, <1>6, <1>7, <3>1
    <3> QED BY <2>1, <3>2
  <2>2. CASE j = i
    <3>1. j \in 1 .. i /\ j <= i /\ ~ (j <= i - 1) /\ j - (i - 1) = 1 /\ ~ (j < i)
      BY <1>1, <2>2
    <3>2. (am \o b)[j] = am[j] /\ am[j] = m[1]
      BY <1>6, <1>7, <3>1
    <3> QED BY <1>4, <2>2, <3>1, <3>2
  <2>3. CASE j > i
    <3>1. j - i \in 1 .. Len(c) - i + 1 /\ i + (j - i) - 1 = j - 1 /\ ~ (j <= i)
      BY <1>1, <2>3
    <3>2. (am \o b)[j] = b[j - i] /\ b[j - i] = c[i + (j - i) - 1]
      BY <1>3, <1>7, <3>1
    <3> QED BY <1>1, <2>3, <3>1, <3>2
  <2>4. j < i \/ j = i \/ j > i
    BY <1>1
  <2> QED BY <2>1, <2>2, <2>3, <2>4
<1> QED BY <1>5, <1>7, <1>8 DEF am

\* A line taken out, place by place.
LEMMA Deleted ==
  ASSUME NEW S, NEW c \in Seq(S), NEW i \in 1 .. Len(c)
  PROVE  /\ RemoveAt(c, i) \in Seq(S) /\ Len(RemoveAt(c, i)) = Len(c) - 1
         /\ \A j \in 1 .. Len(c) - 1 : RemoveAt(c, i)[j] = IF j < i THEN c[j] ELSE c[j + 1]
<1> DEFINE a == SubSeq(c, 1, i - 1)
           b == SubSeq(c, i + 1, Len(c))
<1>1. Len(c) \in Nat /\ i - 1 \in Nat /\ i + 1 \in Int
  OBVIOUS
<1>2. a \in Seq(S) /\ Len(a) = i - 1 /\ \A j \in 1 .. i - 1 : a[j] = c[j]
  BY <1>1, SubSeqProperties
<1>3. b \in Seq(S) /\ Len(b) = Len(c) - i /\ \A j \in 1 .. Len(c) - i : b[j] = c[i + j]
  BY <1>1, SubSeqProperties
<1>4. RemoveAt(c, i) = a \o b
  BY DEF RemoveAt
<1> HIDE DEF a, b
<1>5. /\ a \o b \in Seq(S) /\ Len(a \o b) = Len(c) - 1
      /\ \A j \in 1 .. Len(c) - 1 : (a \o b)[j] = IF j <= i - 1 THEN a[j] ELSE b[j - (i - 1)]
  <2>1. /\ a \o b \in Seq(S) /\ Len(a \o b) = Len(a) + Len(b)
        /\ \A j \in 1 .. Len(a) + Len(b) : (a \o b)[j] = IF j <= Len(a) THEN a[j] ELSE b[j - Len(a)]
    BY <1>2, <1>3, ConcatProperties
  <2>2. Len(a) + Len(b) = Len(c) - 1 /\ Len(a) = i - 1
    BY <1>1, <1>2, <1>3
  <2> QED BY <2>1, <2>2
<1>6. ASSUME NEW j \in 1 .. Len(c) - 1
      PROVE  (a \o b)[j] = IF j < i THEN c[j] ELSE c[j + 1]
  <2>1. CASE j < i
    BY <1>1, <1>2, <1>5, <2>1
  <2>2. CASE j >= i
    <3>1. j - (i - 1) \in 1 .. Len(c) - i /\ i + (j - (i - 1)) = j + 1 /\ ~ (j <= i - 1)
      BY <1>1, <2>2
    <3>2. (a \o b)[j] = b[j - (i - 1)] /\ b[j - (i - 1)] = c[i + (j - (i - 1))]
      BY <1>3, <1>5, <3>1
    <3> QED BY <1>1, <2>2, <3>1, <3>2
  <2>3. j < i \/ j >= i
    BY <1>1
  <2> QED BY <2>1, <2>2, <2>3
<1> QED BY <1>4, <1>5, <1>6

\* A line put in outside the block moves the block at most.
LEMMA InsertShape ==
  ASSUME NEW c \in Seq(Text), NEW i \in 1 .. Len(c) + 1, NEW x \in Mine, NEW d, d = InsertAt(c, i, x)
  PROVE  /\ d \in Seq(Text)
         /\ Plain(c) => Plain(d)
         /\ \A k \in 1 .. Len(c), b \in Boards :
              BlockAt(c, k, b) /\ i \notin k + 1 .. k + 3 => BlockAt(d, IF i <= k THEN k + 1 ELSE k, b)
<1>1. x \in Text /\ x \in Plainly
  BY Kinds DEF Text
<1>2. /\ d \in Seq(Text) /\ Len(d) = Len(c) + 1 /\ Len(c) \in Nat
      /\ \A j \in 1 .. Len(c) + 1 : d[j] = IF j < i THEN c[j] ELSE IF j = i THEN x ELSE c[j - 1]
  <2>1. Len(c) \in Nat
    OBVIOUS
  <2>2. /\ InsertAt(c, i, x) \in Seq(Text) /\ Len(InsertAt(c, i, x)) = Len(c) + 1
        /\ \A j \in 1 .. Len(c) + 1 :
             InsertAt(c, i, x)[j] = IF j < i THEN c[j] ELSE IF j = i THEN x ELSE c[j - 1]
    <3>1. x \in Text
      BY <1>1
    <3> HIDE <1>1
    <3>2. c \in Seq(Text) /\ i \in 1 .. Len(c) + 1
      OBVIOUS
    <3> QED BY <3>1, <3>2, Inserted, SMTT(60)
  <2> QED BY <2>1, <2>2, Zenon
<1>3. Plain(c) => Plain(d)
  <2> SUFFICES ASSUME Plain(c), NEW j \in DOMAIN d PROVE d[j] \in Plainly
    BY DEF Plain
  <2>1. j \in 1 .. Len(c) + 1 /\ \A n \in 1 .. Len(c) : c[n] \in Plainly
    BY <1>2 DEF Plain
  <2>2. d[j] = IF j < i THEN c[j] ELSE IF j = i THEN x ELSE c[j - 1]
    BY <1>2, <2>1
  <2>3. /\ j < i => j \in 1 .. Len(c)
        /\ j # i /\ ~ (j < i) => j - 1 \in 1 .. Len(c)
    BY <1>2, <2>1
  <2> QED BY <1>1, <2>1, <2>2, <2>3
<1>4. ASSUME NEW k \in 1 .. Len(c), NEW b \in Boards, BlockAt(c, k, b), i \notin k + 1 .. k + 3
      PROVE  BlockAt(d, IF i <= k THEN k + 1 ELSE k, b)
  <2>3. k \in Nat /\ k + 3 <= Len(c) /\ i \in Nat /\ i >= 1
    BY <1>2, <1>4 DEF BlockAt
  <2>4. \A j \in 1 .. Len(c) : j < i => d[j] = c[j]
    BY <1>2
  <2>5. \A j \in 1 .. Len(c) : j >= i => d[j + 1] = c[j]
    <3> SUFFICES ASSUME NEW j \in 1 .. Len(c), j >= i PROVE d[j + 1] = c[j]
      OBVIOUS
    <3>1. j + 1 \in 1 .. Len(c) + 1 /\ ~ (j + 1 < i) /\ j + 1 # i /\ (j + 1) - 1 = j
      BY <1>2, <2>3
    <3> QED BY <1>2, <3>1
  <2>1. CASE i <= k
    <3>1. d[k + 1] = c[k] /\ d[k + 2] = c[k + 1] /\ d[k + 3] = c[k + 2] /\ d[k + 4] = c[k + 3]
      <4>1. /\ k \in 1 .. Len(c) /\ k + 1 \in 1 .. Len(c) /\ k + 2 \in 1 .. Len(c)
            /\ k + 3 \in 1 .. Len(c) /\ k + 1 >= i /\ k + 2 >= i /\ k + 3 >= i
            /\ (k + 1) + 1 = k + 2 /\ (k + 2) + 1 = k + 3 /\ (k + 3) + 1 = k + 4
        BY <1>2, <2>1, <2>3
      <4> QED BY <2>1, <2>5, <4>1
    <3>2. \A j \in 1 .. Len(c) + 1 : j \in k + 1 .. k + 4 \/ d[j] \in Plainly
      <4> SUFFICES ASSUME NEW j \in 1 .. Len(c) + 1, j \notin k + 1 .. k + 4
                   PROVE  d[j] \in Plainly
        OBVIOUS
      <4>1. j = i \/ (j < i /\ j \in 1 .. Len(c) /\ j \notin k .. k + 3)
                 \/ (j > i /\ j - 1 \in 1 .. Len(c) /\ j - 1 \notin k .. k + 3)
        BY <1>2, <2>1, <2>3
      <4>2. \A n \in 1 .. Len(c) : n \in k .. k + 3 \/ c[n] \in Plainly
        BY <1>4 DEF BlockAt
      <4>3. j = i => d[j] = x
        BY <1>2
      <4>4. j > i => d[j] = c[j - 1]
        BY <1>2, <2>3
      <4> QED BY <1>1, <2>4, <4>1, <4>2, <4>3, <4>4
    <3> QED BY <1>2, <1>4, <2>1, <3>1, <3>2 DEF BlockAt
  <2>2. CASE i > k
    <3>1. i > k + 3
      BY <1>4, <2>2
    <3>2. d[k] = c[k] /\ d[k + 1] = c[k + 1] /\ d[k + 2] = c[k + 2] /\ d[k + 3] = c[k + 3]
      <4>1. /\ k \in 1 .. Len(c) /\ k + 1 \in 1 .. Len(c) /\ k + 2 \in 1 .. Len(c)
            /\ k + 3 \in 1 .. Len(c) /\ k < i /\ k + 1 < i /\ k + 2 < i /\ k + 3 < i
        BY <1>2, <3>1, <2>3
      <4> QED BY <2>4, <4>1
    <3>3. \A j \in 1 .. Len(c) + 1 : j \in k .. k + 3 \/ d[j] \in Plainly
      <4> SUFFICES ASSUME NEW j \in 1 .. Len(c) + 1, j \notin k .. k + 3
                   PROVE  d[j] \in Plainly
        OBVIOUS
      <4>1. j = i \/ (j < i /\ j \in 1 .. Len(c))
                 \/ (j > i /\ j - 1 \in 1 .. Len(c) /\ j - 1 \notin k .. k + 3)
        BY <1>2, <3>1, <2>3
      <4>2. \A n \in 1 .. Len(c) : n \in k .. k + 3 \/ c[n] \in Plainly
        BY <1>4 DEF BlockAt
      <4>3. j = i => d[j] = x
        BY <1>2
      <4>4. j > i => d[j] = c[j - 1]
        BY <1>2, <2>3
      <4> QED BY <1>1, <2>4, <4>1, <4>2, <4>3, <4>4
    <3> QED BY <1>2, <1>4, <2>2, <3>2, <3>3 DEF BlockAt
  <2> QED BY <2>1, <2>2
<1> QED BY <1>2, <1>3, <1>4

\* And so does one of the user's lines taken out.
LEMMA DeleteShape ==
  ASSUME NEW c \in Seq(Text), NEW i \in 1 .. Len(c), c[i] \in Mine, NEW d, d = RemoveAt(c, i)
  PROVE  /\ d \in Seq(Text)
         /\ Plain(c) => Plain(d)
         /\ \A k \in 1 .. Len(c), b \in Boards :
              BlockAt(c, k, b) => BlockAt(d, IF i < k THEN k - 1 ELSE k, b)
<1>1. /\ d \in Seq(Text) /\ Len(d) = Len(c) - 1 /\ Len(c) \in Nat
      /\ \A j \in 1 .. Len(c) - 1 : d[j] = IF j < i THEN c[j] ELSE c[j + 1]
  <2>1. Len(c) \in Nat
    OBVIOUS
  <2>2. /\ RemoveAt(c, i) \in Seq(Text) /\ Len(RemoveAt(c, i)) = Len(c) - 1
        /\ \A j \in 1 .. Len(c) - 1 : RemoveAt(c, i)[j] = IF j < i THEN c[j] ELSE c[j + 1]
    BY Deleted, Zenon
  <2> QED BY <2>1, <2>2, Zenon
<1>2. Plain(c) => Plain(d)
  BY <1>1 DEF Plain
<1>3. ASSUME NEW k \in 1 .. Len(c), NEW b \in Boards, BlockAt(c, k, b)
      PROVE  BlockAt(d, IF i < k THEN k - 1 ELSE k, b)
  <2>4. k \in Nat /\ k + 3 <= Len(c) /\ i \in Nat /\ i >= 1
    BY <1>1, <1>3 DEF BlockAt
  <2>5. \A j \in 1 .. Len(c) - 1 : j < i => d[j] = c[j]
    BY <1>1
  <2>6. \A j \in 1 .. Len(c) : j > i => d[j - 1] = c[j]
    <3> SUFFICES ASSUME NEW j \in 1 .. Len(c), j > i PROVE d[j - 1] = c[j]
      OBVIOUS
    <3>1. j - 1 \in 1 .. Len(c) - 1 /\ ~ (j - 1 < i) /\ (j - 1) + 1 = j
      BY <1>1, <2>4
    <3> QED BY <1>1, <3>1
  <2>7. \A n \in 1 .. Len(c) : n \in k .. k + 3 \/ c[n] \in Plainly
    BY <1>3 DEF BlockAt
  <2>1. i # k /\ i # k + 1 /\ i # k + 2 /\ i # k + 3
    BY <1>3, Kinds DEF BlockAt
  <2>2. CASE i < k
    <3>1. d[k - 1] = c[k] /\ d[k] = c[k + 1] /\ d[k + 1] = c[k + 2] /\ d[k + 2] = c[k + 3]
      <4>1. /\ k \in 1 .. Len(c) /\ k + 1 \in 1 .. Len(c) /\ k + 2 \in 1 .. Len(c)
            /\ k + 3 \in 1 .. Len(c) /\ k + 1 > i /\ k + 2 > i /\ k + 3 > i
            /\ (k + 1) - 1 = k /\ (k + 2) - 1 = k + 1 /\ (k + 3) - 1 = k + 2
        BY <1>1, <2>2, <2>4
      <4> QED BY <2>2, <2>6, <4>1
    <3>2. \A j \in 1 .. Len(c) - 1 : j \in k - 1 .. k + 2 \/ d[j] \in Plainly
      <4> SUFFICES ASSUME NEW j \in 1 .. Len(c) - 1, j \notin k - 1 .. k + 2
                   PROVE  d[j] \in Plainly
        OBVIOUS
      <4>1. (j < i /\ j \in 1 .. Len(c) /\ j \notin k .. k + 3)
            \/ (j >= i /\ j + 1 \in 1 .. Len(c) /\ j + 1 \notin k .. k + 3)
        BY <1>1, <2>2, <2>4
      <4>2. j >= i => d[j] = c[j + 1]
        BY <1>1, <2>4
      <4> QED BY <2>5, <2>7, <4>1, <4>2
    <3> QED BY <1>1, <1>3, <2>2, <3>1, <3>2 DEF BlockAt
  <2>3. CASE i > k + 3
    <3>1. d[k] = c[k] /\ d[k + 1] = c[k + 1] /\ d[k + 2] = c[k + 2] /\ d[k + 3] = c[k + 3]
      <4>1. /\ k \in 1 .. Len(c) - 1 /\ k + 1 \in 1 .. Len(c) - 1 /\ k + 2 \in 1 .. Len(c) - 1
            /\ k + 3 \in 1 .. Len(c) - 1 /\ k < i /\ k + 1 < i /\ k + 2 < i /\ k + 3 < i
        BY <1>1, <2>3, <2>4
      <4> QED BY <2>5, <4>1
    <3>2. \A j \in 1 .. Len(c) - 1 : j \in k .. k + 3 \/ d[j] \in Plainly
      <4> SUFFICES ASSUME NEW j \in 1 .. Len(c) - 1, j \notin k .. k + 3
                   PROVE  d[j] \in Plainly
        OBVIOUS
      <4>1. (j < i /\ j \in 1 .. Len(c) /\ j \notin k .. k + 3)
            \/ (j >= i /\ j + 1 \in 1 .. Len(c) /\ j + 1 \notin k .. k + 3)
        BY <1>1, <2>3, <2>4
      <4>2. j >= i => d[j] = c[j + 1]
        BY <1>1, <2>4
      <4> QED BY <2>5, <2>7, <4>1, <4>2
    <3> QED BY <1>1, <1>3, <2>3, <3>1, <3>2 DEF BlockAt
  <2> QED BY <2>1, <2>2, <2>3
<1> QED BY <1>1, <1>2, <1>3

\* What is in a block: its four lines.
LEMMA BlockLines ==
  ASSUME NEW c \in Seq(Text)
  PROVE  /\ Plain(c) => \A i \in DOMAIN c : ~ InBlock(c, i)
         /\ \A k \in 1 .. Len(c), b \in Boards : BlockAt(c, k, b) =>
              \A i \in DOMAIN c : InBlock(c, i) <=> i \in k .. k + 3
<1>1. DOMAIN c = 1 .. Len(c) /\ Len(c) \in Nat
  OBVIOUS
<1>2. ASSUME Plain(c), NEW i \in DOMAIN c PROVE ~ InBlock(c, i)
  <2> SUFFICES ASSUME NEW n \in 1 .. i, c[n] = "begin" PROVE FALSE
    BY DEF InBlock
  <2>1. n \in DOMAIN c
    BY <1>1
  <2> QED BY <1>2, <2>1, Kinds DEF Plain
<1>3. ASSUME NEW k \in 1 .. Len(c), NEW b \in Boards, BlockAt(c, k, b), NEW i \in DOMAIN c
      PROVE  InBlock(c, i) <=> i \in k .. k + 3
  <2>1. \A n \in DOMAIN c : c[n] = "begin" => n = k
    <3>1. c[k + 1] # "begin" /\ c[k + 2] # "begin" /\ c[k + 3] # "begin"
      BY <1>3, Kinds DEF BlockAt
    <3>2. \A n \in DOMAIN c : n \in {k, k + 1, k + 2, k + 3} \/ c[n] \in Plainly
      BY <1>1, <1>3 DEF BlockAt
    <3> QED BY <3>1, <3>2, Kinds
  <2>2. ASSUME i \in k .. k + 3 PROVE InBlock(c, i)
    <3>1. \A j \in k .. i - 1 : j \in {k, k + 1, k + 2}
      BY <1>1, <2>2
    <3>2. c[k] = "begin" /\ c[k + 1] = "[all]" /\ c[k + 2] # "end"
      BY <1>3, Kinds DEF BlockAt
    <3>3. \A j \in k .. i - 1 : c[j] # "end"
      BY <3>1, <3>2
    <3>4. k \in 1 .. i
      BY <1>1, <2>2
    <3> QED BY <3>2, <3>3, <3>4 DEF InBlock
  <2>3. ASSUME InBlock(c, i) PROVE i \in k .. k + 3
    <3>1. PICK n \in 1 .. i : c[n] = "begin" /\ \A j \in n .. i - 1 : c[j] # "end"
      BY <2>3 DEF InBlock
    <3>2. n = k
      BY <1>1, <2>1, <3>1
    <3>3. c[k + 3] = "end"
      BY <1>3 DEF BlockAt
    <3> QED BY <1>1, <3>1, <3>2, <3>3
  <2> QED BY <2>2, <2>3
<1> QED BY <1>2, <1>3

\* Counting up to N, by the least number left out.
LEMMA Upto ==
  ASSUME NEW N \in Nat, NEW S, 0 \in S, \A n \in 0 .. N - 1 : n \in S => n + 1 \in S
  PROVE  \A n \in 0 .. N : n \in S
<1> DEFINE Rest == {n \in 0 .. N : n \notin S}
<1> SUFFICES ASSUME Rest # {} PROVE FALSE
  OBVIOUS
<1>1. Rest \subseteq Nat
  OBVIOUS
<1>2. PICK d \in Rest : \A e \in Rest : ~ (<<e, d>> \in OpToRel(<, Nat))
  <2> HIDE DEF Rest
  <2> QED
    BY <1>1, NatLessThanWellFounded, WFMin, Zenon
<1>3. d \in 1 .. N /\ d - 1 \in 0 .. N - 1 /\ (d - 1) + 1 = d /\ d \notin S
  <2>1. d \in 0 .. N /\ d \notin S
    OBVIOUS
  <2>2. d # 0
    BY <2>1, Zenon
  <2> QED
    BY <2>1, <2>2
<1>4. d - 1 \notin S
  BY <1>3, Zenon
<1>5. d - 1 \in Rest /\ d - 1 < d /\ d - 1 \in Nat /\ d \in Nat
  BY <1>3, <1>4
<1>6. <<d - 1, d>> \in OpToRel(<, Nat)
  <2> HIDE DEF Rest
  <2> QED
    BY <1>5 DEF OpToRel
<1> QED
  BY <1>2, <1>5, <1>6, Zenon
\* What TLC computes of the lines kept: each value from the one before.
LEMMA KeptStep ==
  ASSUME Len(config) \in Nat
  PROVE  \A i \in 0 .. Len(config) :
           Kept[i] = IF i = 0 THEN <<>>
                     ELSE IF InBlock(config, i) THEN Kept[i - 1] ELSE Append(Kept[i - 1], config[i])
<1> DEFINE N == Len(config)
           KeptNext(g, i) == IF i = 0 THEN <<>>
                           ELSE IF InBlock(config, i) THEN g[i - 1] ELSE Append(g[i - 1], config[i])
           S == {n \in Nat : \E g : g = [i \in 0 .. n |-> KeptNext(g, i)]}
<1>1. 0 \in S
  <2> DEFINE g == [i \in 0 .. 0 |-> <<>>]
  <2>1. g = [i \in 0 .. 0 |-> KeptNext(g, i)]
    OBVIOUS
  <2> HIDE DEF g, KeptNext
  <2> QED BY <2>1
<1>2. ASSUME NEW n \in 0 .. N - 1, n \in S PROVE n + 1 \in S
  <2>1. PICK g : g = [i \in 0 .. n |-> KeptNext(g, i)]
    BY <1>2
  <2> DEFINE h == [i \in 0 .. n + 1 |-> IF i = n + 1 THEN KeptNext(g, i) ELSE g[i]]
  <2>2. ASSUME NEW i \in 0 .. n + 1 PROVE h[i] = KeptNext(h, i)
    <3>1. i # 0 => h[i - 1] = g[i - 1]
      OBVIOUS
    <3>2. KeptNext(h, i) = KeptNext(g, i)
      <4> HIDE DEF h
      <4> QED BY <3>1, Zenon
    <3>3. CASE i = n + 1
      BY <3>2, <3>3
    <3>4. CASE i \in 0 .. n
      <4>1. g[i] = KeptNext(g, i)
        <5> HIDE DEF KeptNext
        <5> QED BY <2>1, <3>4
      <4>2. h[i] = g[i]
        BY <3>4
      <4> QED BY <3>2, <4>1, <4>2, Zenon
    <3> QED BY <3>3, <3>4
  <2>3. h = [i \in 0 .. n + 1 |-> KeptNext(h, i)]
    <3>1. h = [i \in 0 .. n + 1 |-> h[i]]
      OBVIOUS
    <3> HIDE DEF h, KeptNext
    <3> QED BY <2>2, <3>1
  <2> HIDE DEF h, KeptNext
  <2> QED BY <2>3
<1>3. N \in S
  <2> HIDE DEF S
  <2>1. \A n \in 0 .. N : n \in S
    BY <1>1, <1>2, Upto
  <2> QED BY <2>1
<1>4. Kept = CHOOSE g : g = [i \in 0 .. N |-> KeptNext(g, i)]
  BY DEF Kept
<1>5. Kept = [i \in 0 .. N |-> KeptNext(Kept, i)]
  <2>1. \E g : g = [i \in 0 .. N |-> KeptNext(g, i)]
    <3> HIDE DEF KeptNext, N
    <3> QED BY <1>3
  <2> HIDE DEF KeptNext, N
  <2> QED BY <1>4, <2>1
<1>6. \A i \in 0 .. N : Kept[i] = KeptNext(Kept, i)
  <2> HIDE DEF KeptNext, N
  <2> QED BY <1>5
<1> QED BY <1>6

\* A line appended comes after all the others.
LEMMA OneLineMore ==
  ASSUME NEW q \in Seq(Text), NEW e \in Text, NEW x, NEW y
  PROVE  /\ Contains(Append(q, e), x) <=> Contains(q, x) \/ e = x
         /\ Precedes(Append(q, e), x, y) <=> Precedes(q, x, y) \/ (Contains(q, x) /\ e = y)
<1> DEFINE p == Append(q, e)
<1>1. /\ Len(q) \in Nat /\ Len(p) = Len(q) + 1 /\ p[Len(q) + 1] = e /\ DOMAIN p = 1 .. Len(q) + 1
      /\ \A i \in 1 .. Len(q) : p[i] = q[i]
  OBVIOUS
<1>2. DOMAIN q = 1 .. Len(q)
  OBVIOUS
<1> HIDE DEF p
<1>3. Contains(p, x) <=> Contains(q, x) \/ e = x
  BY <1>1 DEF Contains
<1>4. ASSUME Precedes(p, x, y) PROVE Precedes(q, x, y) \/ (Contains(q, x) /\ e = y)
  <2>1. PICK i \in 1 .. Len(q) + 1, j \in 1 .. Len(q) + 1 : i < j /\ p[i] = x /\ p[j] = y
    BY <1>1, <1>4 DEF Precedes
  <2>2. i \in 1 .. Len(q)
    BY <1>1, <2>1
  <2>3. j \in 1 .. Len(q) \/ j = Len(q) + 1
    BY <1>1
  <2> QED BY <1>1, <1>2, <2>1, <2>2, <2>3 DEF Precedes, Contains
<1>5. ASSUME Precedes(q, x, y) PROVE Precedes(p, x, y)
  <2>1. PICK i \in 1 .. Len(q), j \in 1 .. Len(q) : i < j /\ q[i] = x /\ q[j] = y
    BY <1>2, <1>5 DEF Precedes
  <2> QED BY <1>1, <2>1 DEF Precedes
<1>6. ASSUME Contains(q, x), e = y PROVE Precedes(p, x, y)
  <2>1. PICK i \in 1 .. Len(q) : q[i] = x
    BY <1>6 DEF Contains
  <2>2. i < Len(q) + 1 /\ i \in 1 .. Len(q) + 1 /\ Len(q) + 1 \in 1 .. Len(q) + 1
    BY <1>1
  <2> QED BY <1>1, <1>6, <2>1, <2>2 DEF Precedes
<1> QED BY <1>3, <1>4, <1>5, <1>6 DEF p

\* The user's lines are the same in two sequences.
SameLines(c, d) ==
  \A x, y \in Mine : /\ Contains(d, x) <=> Contains(c, x)
                     /\ Precedes(d, x, y) <=> Precedes(c, x, y)

\* Lines of other kinds appended change nothing of the user's.
LEMMA OthersAfter ==
  ASSUME NEW c \in Seq(Text), NEW d \in Seq(Text), Len(d) >= Len(c),
         \A j \in 1 .. Len(c) : d[j] = c[j],
         \A j \in Len(c) + 1 .. Len(d) : d[j] \notin Mine
  PROVE  SameLines(c, d)
<1>1. DOMAIN c = 1 .. Len(c) /\ DOMAIN d = 1 .. Len(d) /\ Len(c) \in Nat /\ Len(d) \in Nat
  OBVIOUS
<1>2. ASSUME NEW x \in Mine, NEW j \in 1 .. Len(d), d[j] = x PROVE j \in 1 .. Len(c)
  BY <1>1, <1>2
<1>3. \A j \in 1 .. Len(c) : j \in 1 .. Len(d)
  BY <1>1
<1>4. ASSUME NEW x \in Mine PROVE Contains(d, x) <=> Contains(c, x)
  BY <1>2, <1>3 DEF Contains
<1>5. ASSUME NEW x \in Mine, NEW y \in Mine PROVE Precedes(d, x, y) <=> Precedes(c, x, y)
  BY <1>1, <1>2, <1>3 DEF Precedes
<1> QED BY <1>4, <1>5 DEF SameLines

\* The lines with the block appended.
WithBlock(c, b) == c \o <<"">> \o Block(b)

\* The block appended is there, and the user's lines are what they were.
LEMMA Appended ==
  ASSUME NEW c \in Seq(Text), NEW b \in Boards
  PROVE  /\ WithBlock(c, b) \in Seq(Text) /\ SameLines(c, WithBlock(c, b))
         /\ Plain(c) => BlockAt(WithBlock(c, b), Len(c) + 2, b)
<1> DEFINE d == WithBlock(c, b)
           e == <<"">>
           cb == Block(b)
           ce == c \o e
<1>1. Len(c) \in Nat
  OBVIOUS
<1>2. e \in Seq(Text) /\ Len(e) = 1 /\ e[1] = ""
  <2>1. "" \in Text
    BY DEF Text, Plainly
  <2>2. \A x \in Text : <<x>> \in Seq(Text) /\ Len(<<x>>) = 1 /\ <<x>>[1] = x
    OBVIOUS
  <2> QED BY <2>1, <2>2, Zenon
<1>3. /\ cb \in Seq(Text) /\ Len(cb) = 4
      /\ cb[1] = "begin" /\ cb[2] = "[all]" /\ cb[3] = b /\ cb[4] = "end"
  BY DEF Block, Text
<1> HIDE DEF e, cb
<1>4. /\ ce \in Seq(Text) /\ Len(ce) = Len(c) + 1 /\ ce[Len(c) + 1] = ""
      /\ \A j \in 1 .. Len(c) : ce[j] = c[j]
  <2>1. /\ ce \in Seq(Text) /\ Len(ce) = Len(c) + Len(e)
        /\ \A j \in 1 .. Len(c) + Len(e) : ce[j] = IF j <= Len(c) THEN c[j] ELSE e[j - Len(c)]
    BY <1>2, ConcatProperties
  <2> HIDE DEF ce
  <2>2. (Len(c) + 1) - Len(c) = 1 /\ Len(c) + 1 \in 1 .. Len(c) + 1 /\ ~ (Len(c) + 1 <= Len(c))
        /\ \A j \in 1 .. Len(c) : j \in 1 .. Len(c) + 1 /\ j <= Len(c)
    BY <1>1
  <2>3. ce \in Seq(Text) /\ Len(ce) = Len(c) + 1
    BY <1>2, <2>1
  <2>4. \A j \in 1 .. Len(c) : ce[j] = c[j]
    BY <1>2, <2>1, <2>2
  <2>5. ce[Len(c) + 1] = e[1]
    BY <1>2, <2>1, <2>2
  <2> QED BY <1>2, <2>3, <2>4, <2>5
<1>5. d = ce \o cb
  BY DEF e, cb, WithBlock
<1> HIDE DEF ce, d
<1>6. /\ d \in Seq(Text) /\ Len(d) = Len(c) + 5
      /\ \A j \in 1 .. Len(c) + 5 : d[j] = IF j <= Len(c) + 1 THEN ce[j] ELSE cb[j - (Len(c) + 1)]
  <2>1. /\ ce \o cb \in Seq(Text) /\ Len(ce \o cb) = Len(ce) + Len(cb)
        /\ \A j \in 1 .. Len(ce) + Len(cb) :
             (ce \o cb)[j] = IF j <= Len(ce) THEN ce[j] ELSE cb[j - Len(ce)]
    <3>1. ce \in Seq(Text) /\ cb \in Seq(Text)
      BY <1>3, <1>4
    <3> QED BY <3>1, ConcatProperties
  <2>2. Len(ce) + Len(cb) = Len(c) + 5 /\ Len(ce) = Len(c) + 1
    <3>1. Len(ce) = Len(c) + 1 /\ Len(cb) = 4
      BY <1>3, <1>4
    <3>2. (Len(c) + 1) + 4 = Len(c) + 5
      BY <1>1
    <3> QED BY <3>1, <3>2
  <2> QED BY <1>5, <2>1, <2>2
<1>7. \A j \in 1 .. Len(c) : d[j] = c[j]
  <2>1. \A j \in 1 .. Len(c) : j \in 1 .. Len(c) + 5 /\ j <= Len(c) + 1
    BY <1>1
  <2>2. \A j \in 1 .. Len(c) : d[j] = ce[j]
    BY <1>6, <2>1
  <2> QED BY <1>4, <2>2
<1>8. /\ d[Len(c) + 1] = "" /\ d[Len(c) + 2] = "begin" /\ d[Len(c) + 3] = "[all]"
      /\ d[Len(c) + 4] = b /\ d[Len(c) + 5] = "end"
  <2>1. /\ (Len(c) + 2) - (Len(c) + 1) = 1 /\ (Len(c) + 3) - (Len(c) + 1) = 2
        /\ (Len(c) + 4) - (Len(c) + 1) = 3 /\ (Len(c) + 5) - (Len(c) + 1) = 4
        /\ \A n \in {1, 2, 3, 4, 5} : Len(c) + n \in 1 .. Len(c) + 5
        /\ \A n \in {2, 3, 4, 5} : ~ (Len(c) + n <= Len(c) + 1)
        /\ Len(c) + 1 <= Len(c) + 1
    BY <1>1
  <2>2. d[Len(c) + 1] = ce[Len(c) + 1]
    BY <1>6, <2>1
  <2>3. /\ d[Len(c) + 2] = cb[1] /\ d[Len(c) + 3] = cb[2]
        /\ d[Len(c) + 4] = cb[3] /\ d[Len(c) + 5] = cb[4]
    BY <1>6, <2>1
  <2> QED BY <1>3, <1>4, <2>2, <2>3
<1>9. \A j \in Len(c) + 1 .. Len(d) : j \in {Len(c) + 1, Len(c) + 2, Len(c) + 3, Len(c) + 4, Len(c) + 5}
  BY <1>1, <1>6
<1>10. \A j \in Len(c) + 1 .. Len(d) : d[j] \notin Mine
  BY <1>8, <1>9, Kinds
<1>11. SameLines(c, d)
  <2>1. Len(d) >= Len(c)
    BY <1>1, <1>6
  <2> QED BY <1>6, <1>7, <1>10, <2>1, OthersAfter
<1>12. ASSUME Plain(c) PROVE BlockAt(d, Len(c) + 2, b)
  <2>1. \A i \in 1 .. Len(d) : i \in 1 .. Len(c) \/ i = Len(c) + 1 \/ i \in Len(c) + 2 .. (Len(c) + 2) + 3
    BY <1>1, <1>6
  <2>2. DOMAIN c = 1 .. Len(c) /\ DOMAIN d = 1 .. Len(d)
    BY <1>6
  <2>3. \A i \in DOMAIN d : i \in Len(c) + 2 .. (Len(c) + 2) + 3 \/ d[i] \in Plainly
    BY <1>7, <1>8, <1>12, <2>1, <2>2 DEF Plain, Plainly
  <2>4. /\ Len(c) + 2 \in 1 .. Len(d) - 3 /\ (Len(c) + 2) + 1 = Len(c) + 3
        /\ (Len(c) + 2) + 2 = Len(c) + 4 /\ (Len(c) + 2) + 3 = Len(c) + 5
    BY <1>1, <1>6
  <2> QED BY <1>8, <2>3, <2>4 DEF BlockAt
<1> QED BY <1>6, <1>11, <1>12 DEF d

\* What sed has kept of the first n lines.
KeptOf(n) ==
  LET q == Kept[n] IN
  /\ q \in Seq(Text) /\ \A i \in 1 .. Len(q) : q[i] \in Plainly
  /\ \A x \in Mine : Contains(q, x) <=> \E j \in 1 .. n : config[j] = x
  /\ \A x, y \in Mine : Precedes(q, x, y) <=> \E i, j \in 1 .. n : i < j /\ config[i] = x /\ config[j] = y

\* It deletes the block, and nothing of the user's.
LEMMA SedKeeps ==
  ASSUME config \in Seq(Text),
         \A i \in DOMAIN config : IF InBlock(config, i) THEN config[i] \notin Mine
                                                        ELSE config[i] \in Plainly
  PROVE  Removed \in Seq(Text) /\ Plain(Removed) /\ SameLines(config, Removed)
<1> DEFINE N == Len(config)
           S == {n \in 0 .. N : KeptOf(n)}
<1>1. N \in Nat /\ DOMAIN config = 1 .. N
  OBVIOUS
<1>2. 0 \in S
  <2>1. Kept[0] = <<>>
    BY <1>1, KeptStep
  <2>2. KeptOf(0)
    BY <2>1 DEF KeptOf, Contains, Precedes
  <2> QED BY <1>1, <2>2
<1>3. ASSUME NEW n \in 0 .. N - 1, n \in S PROVE n + 1 \in S
  <2>1. n + 1 \in 1 .. N /\ n \in Nat /\ (n + 1) - 1 = n /\ n + 1 # 0 /\ n + 1 \in 0 .. N
    BY <1>1
  <2>2. KeptOf(n)
    BY <1>3
  <2> DEFINE e == config[n + 1]
             q == Kept[n]
  <2>3. Kept[n + 1] = IF InBlock(config, n + 1) THEN q ELSE Append(q, e)
    BY <1>1, <2>1, KeptStep
  <2>4. e \in Text
    BY <2>1
  <2>5. \A j \in 1 .. n + 1 : j \in 1 .. n \/ j = n + 1
    BY <2>1
  <2>6. \A j \in 1 .. n : j \in 1 .. n + 1 /\ j < n + 1
    BY <2>1
  <2>7. IF InBlock(config, n + 1) THEN e \notin Mine ELSE e \in Plainly
    BY <1>1, <2>1
  <2> HIDE DEF e, q
  <2>8. \A x \in Mine : (\E j \in 1 .. n + 1 : config[j] = x)
                          <=> (\E j \in 1 .. n : config[j] = x) \/ e = x
    BY <2>1, <2>5, <2>6 DEF e
  <2>9. ASSUME NEW x \in Mine, NEW y \in Mine
        PROVE  (\E i, j \in 1 .. n + 1 : i < j /\ config[i] = x /\ config[j] = y)
                 <=> \/ \E i, j \in 1 .. n : i < j /\ config[i] = x /\ config[j] = y
                     \/ (\E j \in 1 .. n : config[j] = x) /\ e = y
    <3>1. ASSUME NEW i \in 1 .. n + 1, NEW j \in 1 .. n + 1, i < j PROVE i \in 1 .. n
      BY <2>1, <3>1
    <3>2. n + 1 \in 1 .. n + 1
      BY <2>1
    <3> QED BY <2>5, <2>6, <3>1, <3>2 DEF e
  <2>10. CASE InBlock(config, n + 1)
    <3>1. Kept[n + 1] = Kept[n] /\ e \notin Mine
      BY <2>3, <2>7, <2>10 DEF q
    <3>2. KeptOf(n + 1)
      BY <2>2, <2>8, <2>9, <3>1 DEF KeptOf
    <3> QED BY <2>1, <3>2
  <2>11. CASE ~ InBlock(config, n + 1)
    <3>1. Kept[n + 1] = Append(q, e) /\ e \in Plainly
      BY <2>3, <2>7, <2>11
    <3>2. q \in Seq(Text) /\ \A i \in 1 .. Len(q) : q[i] \in Plainly
      BY <2>2 DEF KeptOf, q
    <3>3. Append(q, e) \in Seq(Text) /\ \A i \in 1 .. Len(Append(q, e)) : Append(q, e)[i] \in Plainly
      <4>1. Append(q, e) \in Seq(Text) /\ Len(Append(q, e)) = Len(q) + 1
            /\ Append(q, e)[Len(q) + 1] = e /\ \A i \in 1 .. Len(q) : Append(q, e)[i] = q[i]
        BY <2>4, <3>2
      <4>2. \A i \in 1 .. Len(q) + 1 : i \in 1 .. Len(q) \/ i = Len(q) + 1
        BY <3>2
      <4> QED BY <3>1, <3>2, <4>1, <4>2
    <3>4. ASSUME NEW x \in Mine
          PROVE  Contains(Append(q, e), x) <=> \E j \in 1 .. n + 1 : config[j] = x
      <4>1. Contains(q, x) <=> \E j \in 1 .. n : config[j] = x
        BY <2>2 DEF KeptOf, q
      <4>2. Contains(Append(q, e), x) <=> Contains(q, x) \/ e = x
        BY <2>4, <3>2, OneLineMore
      <4> QED BY <2>8, <4>1, <4>2
    <3>5. ASSUME NEW x \in Mine, NEW y \in Mine
          PROVE  Precedes(Append(q, e), x, y)
                   <=> \E i, j \in 1 .. n + 1 : i < j /\ config[i] = x /\ config[j] = y
      <4>1. Contains(q, x) <=> \E j \in 1 .. n : config[j] = x
        BY <2>2 DEF KeptOf, q
      <4>2. Precedes(q, x, y) <=> \E i, j \in 1 .. n : i < j /\ config[i] = x /\ config[j] = y
        BY <2>2 DEF KeptOf, q
      <4>3. Precedes(Append(q, e), x, y) <=> Precedes(q, x, y) \/ (Contains(q, x) /\ e = y)
        BY <2>4, <3>2, OneLineMore
      <4> QED BY <2>9, <4>1, <4>2, <4>3
    <3>6. KeptOf(n + 1)
      BY <3>1, <3>3, <3>4, <3>5 DEF KeptOf
    <3> QED BY <2>1, <3>6
  <2> QED BY <2>10, <2>11
<1>4. KeptOf(N)
  <2> HIDE DEF S
  <2>1. \A n \in 0 .. N : n \in S
    BY <1>1, <1>2, <1>3, Upto
  <2>2. N \in S
    BY <1>1, <2>1
  <2> QED BY <2>2 DEF S
<1>5. Removed \in Seq(Text) /\ Plain(Removed)
  BY <1>4 DEF Removed, KeptOf, Plain
<1>6. SameLines(config, Removed)
  <2>1. ASSUME NEW x \in Mine PROVE Contains(Removed, x) <=> Contains(config, x)
    <3>1. Contains(Removed, x) <=> \E j \in 1 .. N : config[j] = x
      BY <1>4 DEF Removed, KeptOf
    <3> QED BY <3>1 DEF Contains
  <2>2. ASSUME NEW x \in Mine, NEW y \in Mine PROVE Precedes(Removed, x, y) <=> Precedes(config, x, y)
    <3>1. Precedes(Removed, x, y) <=> \E i, j \in 1 .. N : i < j /\ config[i] = x /\ config[j] = y
      BY <1>4 DEF Removed, KeptOf
    <3>2. Precedes(config, x, y) <=> \E i, j \in 1 .. N : i < j /\ config[i] = x /\ config[j] = y
      BY <1>1 DEF Precedes
    <3> QED BY <3>1, <3>2
  <2> QED BY <2>1, <2>2 DEF SameLines
<1> QED BY <1>5, <1>6
-----------------------------------------------------------------------------
(* The boot configuration: the steps *)

\* The run has done its boot step, or was to do none of what comes after it.
Settled == "boot" \in todo /\ (step \in {"rt", "build", "service"} \/ (step = "idle" /\ outcome = "installed"))

\* The file is the user's lines and at most one block, complete; the script appends one
\* only where there is none, and it is the board's.
ConfigInv ==
  /\ config \in Seq(Text) /\ board \in Boards /\ edits \in Nat
  /\ Plain(config) \/ \E k \in 1 .. Len(config), b \in Boards : BlockAt(config, k, b)
  /\ step \in {"backup", "append"} => Plain(config)
  /\ step # "idle" => outcome = "stopped"
  /\ Settled => \E k \in 1 .. Len(config) : BlockAt(config, k, board)

\* What the user edits is outside the block.
LEMMA UserEdits ==
  ASSUME ConfigInv, User
  PROVE  ConfigInv' /\ edits' # edits
<1>1. UNCHANGED <<todo, board, step, outcome>> /\ edits' = edits + 1
  BY DEF User, Insert, Delete, options
<1>2. config' \in Seq(Text) /\ (Plain(config) => Plain(config)')
      /\ \A k \in 1 .. Len(config), b \in Boards :
           BlockAt(config, k, b) => \E n \in 1 .. Len(config') : BlockAt(config', n, b)
  <2> USE DEF ConfigInv
  <2>4. config' \in Seq(Text)
    <3>1. ASSUME NEW i \in 1 .. Len(config) + 1, NEW x \in Lines \cup Filters, Insert(i, x)
          PROVE  config' \in Seq(Text)
      BY <3>1, InsertShape DEF Insert, Mine
    <3>2. ASSUME NEW i \in DOMAIN config, Delete(i) PROVE config' \in Seq(Text)
      <4>1. i \in 1 .. Len(config) /\ config[i] \in Mine /\ config' = RemoveAt(config, i)
        BY <3>2 DEF Delete, Mine
      <4> QED BY <4>1, DeleteShape
    <3> QED BY <3>1, <3>2 DEF User
  <2>5. \A k, b : BlockAt(config', k, b) => k \in 1 .. Len(config')
    BY <2>4 DEF BlockAt
  <2>1. ASSUME NEW i \in 1 .. Len(config) + 1, NEW x \in Lines \cup Filters, Insert(i, x)
        PROVE  config' \in Seq(Text) /\ (Plain(config) => Plain(config'))
               /\ \A k \in 1 .. Len(config), b \in Boards :
                    BlockAt(config, k, b) => \E n \in 1 .. Len(config') : BlockAt(config', n, b)
    <3>1. /\ config' = InsertAt(config, i, x) /\ x \in Mine
          /\ i <= Len(config) /\ InBlock(config, i) => config[i] = "begin"
      BY <2>1 DEF Insert, Mine
    <3>2. /\ config' \in Seq(Text) /\ (Plain(config) => Plain(config'))
          /\ \A k \in 1 .. Len(config), b \in Boards :
               BlockAt(config, k, b) /\ i \notin k + 1 .. k + 3
                 => BlockAt(config', IF i <= k THEN k + 1 ELSE k, b)
      BY <3>1, InsertShape
    <3>3. ASSUME NEW k \in 1 .. Len(config), NEW b \in Boards, BlockAt(config, k, b)
          PROVE  i \notin k + 1 .. k + 3
      <4> SUFFICES ASSUME i \in k + 1 .. k + 3 PROVE FALSE
        OBVIOUS
      <4>1. i \in 1 .. Len(config) /\ i \in k .. k + 3 /\ i <= Len(config)
        BY <3>3 DEF BlockAt
      <4>2. InBlock(config, i)
        BY <3>3, <4>1, BlockLines
      <4>3. i \in {k + 1, k + 2, k + 3}
        OBVIOUS
      <4>4. config[i] # "begin"
        BY <3>3, <4>3, Kinds DEF BlockAt
      <4> QED BY <3>1, <4>1, <4>2, <4>4
    <3> QED BY <2>5, <3>2, <3>3
  <2>2. ASSUME NEW i \in DOMAIN config, Delete(i)
        PROVE  config' \in Seq(Text) /\ (Plain(config) => Plain(config'))
               /\ \A k \in 1 .. Len(config), b \in Boards :
                    BlockAt(config, k, b) => \E n \in 1 .. Len(config') : BlockAt(config', n, b)
    <3>1. i \in 1 .. Len(config) /\ config[i] \in Mine /\ config' = RemoveAt(config, i)
      BY <2>2 DEF Delete, Mine
    <3>2. /\ config' \in Seq(Text) /\ (Plain(config) => Plain(config'))
          /\ \A k \in 1 .. Len(config), b \in Boards :
               BlockAt(config, k, b) => BlockAt(config', IF i < k THEN k - 1 ELSE k, b)
      BY <3>1, DeleteShape
    <3> QED BY <2>5, <3>2
  <2>3. Plain(config)' <=> Plain(config')
    BY DEF Plain
  <2> QED BY <2>1, <2>2, <2>3 DEF User
<1>3. edits' \in Nat /\ edits' # edits
  BY <1>1 DEF ConfigInv
<1>4. (Plain(config) \/ \E k \in 1 .. Len(config), b \in Boards : BlockAt(config, k, b))'
  <2>1. CASE Plain(config)
    BY <1>2, <2>1
  <2>2. CASE \E k \in 1 .. Len(config), b \in Boards : BlockAt(config, k, b)
    <3>1. \E n \in 1 .. Len(config'), b \in Boards : BlockAt(config', n, b)
      BY <1>2, <2>2
    <3> QED BY <3>1 DEF BlockAt
  <2> QED BY <2>1, <2>2 DEF ConfigInv
<1>5. Settled' => \E k \in 1 .. Len(config') : BlockAt(config', k, board')
  <2>1. Settled' <=> Settled
    BY <1>1 DEF Settled
  <2>2. board' = board /\ board \in Boards
    BY <1>1 DEF ConfigInv
  <2> QED BY <1>2, <2>1, <2>2 DEF ConfigInv
<1>6. config' \in Seq(Text) /\ board' \in Boards /\ (step' # "idle" => outcome' = "stopped")
      /\ (step' \in {"backup", "append"} => Plain(config)')
  BY <1>1, <1>2 DEF ConfigInv
<1>7. (Settled => \E k \in 1 .. Len(config) : BlockAt(config, k, board))'
  BY <1>5 DEF BlockAt
<1> QED BY <1>3, <1>4, <1>6, <1>7 DEF ConfigInv

\* Steps of the script that leave the file alone leave what is said of it.
LEMMA FileLeft ==
  ASSUME ConfigInv, UNCHANGED <<config, edits>>, board' \in Boards,
         step' \in {"backup", "append"} => step \in {"backup", "append"} \/ Plain(config),
         step' # "idle" => outcome' = "stopped",
         Settled' => Settled /\ board' = board
  PROVE  ConfigInv' /\ SameLines(config, config')
<1>1. SameLines(config, config')
  BY DEF SameLines, Contains, Precedes
<1>2. ConfigInv'
  BY DEF ConfigInv, Plain, BlockAt
<1> QED BY <1>1, <1>2

\* The file without its block.
LEMMA BlockGone ==
  ASSUME ConfigInv
  PROVE  Removed \in Seq(Text) /\ Plain(Removed) /\ SameLines(config, Removed)
<1> USE DEF ConfigInv
<1>1. CASE Plain(config)
  <2>1. \A i \in DOMAIN config : ~ InBlock(config, i) /\ config[i] \in Plainly
    BY <1>1, BlockLines DEF Plain
  <2> QED BY <2>1, SedKeeps
<1>2. ASSUME NEW k \in 1 .. Len(config), NEW b \in Boards, BlockAt(config, k, b)
      PROVE  Removed \in Seq(Text) /\ Plain(Removed) /\ SameLines(config, Removed)
  <2>1. \A i \in DOMAIN config : InBlock(config, i) <=> i \in k .. k + 3
    BY <1>2, BlockLines
  <2>2. config[k] \notin Mine /\ config[k + 1] \notin Mine /\ config[k + 2] \notin Mine
        /\ config[k + 3] \notin Mine
    BY <1>2, Kinds DEF BlockAt
  <2>3. \A i \in k .. k + 3 : i \in {k, k + 1, k + 2, k + 3}
    OBVIOUS
  <2>4. \A i \in DOMAIN config : i \in k .. k + 3 \/ config[i] \in Plainly
    BY <1>2 DEF BlockAt
  <2> QED BY <2>1, <2>2, <2>3, <2>4, SedKeeps
<1> QED BY <1>1, <1>2

\* The steps that change the file.
LEMMA FileWritten ==
  ASSUME ConfigInv, RefreshBlock \/ AppendBlock \/ RemoveBlock
  PROVE  ConfigInv' /\ SameLines(config, config')
<1> USE DEF ConfigInv
<1>1. ASSUME UNCHANGED <<edits, board, outcome>>, outcome = "stopped", Plain(config'),
             config' \in Seq(Text), step' \in {"backup", "unlimit"}
      PROVE  ConfigInv'
  BY <1>1 DEF Settled, Plain
<1>2. CASE RefreshBlock
  <2>1. /\ config' = IF Contains(config, "begin") THEN Removed ELSE config
        /\ step' = "backup" /\ UNCHANGED <<edits, board, outcome>> /\ outcome = "stopped"
    BY <1>2 DEF RefreshBlock, options
  <2>2. CASE Contains(config, "begin")
    BY <1>1, <2>1, <2>2, BlockGone
  <2>3. CASE ~ Contains(config, "begin")
    <3>1. Plain(config)
      BY <2>3 DEF Contains, BlockAt
    <3>2. SameLines(config, config)
      BY DEF SameLines
    <3> QED BY <1>1, <2>1, <2>3, <3>1, <3>2
  <2> QED BY <2>2, <2>3
<1>3. CASE RemoveBlock
  <2>1. config' = Removed /\ step' = "unlimit" /\ UNCHANGED <<edits, board, outcome>>
        /\ outcome = "stopped"
    BY <1>3 DEF RemoveBlock, options
  <2> QED BY <1>1, <2>1, BlockGone
<1>4. CASE AppendBlock
  <2>1. /\ step = "append" /\ StepDone(2) /\ UNCHANGED <<options, edits>>
        /\ config' = WithBlock(config, board)
    BY <1>4, Zenon DEF AppendBlock, WithBlock
  <2>2. /\ config' \in Seq(Text) /\ SameLines(config, config')
        /\ BlockAt(config', Len(config) + 2, board)
    BY <2>1, Appended
  <2>3. Len(config) + 2 \in 1 .. Len(config')
    BY <2>2 DEF BlockAt
  <2>4. step' \in {"idle"} \cup Planned /\ (step' # "idle" => outcome' = "stopped")
    BY <2>1, NextStep, FromIs DEF StepDone
  <2>5. \E k \in 1 .. Len(config') : BlockAt(config', k, board)
    BY <2>2, <2>3
  <2>6. UNCHANGED <<board, edits>> /\ step' \notin {"backup", "append"}
    BY <2>1, <2>4 DEF options, Planned
  <2>7. (\E k \in 1 .. Len(config) : BlockAt(config, k, board))'
    BY <2>5, <2>6 DEF BlockAt
  <2>8. (Plain(config) \/ \E k \in 1 .. Len(config), b \in Boards : BlockAt(config, k, b))'
    BY <2>6, <2>7
  <2> QED BY <2>2, <2>4, <2>6, <2>7, <2>8
<1> QED BY <1>2, <1>3, <1>4

\* Everything else.
LEMMA ConfigSteps ==
  ASSUME ConfigInv, [InstallNext]_installVars
  PROVE  ConfigInv' /\ (edits' = edits => SameLines(config, config'))
<1>1. CASE UNCHANGED installVars
  BY <1>1, FileLeft DEF installVars, system, options, Settled, ConfigInv
<1>2. CASE User
  BY <1>2, UserEdits
<1>3. ASSUME NEW s \in StepSets, NEW b \in Boards, NEW p \in PrefixDirs, Install(s, b, p)
      PROVE  ConfigInv' /\ SameLines(config, config')
  <2>1. /\ UNCHANGED <<config, edits>> /\ board' = b /\ step' = From(1)'
        /\ outcome' = IF step' = "idle" THEN "installed" ELSE "stopped"
    BY <1>3 DEF Install, system
  <2>2. /\ From(1)' \in {"idle"} \cup Planned
        /\ "boot" \in todo' => From(1)' \in {"deps", "boot"}
    BY NextStep, FromIs
  <2> QED BY <2>1, <2>2, FileLeft DEF Planned, Settled
<1>4. ASSUME NEW p \in PrefixDirs, Uninstall(p) PROVE ConfigInv' /\ SameLines(config, config')
  BY <1>4, FileLeft DEF Uninstall, system, Settled, ConfigInv
<1>5. CASE Stop
  BY <1>5, FileLeft DEF Stop, system, options, Settled, ConfigInv
<1>6. CASE RefreshBlock \/ AppendBlock \/ RemoveBlock
  BY <1>6, FileWritten
<1>7. CASE Backup
  BY <1>7, FileLeft DEF Backup, system, options, Settled, ConfigInv
<1>8. ASSUME NEW i \in 1 .. 5, StepDone(i)
      PROVE  /\ step' \in {"idle"} \cup Planned /\ (step' # "idle" => outcome' = outcome)
             /\ i = 1 /\ "boot" \in todo => step' \in {"deps", "boot"}
  BY <1>8, NextStep, FromIs DEF StepDone
<1>9. CASE InstallDeps
  <2>1. UNCHANGED <<config, edits, board, todo>> /\ step = "deps" /\ StepDone(1)
    BY <1>9 DEF InstallDeps, system, options
  <2>2. /\ step' \in {"idle"} \cup Planned /\ (step' # "idle" => outcome' = outcome)
        /\ "boot" \in todo => step' \in {"deps", "boot"}
    BY <1>8, <2>1
  <2> QED BY <2>1, <2>2, FileLeft DEF Planned, Settled, ConfigInv
<1>10. CASE ConfigureRt \/ BuildSoftware \/ InstallService
  <2>1. /\ UNCHANGED <<config, edits, board, todo>> /\ step \in {"rt", "build", "service"}
        /\ \E i \in 1 .. 5 : StepDone(i)
    BY <1>10 DEF ConfigureRt, BuildSoftware, InstallService, options
  <2>2. step' \in {"idle"} \cup Planned /\ (step' # "idle" => outcome' = outcome)
    BY <1>8, <2>1
  <2> QED BY <2>1, <2>2, FileLeft DEF Planned, Settled, ConfigInv
<1>11. CASE RemoveLimits \/ RemoveUnit \/ RemoveFiles
  BY <1>11, FileLeft DEF RemoveLimits, RemoveUnit, RemoveFiles, options, Settled, ConfigInv
<1> QED
  BY <1>1, <1>2, <1>3, <1>4, <1>5, <1>6, <1>7, <1>9, <1>10, <1>11 DEF InstallNext, Command, Script
\* The file starts with a line of the user's.
LEMMA ConfigStarts == InstallInit => ConfigInv
<1> SUFFICES ASSUME InstallInit PROVE ConfigInv
  OBVIOUS
<1>1. PICK c \in Filters : config = <<c>>
  BY DEF InstallInit
<1>2. c \in Plainly /\ c \in Text
  BY Kinds DEF Text
<1>3. config \in Seq(Text) /\ DOMAIN config = {1} /\ config[1] = c
  BY <1>1, <1>2
<1>4. Plain(config)
  BY <1>2, <1>3 DEF Plain
<1> QED BY <1>3, <1>4 DEF InstallInit, ConfigInv, Settled

\* The settings of a block are those of one board, in its markers, and for every board
\* revision: the filter before them is the block's own.
LEMMA BlockSettings ==
  ASSUME ConfigInv, NEW k \in 1 .. Len(config), NEW b \in Boards, BlockAt(config, k, b)
  PROVE  /\ \A i \in DOMAIN config : config[i] \in Boards <=> i = k + 2
         /\ k + 2 \in DOMAIN config /\ config[k + 2] = b
         /\ InBlock(config, k + 2) /\ Scope(k + 2) = "[all]"
<1>1. k + 3 <= Len(config) /\ k \in Nat /\ k >= 1 /\ DOMAIN config = 1 .. Len(config)
  BY DEF BlockAt, ConfigInv
<1>2. config[k] = "begin" /\ config[k + 1] = "[all]" /\ config[k + 2] = b /\ config[k + 3] = "end"
  BY DEF BlockAt
<1>3. \A i \in DOMAIN config : i \in {k, k + 1, k + 2, k + 3} \/ config[i] \in Plainly
  BY <1>1 DEF BlockAt
<1>4. \A i \in DOMAIN config : config[i] \in Boards <=> i = k + 2
  BY <1>2, <1>3, Kinds
<1>5. k + 2 \in DOMAIN config /\ k + 2 \in k .. k + 3
  BY <1>1
<1>6. InBlock(config, k + 2)
  BY <1>5, BlockLines DEF ConfigInv
<1>7. Scope(k + 2) = "[all]"
  <2> DEFINE filters == {j \in 1 .. (k + 2) - 1 : config[j] \in Filters \cup {"[all]"}}
  <2>1. k + 1 \in filters /\ \A j \in filters : k + 1 >= j /\ j \in Int
    BY <1>1, <1>2
  <2>2. Scope(k + 2) = IF filters = {} THEN "[all]" ELSE config[Max(filters)]
    BY DEF Scope
  <2> HIDE DEF filters
  <2>3. Max(filters) \in filters /\ \A j \in filters : Max(filters) >= j
    BY <2>1, Zenon DEF Max
  <2>4. Max(filters) = k + 1
    BY <1>1, <2>1, <2>3
  <2> QED BY <1>2, <2>1, <2>2, <2>4
<1> QED BY <1>2, <1>4, <1>5, <1>6, <1>7

\* At any time there is at most one block's settings, in force for every revision of the
\* board, and after a run that did the boot step they are its board's, for any
\* lines, filters, boards, edits and runs.
THEOREM SettingsAreInForce == InstallSpec => []SettingsInForce
<1>1. ConfigInv => SettingsInForce
  <2> SUFFICES ASSUME ConfigInv PROVE SettingsInForce
    OBVIOUS
  <2>1. CASE Plain(config)
    <3>1. \A i \in DOMAIN config : config[i] \notin Boards
      BY <2>1, Kinds DEF Plain
    <3>2. ~ Settled
      <4>1. \A k \in 1 .. Len(config) : ~ BlockAt(config, k, board)
        <5>1. DOMAIN config = 1 .. Len(config)
          BY DEF ConfigInv
        <5>2. \A k \in 1 .. Len(config) : config[k] # "begin"
          BY <2>1, <5>1, Kinds DEF Plain
        <5> QED BY <5>2 DEF BlockAt
      <4> QED BY <4>1 DEF ConfigInv
    <3> QED BY <3>1, <3>2 DEF SettingsInForce, Settled
  <2>2. ASSUME NEW k \in 1 .. Len(config), NEW b \in Boards, BlockAt(config, k, b)
        PROVE  SettingsInForce
    <3>1. /\ \A i \in DOMAIN config : config[i] \in Boards <=> i = k + 2
          /\ k + 2 \in DOMAIN config /\ config[k + 2] = b
          /\ InBlock(config, k + 2) /\ Scope(k + 2) = "[all]"
      BY <2>2, BlockSettings
    <3>2. ASSUME Settled PROVE config[k + 2] = board
      <4>1. PICK n \in 1 .. Len(config) : BlockAt(config, n, board)
        BY <3>2 DEF ConfigInv
      <4>2. n + 2 \in DOMAIN config /\ config[n + 2] = board /\ board \in Boards
        BY <4>1, BlockSettings DEF ConfigInv
      <4> QED BY <3>1, <4>2
    <3> QED BY <3>1, <3>2 DEF SettingsInForce, Settled
  <2> QED BY <2>1, <2>2 DEF ConfigInv
<1>2. ConfigInv /\ [InstallNext]_installVars => ConfigInv'
  BY ConfigSteps
<1> QED BY <1>1, <1>2, ConfigStarts, PTL DEF InstallSpec

\* Whatever runs stop where, they leave the user's lines as the user left them, in
\* their order, for any lines, edits and runs.
THEOREM UserLinesAreKept == InstallSpec => UserLinesKept
<1>1. ConfigInv /\ [InstallNext]_installVars
        => ConfigInv' /\ [edits' = edits => \A x, y \in Mine :
             /\ Contains(config', x) <=> Contains(config, x)
             /\ Precedes(config', x, y) <=> Precedes(config, x, y)]_installVars
  BY ConfigSteps DEF SameLines
<1> QED BY <1>1, ConfigStarts, PTL DEF InstallSpec, UserLinesKept
=============================================================================
