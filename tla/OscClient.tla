------------------------------ MODULE OscClient ------------------------------
(***************************************************************************)
(* The OSC client, src/software/OSC client/main.c: the main loop that      *)
(* reads the ADC and sends what changed, buttons and triggers; the thread  *)
(* that debounces the buttons (handle_GPIO); and the interrupt threads of  *)
(* wiringPi, which set a flag at each falling edge.                        *)
(*                                                                         *)
(* One turn of the main loop is a sequence of steps, one per input.  A     *)
(* step that loads a flag or state and stores one later is two of them, as *)
(* nothing but _OSC_state's stores is under the lock.  A message counts    *)
(* once it was handed to sendto: UDP may lose it, and only the bundle's    *)
(* sendto is checked.                                                      *)
(***************************************************************************)
EXTENDS Integers, Sequences

CONSTANTS
  NumButtons, NumTriggers,   \* 3 and 4
  AdcChannels,           \* ADC_NUM_CHANNELS
  Readings,           \* the raw values the ADC may give
  LongPress,          \* time_out, in polls (125)
  OffDelay,           \* TIMEOUT_T, in passes (10)
  PassesPerPoll,      \* passes the main loop makes at least in the poll's sleep
  MaxHold             \* bound on the polls a button is held down

ASSUME AdcChannelsAssumption  == AdcChannels \in Nat /\ AdcChannels >= 1
ASSUME ReadingsAssumption  == Readings \subseteq 0 .. 4095
ASSUME LongPressAssumption == LongPress \in Nat /\ MaxHold \in Nat /\ MaxHold < 2^16
ASSUME OffDelayAssumption  == OffDelay \in Nat /\ PassesPerPoll \in Nat
ASSUME InputsAssumption    == NumButtons \in Nat \ {0} /\ NumTriggers \in Nat \ {0}

SCALE == 4000   \* main.c's

Buttons  == {"button"} \X (1 .. NumButtons)
Triggers == {"trigger"} \X (1 .. NumTriggers)
Inputs   == Buttons \cup Triggers

VARIABLES
  flag,        \* TR1_flag .. B3_flag
  down,        \* the buttons' pins: held down
  thread,      \* handle_GPIO: "init" until init_buttons is done, then "poll"
  state, hold, \* _state and _cnt of each button
  osc,         \* _OSC_state of each button
  pc, at,      \* the main loop: which step, for which button or trigger
  seen,        \* the _OSC_state the switch acts on
  off, wait,   \* TR1_OFF .., _wait_TR1 ..
  adc, cnt, send,  \* the readings, _cnt and _send
  passes,      \* passes since the last poll, up to PassesPerPoll
  bundle,      \* what the last bundle said
  last,        \* the last message about each input
  owed,        \* history: an edge of the trigger that no message followed yet
  given          \* history: what the converter gave for each channel

gpio   == <<thread, state, hold>>
sender == <<pc, at, seen, off, wait, adc, cnt, send, bundle, last, given>>
oscVars == <<flag, down, gpio, osc, sender, passes, owed>>

None == <<"none", 0>>
Running == pc # "dead"

OscInit ==
  /\ flag = [i \in Inputs |-> FALSE] /\ down = [b \in Buttons |-> FALSE]
  /\ thread = "init"
  /\ state = [b \in Buttons |-> "OK"] /\ hold = [b \in Buttons |-> 0]
  /\ osc = [b \in Buttons |-> "OK"]
  /\ pc = "adc" /\ at = 1 /\ seen = "OK"
  /\ off = [t \in Triggers |-> FALSE] /\ wait = [t \in Triggers |-> 0]
  /\ adc = [c \in 1 .. AdcChannels |-> 0] /\ cnt = 1 /\ send = 0
  /\ given = [c \in 1 .. AdcChannels |-> SCALE]
  /\ passes = 0 /\ bundle = adc
  /\ last = [i \in Inputs |-> None]
  /\ owed = [t \in Triggers |-> FALSE]

-----------------------------------------------------------------------------
(* The inputs and their interrupts *)

TriggerEdge(t) ==
  /\ flag' = [flag EXCEPT ![t] = TRUE]
  /\ owed' = [owed EXCEPT ![t] = TRUE]
  /\ UNCHANGED <<down, gpio, osc, sender, passes>>

ButtonDown(b) ==
  /\ ~ down[b]
  /\ down' = [down EXCEPT ![b] = TRUE]
  /\ flag' = [flag EXCEPT ![b] = TRUE]
  /\ UNCHANGED <<gpio, osc, sender, passes, owed>>

\* A contact that bounces makes a falling edge on its way up too.
ButtonUp(b) ==
  /\ down[b]
  /\ down' = [down EXCEPT ![b] = FALSE]
  /\ \E bounces \in BOOLEAN : flag' = [flag EXCEPT ![b] = @ \/ bounces]
  /\ UNCHANGED <<gpio, osc, sender, passes, owed>>

-----------------------------------------------------------------------------
(* handle_GPIO *)

InitButtons ==
  /\ thread = "init"
  /\ thread' = "poll"
  /\ passes' = 0
  /\ UNCHANGED <<flag, down, state, hold, osc, sender, owed>>

\* The press a poll takes up: a flag is left alone until its button is OK.
Taken(b) == flag[b] /\ state[b] = "OK"
Pressed(b) == Taken(b) \/ state[b] = "PRESSED"
Done(b) == state[b] \in {"SHORT", "LONG"}

\* A bug: the report does not reset the button's state.
Mutant_Poll ==
  /\ thread = "poll" /\ passes >= PassesPerPoll
  /\ flag' = [i \in Inputs |-> flag[i] /\ ~ (i \in Buttons /\ Taken(i))]
  /\ state' = [b \in Buttons |->
       IF Pressed(b) THEN IF down[b] THEN "PRESSED"
                          ELSE IF hold[b] < LongPress THEN "SHORT" ELSE "LONG"
       ELSE state[b]]
  /\ hold' = [b \in Buttons |-> IF Pressed(b) /\ down[b] /\ hold[b] < MaxHold THEN hold[b] + 1 ELSE 0]
  /\ osc' = [b \in Buttons |-> IF Done(b) THEN state[b] ELSE osc[b]]
  /\ passes' = 0
  /\ UNCHANGED <<down, thread, sender, owed>>

\* One turn of its loop: usleep, the flags, then check_buttons for each.
Poll ==
  /\ thread = "poll" /\ passes >= PassesPerPoll
  /\ \A b \in Buttons : Pressed(b) /\ down[b] => hold[b] < MaxHold
  /\ flag' = [i \in Inputs |-> flag[i] /\ ~ (i \in Buttons /\ Taken(i))]
  /\ state' = [b \in Buttons |->
       IF Pressed(b) THEN IF down[b] THEN "PRESSED"
                          ELSE IF hold[b] < LongPress THEN "SHORT" ELSE "LONG"
       ELSE "OK"]
  /\ hold' = [b \in Buttons |->
       IF Pressed(b) THEN IF down[b] THEN hold[b] + 1 ELSE hold[b] ELSE 0]
  /\ osc' = [b \in Buttons |-> IF Done(b) THEN state[b] ELSE osc[b]]
  /\ passes' = 0
  /\ UNCHANGED <<down, thread, sender, owed>>

-----------------------------------------------------------------------------
(* The main loop: the ADC, each button, each trigger, each off message *)

button  == <<"button", at>>
trigger == <<"trigger", at>>

\* The loop goes on with the next button or trigger, or with its next phase.
Proceed(num, again, phase) ==
  IF at < num THEN pc' = again /\ at' = at + 1 ELSE pc' = phase /\ at' = 1

\* A bug: the inversion is not limited.
Mutant_Converted(x) == (SCALE - x) % 2^16

\* readADC's inversion in uint16, limited.
Converted(x) ==
  LET result == (SCALE - x) % 2^16 IN IF result > 4095 THEN 0 ELSE result

Moved(x, y) == x - y > 2 \/ y - x > 2

\* The deadband: a reading that did not move leaves the one before.
ReadAdc ==
  /\ pc = "adc"
  /\ \E x \in Readings :
       /\ given' = [given EXCEPT ![cnt] = x]
       /\ IF Moved(Converted(x), adc[cnt])
          THEN adc' = [adc EXCEPT ![cnt] = Converted(x)] /\ send' = send + 1
          ELSE UNCHANGED <<adc, send>>
  /\ pc' = "bundle"
  /\ UNCHANGED <<flag, down, gpio, osc, at, seen, off, wait, cnt, bundle, last, passes, owed>>

\* After the last channel, if one of them moved.
SendBundle ==
  /\ pc = "bundle"
  /\ IF cnt = AdcChannels /\ send > 0 THEN bundle' = adc /\ send' = 0
                                   ELSE UNCHANGED <<bundle, send>>
  /\ cnt' = IF cnt >= AdcChannels THEN 1 ELSE cnt + 1
  /\ pc' = "switch"
  /\ UNCHANGED <<flag, down, gpio, osc, at, seen, off, wait, adc, last, given, passes, owed>>

\* sendto fails: die.
BundleFails ==
  /\ pc = "bundle" /\ cnt = AdcChannels /\ send > 0
  /\ pc' = "dead"
  /\ UNCHANGED <<flag, down, gpio, osc, at, seen, off, wait, adc, cnt, send, bundle, last, given, passes, owed>>

\* The switch on a button's _OSC_state, which goes through a pointer that the
\* other thread's init_buttons sets.
Switch ==
  /\ pc = "switch" /\ thread = "poll"
  /\ seen' = osc[button]
  /\ CASE osc[button] \in {"SHORT", "LONG"} ->
            /\ last' = [last EXCEPT ![button] = <<osc[button], 1>>]
            /\ pc' = "store" /\ UNCHANGED at
       [] osc[button] \in {"SHORT_OFF", "LONG_OFF"} ->
            /\ last' = [last EXCEPT ![button] = <<IF osc[button] = "SHORT_OFF" THEN "SHORT" ELSE "LONG", 0>>]
            /\ pc' = "store" /\ UNCHANGED at
       [] OTHER -> UNCHANGED last /\ Proceed(NumButtons, "switch", "trigger")
  /\ UNCHANGED <<flag, down, gpio, osc, off, wait, adc, cnt, send, bundle, given, passes, owed>>

\* It is not there yet: the program crashes.
SwitchCrashes ==
  /\ pc = "switch" /\ thread = "init"
  /\ pc' = "dead"
  /\ UNCHANGED <<flag, down, gpio, osc, at, seen, off, wait, adc, cnt, send, bundle, last, given, passes, owed>>

\* A bug: a long press is ended by the off message of a short one.
Mutant_WrongOff == CASE seen = "SHORT" -> "SHORT_OFF" [] seen = "LONG" -> "SHORT_OFF" [] OTHER -> "OK"

\* A bug: no off message.
Mutant_NoOff == "OK"

AfterSeen == CASE seen = "SHORT" -> "SHORT_OFF" [] seen = "LONG" -> "LONG_OFF" [] OTHER -> "OK"

\* Under the lock.
Store ==
  /\ pc = "store"
  /\ osc' = [osc EXCEPT ![button] = AfterSeen]
  /\ Proceed(NumButtons, "switch", "trigger")
  /\ UNCHANGED <<flag, down, gpio, seen, off, wait, adc, cnt, send, bundle, last, given, passes, owed>>

\* A bug: the flag is cleared whether or not its edge can be sent now.
Mutant_TestTrigger ==
  /\ pc = "trigger"
  /\ flag' = [flag EXCEPT ![trigger] = FALSE]
  /\ IF flag[trigger] /\ ~ off[trigger] THEN pc' = "on" /\ UNCHANGED at
     ELSE Proceed(NumTriggers, "trigger", "off")
  /\ UNCHANGED <<down, gpio, osc, seen, off, wait, adc, cnt, send, bundle, last, given, passes, owed>>

\* A trigger's flag is cleared before its message is sent.
TestTrigger ==
  /\ pc = "trigger"
  /\ IF flag[trigger] /\ ~ off[trigger]
     THEN flag' = [flag EXCEPT ![trigger] = FALSE] /\ pc' = "on" /\ UNCHANGED at
     ELSE UNCHANGED flag /\ Proceed(NumTriggers, "trigger", "off")
  /\ UNCHANGED <<down, gpio, osc, seen, off, wait, adc, cnt, send, bundle, last, given, passes, owed>>

\* sendto's result, a length or -1, is true either way.
SendOn ==
  /\ pc = "on"
  /\ last' = [last EXCEPT ![trigger] = <<"trigger", 1>>]
  /\ owed' = [owed EXCEPT ![trigger] = FALSE]
  /\ off' = [off EXCEPT ![trigger] = TRUE] /\ wait' = [wait EXCEPT ![trigger] = 0]
  /\ Proceed(NumTriggers, "trigger", "off")
  /\ UNCHANGED <<flag, down, gpio, osc, seen, adc, cnt, send, bundle, given, passes>>

\* The pass ends with the off messages that are due.
SendOff ==
  /\ pc = "off"
  /\ IF off[trigger] /\ wait[trigger] >= OffDelay
     THEN /\ off' = [off EXCEPT ![trigger] = FALSE] /\ wait' = [wait EXCEPT ![trigger] = 0]
          /\ last' = [last EXCEPT ![trigger] = <<"trigger", 0>>]
     ELSE /\ wait' = IF off[trigger] THEN [wait EXCEPT ![trigger] = @ + 1] ELSE wait
          /\ UNCHANGED <<off, last>>
  /\ Proceed(NumTriggers, "off", "adc")
  /\ passes' = IF at = NumTriggers /\ passes < PassesPerPoll THEN passes + 1 ELSE passes
  /\ UNCHANGED <<flag, down, gpio, osc, seen, adc, cnt, send, bundle, given, owed>>

-----------------------------------------------------------------------------
World ==
  \/ \E t \in Triggers : TriggerEdge(t)
  \/ \E b \in Buttons : ButtonDown(b) \/ ButtonUp(b)

GpioThread == InitButtons \/ Poll

Main ==
  \/ ReadAdc \/ SendBundle \/ BundleFails \/ Switch \/ SwitchCrashes \/ Store
  \/ TestTrigger \/ SendOn \/ SendOff

\* A dead process has no threads.
OscNext == Running /\ (World \/ GpioThread \/ Main)

\* Both threads sleep and run on; nobody has to touch an input.
OscSpec == OscInit /\ [][OscNext]_oscVars /\ WF_oscVars(Running /\ GpioThread) /\ WF_oscVars(Running /\ Main)

-----------------------------------------------------------------------------
(* Correctness *)

\* An edge of a trigger that no message followed yet is not forgotten, whenever
\* in the loop it came: its flag is up, or the message is about to be sent.
EdgesRemembered ==
  \A t \in Triggers : owed[t] => flag[t] \/ (pc = "on" /\ trigger = t)

\* The receiver sees notes: the off message of an input follows its own on
\* message, of the same length of press, and a trigger's on follows an off.
NotesPaired ==
  [][\A i \in Inputs : last'[i] # last[i] =>
       /\ last'[i][2] = 0 => last[i] = <<last'[i][1], 1>>
       /\ i \in Triggers /\ last'[i][2] = 1 => last[i] \in {None, <<"trigger", 0>>}]_oscVars

\* No press is lost between the threads: a report finds its button's state idle
\* and the main loop not about to store it.
ReportsNotOverwritten ==
  [][\A b \in Buttons : (Poll /\ osc'[b] # osc[b]) =>
       osc[b] = "OK" /\ ~ (pc = "store" /\ button = b)]_oscVars

\* When a turn of the channels ends the receiver has been told what each of them
\* reads, inverted and in range, to within the deadband: of the raw values above
\* SCALE, whose difference wraps, as of the others, and though only the last
\* channel of a turn sends what any of them changed (main.c:97-124, 304-329).
BundleTellsReadings ==
  pc = "switch" /\ cnt = 1
    => \A c \in 1 .. AdcChannels :
         ~ Moved(IF given[c] > SCALE THEN 0 ELSE SCALE - given[c], bundle[c])

\* Every note that is begun ends, unless the process dies.
NotesEnd ==
  \A i \in Inputs : (last[i][2] = 1)
                       ~> (last[i][2] = 0) \/ pc = "dead"
=============================================================================
