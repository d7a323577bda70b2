----------------------------- MODULE LegacyAdc ------------------------------
(***************************************************************************)
(* The Pd external terminal_tedium_adc, which the library replaces and     *)
(* whose patches it must read alike (src/software/externals/               *)
(* terminal_tedium_adc.c).                                                 *)
(*                                                                         *)
(* Pd has one thread, but an outlet calls what the patch has connected to  *)
(* it before it returns, and the patch may call the object again: from the *)
(* status message of an open or a close and from the readings of a bang.   *)
(* calls is the stack of methods that wait for an outlet.  A method runs   *)
(* up to its outlet in one step, and on from there when the outlet         *)
(* returns.  The outlets of a bang are one: after the first of them it     *)
(* touches the object no more.                                             *)
(***************************************************************************)
EXTENDS Integers, Sequences, FiniteSetsExt

CONSTANTS
  Descriptors,  \* the descriptors the process may have open
  Raws,         \* what the converter gives
  Smooths, Deadbands,   \* arguments of smooth and deadband
  MaxDepth,     \* bound on the depth of calls
  MaxCareless   \* bound on the careless opens

ASSUME DescriptorAssumption == Descriptors \subseteq Nat
ASSUME RawAssumption == Raws \subseteq 0 .. 4088
ASSUME ArgumentAssumption == Smooths \subseteq Int /\ Deadbands \subseteq Int

VARIABLES
  alive,        \* the object exists
  fds,          \* the descriptors of the device that are open in the process
  spifd, version, smooth, smooth_shift, deadband, a2d,   \* the object's fields
  calls,        \* the methods waiting for an outlet, the outermost first;
                \* one that has nothing left to do is a "message"
  status,       \* what the patch has last heard from outlet 9, -1 at first
  report,       \* the bang just made, with the samples it was made from
  careless      \* history: the opens of a device that was open, or out of a close

settings == <<smooth, smooth_shift, deadband>>
object   == <<alive, spifd, version, settings, a2d>>
adcVars  == <<object, fds, calls, status, report, careless>>

Channels == 0 .. 7
Scale    == 4001
NoReport == [ok |-> FALSE]

FreshObject(v) ==
  /\ alive' = TRUE /\ spifd' = -1 /\ version' = v
  /\ smooth' = 1 /\ smooth_shift' = 0 /\ deadband' = 0
  /\ a2d' = [c \in Channels |-> 0]

\* The class passes a symbol where terminal_tedium_adc_new takes a float: any
\* version, until the first open.
AdcInit ==
  /\ alive = TRUE /\ fds = {} /\ spifd = -1 /\ version \in BOOLEAN
  /\ smooth = 1 /\ smooth_shift = 0 /\ deadband = 0
  /\ a2d = [c \in Channels |-> 0]
  /\ calls = <<>> /\ status = -1 /\ report = NoReport
  /\ careless = 0

\* Pd or the patch may call a method: none runs, or the innermost waits.
Callable == alive /\ Len(calls) < MaxDepth

Wait(method) == calls' = Append(calls, method)

-----------------------------------------------------------------------------
(* open and close *)

InClose == \E i \in DOMAIN calls : calls[i] = "close"

\* The part of close up to its message: the descriptor is closed, and named still.
\* close fails on a descriptor that is not open.
CloseDevice(fd) == fds' = fds \ {fd}

CountCareless ==
  IF spifd >= 0 \/ InClose THEN careless < MaxCareless /\ careless' = careless + 1
                           ELSE UNCHANGED careless

\* An open that finds a device, a free descriptor and a working ioctl.
OpenWorks(v) ==
  /\ Callable /\ Descriptors \ fds # {}
  /\ version' = v
  /\ spifd' = Min(Descriptors \ fds)
  /\ fds' = fds \cup {spifd'}
  /\ Wait("message") /\ status' = 1
  /\ CountCareless
  /\ report' = NoReport
  /\ UNCHANGED <<alive, settings, a2d>>

\* No device, or no descriptor left for it.
OpenFails(v) ==
  /\ Callable
  /\ version' = v
  /\ spifd' = -1
  /\ Wait("message") /\ status' = 0
  /\ CountCareless
  /\ report' = NoReport
  /\ UNCHANGED <<alive, settings, a2d, fds>>

\* One of the six ioctls fails: open calls close, which sends its own message and
\* comes back for open's.
OpenUnusable(v) ==
  /\ alive /\ Len(calls) + 1 < MaxDepth /\ Descriptors \ fds # {}
  /\ version' = v
  /\ spifd' = Min(Descriptors \ fds)
  /\ calls' = calls \o <<"unusable", "close">> /\ status' = 0
  /\ CountCareless
  /\ report' = NoReport
  /\ UNCHANGED <<alive, settings, a2d, fds>>

Close ==
  /\ Callable /\ spifd # -1
  /\ IF spifd \in fds
     THEN /\ CloseDevice(spifd) /\ Wait("close") /\ status' = 0
          /\ UNCHANGED spifd
     ELSE spifd' = -1 /\ UNCHANGED <<fds, calls, status>>
  /\ report' = NoReport
  /\ UNCHANGED <<alive, version, settings, a2d, careless>>

Below == SubSeq(calls, 1, Len(calls) - 1)

\* A bug: the open that called it sends the result of the close as its own.
Mutant_Resume(opened) ==
  IF calls[opened] = "unusable"
  THEN calls' = [Below EXCEPT ![opened] = "message"] /\ status' = 1
  ELSE calls' = Below /\ UNCHANGED status

\* An open whose ioctl failed goes on to its own message.
Resume(opened) ==
  IF calls[opened] = "unusable"
  THEN calls' = [Below EXCEPT ![opened] = "message"] /\ status' = 0
  ELSE calls' = Below /\ UNCHANGED status

CloseReturns ==
  /\ calls # <<>> /\ calls[Len(calls)] = "close"
  /\ spifd' = -1
  /\ IF Len(calls) > 1 THEN Resume(Len(calls) - 1) ELSE calls' = <<>> /\ UNCHANGED status
  /\ report' = NoReport
  /\ UNCHANGED <<alive, version, settings, a2d, fds, careless>>

\* Nothing is left to do after the messages of open and of bang.
Returns ==
  /\ calls # <<>> /\ calls[Len(calls)] = "message"
  /\ calls' = Below
  /\ report' = NoReport
  /\ UNCHANGED <<object, fds, status, careless>>

\* A bug, and once the code (218-220): descriptor 0 for any descriptor.
Mutant_Free ==
  /\ alive /\ calls = <<>>
  /\ alive' = FALSE
  /\ IF spifd = 0 THEN CloseDevice(spifd) ELSE UNCHANGED fds
  /\ spifd' = -1 /\ report' = NoReport
  /\ UNCHANGED <<version, settings, a2d, calls, status, careless>>

\* The connections are gone by then: nobody hears the status.
Free ==
  /\ alive /\ calls = <<>>
  /\ alive' = FALSE
  /\ IF spifd >= 0 THEN CloseDevice(spifd) ELSE UNCHANGED fds
  /\ spifd' = -1 /\ report' = NoReport
  /\ UNCHANGED <<version, settings, a2d, calls, status, careless>>

New ==
  /\ ~ alive
  /\ \E v \in BOOLEAN : FreshObject(v)
  /\ status' = -1
  /\ UNCHANGED <<fds, calls, report, careless>>

-----------------------------------------------------------------------------
(* smooth, deadband and bang *)

\* A float below 0 has no value as an unsigned: 0 on Arm, large elsewhere.
AsUnsigned(s) == IF s < 0 THEN {0, 1073741824} ELSE {s}

\* A bug: eight are summed and divided by four.
Mutant_ShiftOf(s) ==
  CASE s < 2 -> 0 [] s >= 2 /\ s < 4 -> 1 [] s >= 4 /\ s < 16 -> 2 [] OTHER -> 4

\* The powers of two up to 16 by their exponents.
ShiftOf(s) ==
  CASE s < 2 -> 0 [] s >= 2 /\ s < 4 -> 1 [] s >= 4 /\ s < 8 -> 2
    [] s >= 8 /\ s < 16 -> 3 [] OTHER -> 4

CountOf(s) ==
  CASE s < 2 -> 1 [] s >= 2 /\ s < 4 -> 2 [] s >= 4 /\ s < 8 -> 4
    [] s >= 8 /\ s < 16 -> 8 [] OTHER -> 16

Smooth(arg) ==
  /\ Callable
  /\ \E s \in AsUnsigned(arg) : smooth' = CountOf(s) /\ smooth_shift' = ShiftOf(s)
  /\ report' = NoReport
  /\ UNCHANGED <<alive, spifd, version, deadband, a2d, fds, calls, status, careless>>

Deadband(d) ==
  /\ Callable
  /\ deadband' = IF d < 0 THEN 0 ELSE IF d > 5 THEN 5 ELSE d
  /\ report' = NoReport
  /\ UNCHANGED <<alive, spifd, version, smooth, smooth_shift, a2d, fds, calls, status, careless>>

NumChannels == IF version THEN 8 ELSE 6
AtLeast0(v) == IF v < 0 THEN 0 ELSE v
Distance(a, b) == IF a > b THEN a - b ELSE b - a

\* The wiring: channel c of the converter reads c above what the others see.
Sum(lo, hi, k, c) == k * (hi + c) + (smooth - k) * (lo + c)

\* sum >> smooth_shift
Shifted(sum) == sum \div <<1, 2, 4, 8, 16>>[smooth_shift + 1]

\* The converter's value upside down, or the last one if it is near enough.
Value(sum, c) ==
  LET tmp == Scale - Shifted(sum) IN
  IF deadband > 0 /\ Distance(a2d[c], tmp) <= deadband THEN a2d[c] ELSE AtLeast0(tmp)

\* A bug: the panel the board table had before it was turned round.
Mutant_OutletChannel == IF version THEN <<5, 2, 7, 6, 3, 0, 1, 4>> ELSE <<0, 1, 2, 3, 4, 5>>

\* The channel that goes to each outlet.
OutletChannel == IF version THEN <<5, 6, 1, 4, 7, 0, 3, 2>> ELSE <<0, 1, 2, 3, 4, 5>>

\* The library's table of the same thing, for the same board.
PanelFromAdc == IF version THEN <<5, 6, 1, 4, 7, 0, 3, 2>> ELSE <<0, 1, 2, 3, 4, 5, 6, 7>>

\* smooth scans of every channel, k of them at hi and the others at lo.  A failed
\* transfer leaves the request in the buffer, which reads as a sample of 0.
Bang(lo, hi, k, works) ==
  /\ Callable /\ spifd # -1 /\ k <= smooth
  /\ works => spifd \in fds
  /\ LET value == [c \in 0 .. NumChannels - 1 |->
                     Value(IF works THEN Sum(lo, hi, k, c) ELSE 0, c)] IN
     /\ a2d' = IF deadband > 0
               THEN [c \in Channels |-> IF c < NumChannels THEN value[c] ELSE a2d[c]]
               ELSE a2d
     /\ report' = [ok |-> works, lo |-> lo, hi |-> hi, k |-> k,
                   told |-> [o \in DOMAIN OutletChannel |-> value[OutletChannel[o]]]]
  /\ Wait("message")
  /\ UNCHANGED <<alive, spifd, version, settings, fds, status, careless>>

AdcNext ==
  \/ \E v \in BOOLEAN : OpenWorks(v) \/ OpenFails(v) \/ OpenUnusable(v)
  \/ Close \/ CloseReturns \/ Returns \/ Free \/ New
  \/ (\E s \in Smooths : Smooth(s)) \/ (\E d \in Deadbands : Deadband(d))
  \/ \E lo, hi \in Raws, k \in {0, 1, smooth}, works \in BOOLEAN : Bang(lo, hi, k, works)

AdcSpec == AdcInit /\ [][AdcNext]_adcVars

-----------------------------------------------------------------------------
(* Correctness *)

\* The object reads and closes only a descriptor that it holds, except out of the
\* message a close sends before it forgets its own; and no descriptor is lost
\* over ioctls that fail, deleted objects and closes that fail, but by an open of
\* a device that is open or is just being closed, one for each (218-220 say what
\* becomes of an instrument that loses them).
DescriptorsKept ==
  /\ spifd >= 0 => spifd \in fds \/ InClose
  /\ Cardinality(fds \ {spifd}) <= careless

\* Between two calls the patch knows from the last status whether the device is
\* open, over failed opens and calls out of the messages themselves, as long as
\* it has not answered a close by an open.
StatusTruthful ==
  (alive /\ calls = <<>> /\ status >= 0) =>
    /\ spifd >= 0 => status = 1
    /\ (status = 1 /\ careless = 0) => spifd >= 0

\* What each outlet tells is, within the dead band, the mean of the samples of the
\* jack at that place of the panel, upside down and not below 0, whatever order
\* smooth, deadband and open came in, for both boards; the library's table of
\* the panel (tt_board.c:21-22, "the two legacy sources agree") has the same places.
PanelReadings ==
  report.ok =>
    \A o \in DOMAIN OutletChannel :
      LET mean == Sum(report.lo, report.hi, report.k, PanelFromAdc[o]) \div smooth IN
      Distance(report.told[o], AtLeast0(Scale - mean)) <= deadband
=============================================================================
