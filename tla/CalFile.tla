------------------------------- MODULE CalFile ------------------------------
(***************************************************************************)
(* The calibration file: tedium-cal measures and saves one (src/tools/     *)
(* tedium-cal.c:77-183, src/src/tt_cal.c:202-239) while programs load it   *)
(* when they open the device or are told to (tt_cal_load_file, tt_cal.c:   *)
(* 106-172).  The tool may be interrupted between any two steps and run    *)
(* again; a write, the rename and a load may fail.                         *)
(*                                                                         *)
(* A calibration is what it says of each channel: the number of the save   *)
(* that measured it, or 0 for the nominal transfer.  A file is the channel *)
(* lines it holds.  The file system is external: an open file keeps its    *)
(* contents when its name goes to another, and a rename is atomic.         *)
(***************************************************************************)
EXTENDS Naturals, Sequences

CONSTANTS
  CvChannels,   \* TT_MAX_CV
  MaxSaves    \* bound on the runs of the tool

ASSUME CvChannelsAssumption == CvChannels \in Nat \ {0}
ASSUME MaxSavesAssumption == MaxSaves \in Nat

VARIABLES
  file,        \* the contents of each file there has been, in order of creation
  path, tmp,   \* the files these names stand for; 0: none
  tpc,         \* the tool's next step
  saves,        \* how often it was started
  cal,         \* the calibration it saves
  f,           \* the file it writes
  lpc, lf, size,  \* a loading program: its next step, its file, the file's size
  loaded, ret, \* what it has got, and tt_cal_load_file's result
  failed,      \* did the load meet an error of its own (no memory, no permission)?
  current,     \* history: the calibrations path has stood for
  asOf         \* history: how many of them when the load began

tool    == <<tpc, saves, cal, f>>
loader  == <<lpc, lf, size, loaded, ret, failed, asOf>>
calVars == <<file, path, tmp, tool, loader, current>>

Nominal == [c \in 1 .. CvChannels |-> 0]

CalInit ==
  /\ file = <<>> /\ path = 0 /\ tmp = 0
  /\ tpc = "off" /\ saves = 0 /\ cal = Nominal /\ f = 0
  /\ lpc = "off" /\ lf = 0 /\ size = 0 /\ loaded = Nominal /\ ret = 0 /\ failed = FALSE
  /\ current = <<>> /\ asOf = 0

-----------------------------------------------------------------------------
(* tedium-cal *)

\* main up to tt_open: the context is opened without a calibration file.
Start ==
  /\ tpc = "off" /\ saves < MaxSaves
  /\ tpc' = "solve" /\ saves' = saves + 1
  /\ UNCHANGED <<file, path, tmp, cal, f, loader, current>>

\* Two voltages measured and solved for.  A channel that did not respond keeps the
\* nominal transfer, whatever the file said of it before.
Solve ==
  /\ tpc = "solve"
  /\ \E responding \in SUBSET (1 .. CvChannels) :
       cal' = [c \in 1 .. CvChannels |-> IF c \in responding THEN saves ELSE 0]
  /\ tpc' = "create"
  /\ UNCHANGED <<file, path, tmp, saves, f, loader, current>>

\* No answer, equal voltages, no device, no temporary file; or the tool is killed
\* at any step.
Abandon ==
  /\ tpc # "off"
  /\ tpc' = "off"
  /\ UNCHANGED <<file, path, tmp, saves, cal, f, loader, current>>

\* A bug: the file is written in place.
Mutant_Create ==
  /\ tpc = "create"
  /\ file' = Append(file, <<>>) /\ path' = Len(file) + 1 /\ f' = Len(file) + 1
  /\ tpc' = "write"
  /\ UNCHANGED <<tmp, saves, cal, loader, current>>

\* fopen(tmppath, "wb"): a file left there is emptied.
Create ==
  /\ tpc = "create"
  /\ IF tmp = 0
     THEN file' = Append(file, <<>>) /\ tmp' = Len(file) + 1 /\ f' = Len(file) + 1
     ELSE file' = [file EXCEPT ![tmp] = <<>>] /\ f' = tmp /\ UNCHANGED tmp
  /\ tpc' = "write"
  /\ UNCHANGED <<path, saves, cal, loader, current>>

\* The buffered text reaches the file piece by piece.
Write ==
  /\ tpc = "write" /\ Len(file[f]) < CvChannels
  /\ file' = [file EXCEPT ![f] = Append(@, cal[Len(@) + 1])]
  /\ UNCHANGED <<path, tmp, tool, loader, current>>

\* fflush succeeds when everything was written.
Flush ==
  /\ tpc = "write" /\ Len(file[f]) = CvChannels
  /\ tpc' = "rename"
  /\ UNCHANGED <<file, path, tmp, saves, cal, f, loader, current>>

Rename ==
  /\ tpc = "rename"
  /\ path' = tmp /\ tmp' = 0
  /\ current' = Append(current, cal)
  /\ tpc' = "off"
  /\ UNCHANGED <<file, saves, cal, f, loader>>

\* fflush or rename fails: the temporary file is removed.
SaveFails ==
  /\ tpc \in {"write", "rename"}
  /\ tmp' = 0
  /\ tpc' = "off"
  /\ UNCHANGED <<file, path, saves, cal, f, loader, current>>

Tool == Start \/ Solve \/ Abandon \/ Create \/ Write \/ Flush \/ Rename \/ SaveFails

-----------------------------------------------------------------------------
(* tt_cal_load_file, over the nominal calibration *)

LoadOpen ==
  /\ lpc = "off"
  /\ loaded' = Nominal /\ failed' = FALSE /\ asOf' = Len(current)
  /\ lf' = path /\ size' = 0
  /\ IF path = 0 THEN lpc' = "off" /\ ret' = 1
                 ELSE lpc' = "size" /\ ret' = 0
  /\ UNCHANGED <<file, path, tmp, tool, current>>

LoadSize ==
  /\ lpc = "size"
  /\ size' = Len(file[lf])
  /\ lpc' = "read"
  /\ UNCHANGED <<file, path, tmp, tool, lf, loaded, ret, failed, current, asOf>>

\* fread of that many bytes, and the parse: channels that are there replace the
\* nominal ones, and none at all is an error.
LoadRead ==
  /\ lpc = "read"
  /\ LET text == IF Len(file[lf]) >= size THEN SubSeq(file[lf], 1, size) ELSE <<>> IN
     /\ loaded' = [c \in 1 .. CvChannels |-> IF c \in DOMAIN text THEN text[c] ELSE loaded[c]]
     /\ ret' = IF text = <<>> THEN 1 ELSE 0
  /\ lpc' = "off"
  /\ UNCHANGED <<file, path, tmp, tool, lf, size, failed, current, asOf>>

LoadFails ==
  /\ lpc \in {"size", "read"}
  /\ lpc' = "off" /\ ret' = 1 /\ failed' = TRUE
  /\ UNCHANGED <<file, path, tmp, tool, lf, size, loaded, current, asOf>>

Load == LoadOpen \/ LoadSize \/ LoadRead \/ LoadFails

CalNext == Tool \/ Load

CalSpec == CalInit /\ [][CalNext]_calVars

-----------------------------------------------------------------------------
(* Correctness *)

\* A load gives, for every channel, what the save said that was the latest to have
\* succeeded when the load began, and works if there is one: an interrupted or
\* failed save leaves nothing behind (tt_cal.c:215-216), and one that goes on during
\* the load is not seen.
LoadIsLatestSave ==
  (lpc = "off" /\ ~ failed /\ asOf > 0) => ret = 0 /\ loaded = current[asOf]
=============================================================================
