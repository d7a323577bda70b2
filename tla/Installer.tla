------------------------------ MODULE Installer -----------------------------
(***************************************************************************)
(* install.sh: what a run of it does to the boot configuration and to the  *)
(* system, step by step, over several runs with other options, a user who  *)
(* edits config.txt between any two steps, and runs that stop half-way (set *)
(* -e, an interrupt, a failed test).                                       *)
(*                                                                         *)
(* config.txt is a sequence of lines.  A user's line is a member of Lines  *)
(* or a conditional filter; "begin" and "end" are the markers, and a       *)
(* board's settings are one line, the board.  Dry runs and --check change  *)
(* nothing and are left out.                                               *)
(***************************************************************************)
EXTENDS Naturals, SequencesExt

CONSTANTS
  Lines,      \* the user's settings
  Filters,    \* the user's conditional filters, such as [cm5]
  Boards,     \* --board
  PrefixDirs, \* --prefix
  StepSets,   \* the choices of --no-deps .. --no-service made
  MaxRuns,    \* bound on the runs
  MaxEdits    \* bound on the user's edits

ASSUME BoundsAssumption == MaxRuns \in Nat /\ MaxEdits \in Nat
ASSUME StepsAssumption ==
  StepSets \subseteq SUBSET {"deps", "boot", "rt", "build", "service"}

\* The lines of the user, of the block and of the boards are different ones.
ASSUME NamesAssumption ==
  /\ {"begin", "end", "[all]", ""} \cap (Lines \cup Filters \cup Boards) = {}
  /\ Boards \cap (Lines \cup Filters) = {}

VARIABLES
  config,     \* $BOOT_CONFIG
  others,     \* limits file, libraries, Pd external: what else is installed
  bin,        \* the prefixes with a tedium-jack
  unit,       \* the prefix the systemd unit runs it from, or "none"
  step,         \* the script's next step; "idle" between runs
  todo,       \* DO_DEPS .. DO_SERVICE: the steps of this run
  board, prefix, haveJack,   \* BOARD, PREFIX, HAVE_JACK_BIN
  outcome,    \* how the latest run ended
  runs, edits \* runs and edits so far

system  == <<config, others, bin, unit>>
options == <<todo, board, prefix>>
installVars == <<system, options, step, haveJack, outcome, runs, edits>>

Steps == <<"deps", "boot", "rt", "build", "service">>

\* The next step asked for, from the i-th on.
From(i) == LET left == {j \in i .. Len(Steps) : Steps[j] \in todo} IN
           IF left = {} THEN "idle" ELSE Steps[Min(left)]

\* The step i of main is done.
StepDone(i) ==
  /\ step' = From(i + 1)
  /\ outcome' = IF step' = "idle" THEN "installed" ELSE outcome

InstallInit ==
  /\ \E f \in Filters : config = <<f>>
  /\ others = {} /\ bin = {} /\ unit = "none"
  /\ step = "idle" /\ todo = {} /\ board \in Boards /\ prefix \in PrefixDirs
  /\ haveJack = FALSE /\ outcome = "none" /\ runs = 0 /\ edits = 0

-----------------------------------------------------------------------------
(* The user *)

InBlock(c, i) == \E b \in 1 .. i : c[b] = "begin" /\ \A j \in b .. i - 1 : c[j] # "end"

\* A line is put in before the i-th one, or taken out: none of the block's.
Insert(i, x) ==
  /\ edits < MaxEdits /\ edits' = edits + 1
  /\ i <= Len(config) /\ InBlock(config, i) => config[i] = "begin"
  /\ \A j \in DOMAIN config : config[j] # x
  /\ config' = InsertAt(config, i, x)
  /\ UNCHANGED <<others, bin, unit, options, step, haveJack, outcome, runs>>

Delete(i) ==
  /\ edits < MaxEdits /\ edits' = edits + 1
  /\ config[i] \in Lines \cup Filters
  /\ config' = RemoveAt(config, i)
  /\ UNCHANGED <<others, bin, unit, options, step, haveJack, outcome, runs>>

-----------------------------------------------------------------------------
(* main *)

Install(steps, b, p) ==
  /\ step = "idle" /\ runs < MaxRuns
  /\ runs' = runs + 1
  /\ todo' = steps /\ board' = b /\ prefix' = p /\ haveJack' = FALSE
  /\ step' = From(1)' /\ outcome' = IF step' = "idle" THEN "installed" ELSE "stopped"
  /\ UNCHANGED <<system, edits>>

Uninstall(p) ==
  /\ step = "idle" /\ runs < MaxRuns
  /\ runs' = runs + 1
  /\ prefix' = p /\ step' = "unboot" /\ outcome' = "stopped" /\ todo' = {}
  /\ UNCHANGED <<system, board, haveJack, edits>>

\* A step fails or is interrupted.
Stop ==
  /\ step # "idle"
  /\ step' = "idle"
  /\ UNCHANGED <<system, options, haveJack, outcome, runs, edits>>

\* apt-get: what fails to install is only reported.
InstallDeps ==
  /\ step = "deps"
  /\ StepDone(1)
  /\ UNCHANGED <<system, options, haveJack, runs, edits>>

-----------------------------------------------------------------------------
(* The boot configuration *)

\* What sed -i leaves of the first i lines: it deletes from a begin marker to the next
\* end marker, or to the end of the file.
Kept[i \in 0 .. Len(config)] ==
  IF i = 0 THEN <<>>
  ELSE IF InBlock(config, i) THEN Kept[i - 1] ELSE Append(Kept[i - 1], config[i])

\* A bug: without the end of the range, all that follows the block goes.
Mutant_Removed ==
  LET b == {i \in DOMAIN config : config[i] = "begin"} IN
  IF b = {} THEN config ELSE SubSeq(config, 1, Min(b) - 1)

Removed == Kept[Len(config)]

\* A bug: a block that is there is taken for up to date.
Mutant_RefreshBlock ==
  /\ step = "boot"
  /\ IF Contains(config, "begin") THEN StepDone(2) ELSE step' = "backup" /\ UNCHANGED outcome
  /\ UNCHANGED <<system, options, haveJack, runs, edits>>

RefreshBlock ==
  /\ step = "boot"
  /\ config' = IF Contains(config, "begin") THEN Removed ELSE config
  /\ step' = "backup"
  /\ UNCHANGED <<others, bin, unit, options, haveJack, outcome, runs, edits>>

\* cp to a file of another name.
Backup ==
  /\ step = "backup"
  /\ step' = "append"
  /\ UNCHANGED <<system, options, haveJack, outcome, runs, edits>>

Block(b) == <<"begin", "[all]", b, "end">>

\* One write of tee -a; the line before the block is empty.
AppendBlock ==
  /\ step = "append"
  /\ config' = config \o <<"">> \o Block(board)
  /\ StepDone(2)
  /\ UNCHANGED <<others, bin, unit, options, haveJack, runs, edits>>

-----------------------------------------------------------------------------
(* The rest of an installation *)

ConfigureRt ==
  /\ step = "rt"
  /\ others' = others \cup {<<"limits">>}
  /\ StepDone(3)
  /\ UNCHANGED <<config, bin, unit, options, haveJack, runs, edits>>

\* Built and tested, then installed; tedium-jack and the Pd external only if their
\* development files were there.
BuildSoftware ==
  /\ step = "build"
  /\ \E jack, pd \in BOOLEAN :
       /\ haveJack' = jack
       /\ bin' = IF jack THEN bin \cup {prefix} ELSE bin
       /\ others' = others \cup {<<"library", prefix>>} \cup (IF pd THEN {<<"external">>} ELSE {})
  /\ StepDone(4)
  /\ UNCHANGED <<config, unit, options, runs, edits>>

\* A bug: the unit is written whether or not there is something to run.
Mutant_InstallService ==
  /\ step = "service"
  /\ unit' = prefix
  /\ StepDone(5)
  /\ UNCHANGED <<config, others, bin, options, haveJack, runs, edits>>

\* The unit runs tedium-jack from this run's prefix.
InstallService ==
  /\ step = "service"
  /\ unit' = IF haveJack THEN prefix ELSE unit
  /\ StepDone(5)
  /\ UNCHANGED <<config, others, bin, options, haveJack, runs, edits>>

-----------------------------------------------------------------------------
(* do_uninstall *)

RemoveBlock ==
  /\ step = "unboot"
  /\ config' = Removed
  /\ step' = "unlimit"
  /\ UNCHANGED <<others, bin, unit, options, haveJack, outcome, runs, edits>>

RemoveLimits ==
  /\ step = "unlimit"
  /\ others' = others \ {<<"limits">>}
  /\ step' = "ununit"
  /\ UNCHANGED <<config, bin, unit, options, haveJack, outcome, runs, edits>>

RemoveUnit ==
  /\ step = "ununit"
  /\ unit' = "none"
  /\ step' = "unfile"
  /\ UNCHANGED <<config, others, bin, options, haveJack, outcome, runs, edits>>

\* The files under the prefix given; the Pd external stays.
RemoveFiles ==
  /\ step = "unfile"
  /\ bin' = bin \ {prefix}
  /\ others' = others \ {<<"library", prefix>>}
  /\ step' = "idle" /\ outcome' = "removed"
  /\ UNCHANGED <<config, unit, options, haveJack, runs, edits>>

User == \/ \E i \in 1 .. Len(config) + 1, x \in Lines \cup Filters : Insert(i, x)
        \/ \E i \in DOMAIN config : Delete(i)

Command == \/ \E s \in StepSets, b \in Boards, p \in PrefixDirs : Install(s, b, p)
        \/ \E p \in PrefixDirs : Uninstall(p)

Script ==
  \/ Stop \/ InstallDeps \/ RefreshBlock \/ Backup \/ AppendBlock \/ ConfigureRt
  \/ BuildSoftware \/ InstallService \/ RemoveBlock \/ RemoveLimits \/ RemoveUnit
  \/ RemoveFiles

InstallNext == User \/ Command \/ Script

InstallSpec == InstallInit /\ [][InstallNext]_installVars

-----------------------------------------------------------------------------
(* Correctness *)

Mine == Lines \cup Filters
Precedes(c, x, y) == \E i, j \in DOMAIN c : i < j /\ c[i] = x /\ c[j] = y

\* "The rest of the file is untouched" (install.sh:328): whatever runs stop where,
\* the user's lines stay as the user left them, in their order, each of them once
\* (where a line precedes itself it is there twice).
UserLinesKept ==
  [][edits' = edits => \A x, y \in Mine :
       /\ Contains(config', x) <=> Contains(config, x)
       /\ Precedes(config', x, y) <=> Precedes(config, x, y)]_installVars

\* The filter a line is subject to: the last one before it.
Scope(i) ==
  LET filters == {j \in 1 .. i - 1 : config[j] \in Filters \cup {"[all]"}} IN
  IF filters = {} THEN "[all]" ELSE config[Max(filters)]

\* There is at most one block's settings, in its markers and for every board
\* revision (bootconfig_test.sh:6-10), wherever the user's filters are; and after a
\* run that did the boot step they are those of the board it was given.
SettingsInForce ==
  LET settings == {i \in DOMAIN config : config[i] \in Boards} IN
  /\ \A i, j \in settings : i = j /\ InBlock(config, i) /\ Scope(i) = "[all]"
  /\ (step = "idle" /\ outcome = "installed" /\ "boot" \in todo)
       => \E i \in settings : config[i] = board

\* The systemd unit never points at a file that does not exist (install.sh:431-433),
\* over runs with other prefixes, without the build, and stopped half-way.
UnitHasBinary == unit # "none" => unit \in bin
=============================================================================
