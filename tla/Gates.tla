-------------------------------- MODULE Gates --------------------------------
(***************************************************************************)
(* The gate outputs of src/src/tt_core.c.  The audio thread asks for a     *)
(* level now (tt_gate_set), at a time (tt_gate_set_at) or from a signal    *)
(* (tt_gate_block); the sampling thread promotes the requests that are due *)
(* and writes the lines (apply_gates).  Nothing but single atomic words is *)
(* shared, so each load and store is a step, taken when it reaches memory, *)
(* and the two threads interleave at every one of them.  The release store *)
(* that disarms a gate (tt_core.c:693 and 706) holds back nothing that     *)
(* follows it: the stores after it may reach memory first, and meanwhile   *)
(* the gate is in late.  Every other order the code gives: the store that  *)
(* arms a gate is a release after the level and the time, in any order of  *)
(* these, and after the disarm of the same word; the sampling thread's     *)
(* clearing store is a release after its promotion.  tt_close stops the    *)
(* sampling thread and leaves the lines low.                               *)
(***************************************************************************)
EXTENDS Integers, Sequences

CONSTANTS
  NumGates,    \* ctx->bd->num_gates
  Frames,      \* samples of a block; one frame lasts one unit of time
  MaxTime,     \* bound on the clock
  MaxCalls,    \* bound on the calls the audio thread makes
  HalMayFail   \* TRUE: a write of a line may fail (hal_linux.c:240-251)

ASSUME NumGatesAssumption == NumGates \in Nat /\ NumGates >= 1
ASSUME FramesAssumption   == Frames \in Nat
ASSUME MaxTimeAssumption  == MaxTime \in Nat
ASSUME MaxCallsAssumption == MaxCalls \in Nat

Gates == 1 .. NumGates
Low   == [g \in Gates |-> FALSE]

VARIABLES
  now,        \* the monotonic clock
  level,      \* ctx->gate_level, one bit per gate
  armed,      \* ctx->gate_armed
  armedLevel, \* ctx->gate_armed_level
  at,         \* ctx->gate_at
  late,       \* the gates whose disarming store has not reached memory yet
  running,    \* ctx->running
  spc, sg, snow, slvl, want, applied,   \* the sampling thread
  cpc, cg, con, ctime, cur, samples,    \* the audio thread
  calls,      \* calls made
  hw,         \* the lines themselves
  refused,    \* a write of a line has failed
  host,       \* what the audio thread is: "signal" calls the library, "ugen" is ChucK's
  uchan, ulevel,       \* chan and level of its TedGate
  intent, due, clean, signal   \* history, see below

lines == <<hw, refused>>
ugen == <<host, uchan, ulevel>>
shared == <<level, armed, armedLevel, at, late>>
sampler == <<spc, sg, snow, slvl, want, applied>>
caller == <<cpc, cg, con, ctime, cur, samples, calls>>
\* intent[g], due[g]: the level the last completed request for g asked for, and
\* when.  clean[g]: no promotion of g overlapped the disarming of that request:
\* none was under way when it began, and none began before it reached memory.
\* signal[g]: the last sample of the last block or UGen input that drove g, in a
\* set; empty if a change of g was pending when it began, if another request came,
\* or if a promotion overlapped one of its own.
history == <<intent, due, clean, signal>>
vars == <<now, shared, running, sampler, caller, lines, ugen, history>>

\* The sampling thread has found gate g armed and has not yet disarmed it.
Promoting(g) == sg = g /\ spc \in {"at", "level", "fire", "clear"}

\* The audio thread is in the middle of a request for gate g.
Busy(g) == cg = g /\ cpc \in {"disarm", "setLevel", "armStores", "armLevel", "armAt", "arm"}

\* Gate g is armed, and the audio thread has not stored otherwise.
Pends(g) == armed[g] /\ g \notin late

Init ==
  /\ now = 0
  /\ level = Low /\ armed = Low /\ armedLevel = Low
  /\ at = [g \in Gates |-> 0] /\ late = {}
  /\ running = TRUE
  /\ spc = "scan" /\ sg = 1 /\ snow = 0 /\ slvl = FALSE
  /\ want = Low /\ applied = Low
  /\ cpc = "idle" /\ cg = 1 /\ con = FALSE /\ ctime = 0 /\ cur = FALSE
  /\ samples = <<>> /\ calls = 0
  /\ hw = Low /\ refused = FALSE
  /\ intent = Low /\ due = [g \in Gates |-> 0]
  /\ clean = [g \in Gates |-> TRUE]
  /\ signal = [g \in Gates |-> {}]
  /\ host \in {"signal", "ugen"} /\ uchan = 1 /\ ulevel = FALSE

Tick ==
  /\ now < MaxTime
  /\ now' = now + 1
  /\ UNCHANGED <<shared, running, sampler, caller, lines, ugen, history>>

-----------------------------------------------------------------------------
(* The sampling thread: apply_gates, once per pass of sample_thread. *)

SamplerOnly ==
  UNCHANGED <<now, armedLevel, at, late, running, caller, ugen, intent, due>>
Unseen == UNCHANGED <<clean, signal>>

\* The pass over the gates moves on to the next, or to the write-out.
NextGate == IF sg < NumGates THEN spc' = "armed" /\ sg' = sg + 1
                             ELSE spc' = "want"  /\ sg' = 1

BeginPass ==
  /\ spc = "scan" /\ running
  /\ spc' = "armed" /\ sg' = 1 /\ snow' = now
  /\ UNCHANGED <<level, armed, slvl, want, applied, lines>> /\ SamplerOnly /\ Unseen

LeaveLoop ==
  /\ spc = "scan" /\ ~ running
  /\ spc' = "exited"
  /\ UNCHANGED <<level, armed, sg, snow, slvl, want, applied, lines>> /\ SamplerOnly /\ Unseen

\* A promotion may begin with a request that was cancelled already.
LoadArmed ==
  /\ spc = "armed"
  /\ IF armed[sg] THEN spc' = "at" /\ sg' = sg ELSE NextGate
  /\ IF armed[sg] /\ sg \in late
     THEN clean' = [clean EXCEPT ![sg] = FALSE] /\ signal' = [signal EXCEPT ![sg] = {}]
     ELSE Unseen
  /\ UNCHANGED <<level, armed, snow, slvl, want, applied, lines>> /\ SamplerOnly

\* A bug: the deadline is not compared.
Mutant_LoadAt ==
  /\ spc = "at"
  /\ spc' = "level" /\ sg' = sg
  /\ UNCHANGED <<level, armed, snow, slvl, want, applied, lines>> /\ SamplerOnly /\ Unseen

LoadAt ==
  /\ spc = "at"
  /\ IF snow >= at[sg] THEN spc' = "level" /\ sg' = sg ELSE NextGate
  /\ UNCHANGED <<level, armed, snow, slvl, want, applied, lines>> /\ SamplerOnly /\ Unseen

LoadArmedLevel ==
  /\ spc = "level"
  /\ slvl' = armedLevel[sg]
  /\ spc' = "fire"
  /\ UNCHANGED <<level, armed, sg, snow, want, applied, lines>> /\ SamplerOnly /\ Unseen

Fire ==
  /\ spc = "fire"
  /\ level' = [level EXCEPT ![sg] = slvl]
  /\ spc' = "clear"
  /\ UNCHANGED <<armed, sg, snow, slvl, want, applied, lines>> /\ SamplerOnly /\ Unseen

ClearArmed ==
  /\ spc = "clear"
  /\ armed' = [armed EXCEPT ![sg] = FALSE]
  /\ NextGate
  /\ UNCHANGED <<level, snow, slvl, want, applied, lines>> /\ SamplerOnly /\ Unseen

\* One load of gate_level; nothing to do if it is what was last applied.
LoadWant ==
  /\ spc = "want"
  /\ want' = level
  /\ spc' = IF level = applied THEN "scan" ELSE "apply"
  /\ UNCHANGED <<level, armed, sg, snow, slvl, applied, lines>> /\ SamplerOnly /\ Unseen

\* hal->gate_set: the line takes the level, or refuses it.
HalGateSet(g, on) ==
  \/ hw' = [hw EXCEPT ![g] = on] /\ UNCHANGED refused
  \/ HalMayFail /\ refused' = TRUE /\ UNCHANGED hw

\* The gates that differ are written; the result is ignored.
WriteLine(g) ==
  IF want[g] = applied[g] THEN UNCHANGED lines ELSE HalGateSet(g, want[g])


Apply ==
  /\ spc = "apply"
  /\ WriteLine(sg)
  /\ IF sg < NumGates
     THEN spc' = "apply" /\ sg' = sg + 1 /\ UNCHANGED applied
     ELSE spc' = "scan" /\ sg' = 1 /\ applied' = want
  /\ UNCHANGED <<level, armed, snow, slvl, want>> /\ SamplerOnly /\ Unseen

Sampler == \/ BeginPass \/ LeaveLoop \/ LoadArmed \/ LoadAt \/ LoadArmedLevel
           \/ Fire \/ ClearArmed \/ LoadWant \/ Apply

-----------------------------------------------------------------------------
(* The audio thread. *)

CallerOnly == UNCHANGED <<now, sampler, lines>>

\* The signal that drives gate g is lost sight of: another request, or a race.
Unknown(g) == signal' = [signal EXCEPT ![g] = {}]
Settled(g) == ~ armed[g] /\ ~ Promoting(g)

\* Enter tt_gate_set, or tt_gate_set_at, which reads the clock to choose between
\* it (a time of 0 here) and the arming path.
Request(g, on, t) ==
  /\ cpc' = "disarm" /\ cg' = g /\ con' = on
  /\ ctime' = IF t <= now THEN 0 ELSE t

Return == cpc' = IF samples = <<>> THEN "idle" ELSE "block"

CallSet(g, on) ==
  /\ cpc = "idle" /\ calls < MaxCalls
  /\ Request(g, on, 0)
  /\ calls' = calls + 1
  /\ UNCHANGED <<cur, samples, shared, running, intent, due, clean>> /\ CallerOnly

CallSetAt(g, on, t) ==
  /\ cpc = "idle" /\ calls < MaxCalls
  /\ Request(g, on, t)
  /\ calls' = calls + 1
  /\ Unknown(g)
  /\ UNCHANGED <<cur, samples, shared, running, ugen, intent, due, clean>> /\ CallerOnly

\* tt_gate_block, one channel (a block of several is one such call for each): the
\* level the gate is at is loaded once, and followed from there.
CallBlock(g, t0, in) ==
  /\ cpc = "idle" /\ calls < MaxCalls
  /\ cpc' = "block" /\ cg' = g
  /\ cur' = level[g]
  /\ samples' = [f \in 1 .. Frames |-> <<t0 + f - 1, in[f]>>]
  /\ calls' = calls + 1
  /\ signal' = [signal EXCEPT ![g] = IF Settled(g) THEN {in[Frames]} ELSE {}]
  /\ UNCHANGED <<con, ctime, shared, running, ugen, intent, due, clean>> /\ CallerOnly

\* ChucK's gate UGen: a change of its input goes to the channel it is on.
GateTick(on) ==
  /\ on # ulevel
  /\ CallSet(uchan, on)
  /\ ulevel' = on
  /\ signal' = [signal EXCEPT ![uchan] = {on}]
  /\ UNCHANGED <<host, uchan>>

\* chan(): nothing is sent, neither to the old gate nor to the new.
GateChan(c) ==
  /\ cpc = "idle"
  /\ uchan' = c
  /\ Unknown(c)
  /\ UNCHANGED <<host, ulevel, now, caller, shared, running, sampler, lines>>
  /\ UNCHANGED <<intent, due, clean>>

\* A bug: the level followed from is not brought up to date.
Mutant_BlockFrame ==
  /\ cpc = "block"
  /\ samples' = Tail(samples)
  /\ LET t == Head(samples)[1]  on == Head(samples)[2] IN
     IF on # cur
     THEN Request(cg, on, t) /\ UNCHANGED cur
     ELSE /\ cpc' = IF Len(samples) = 1 THEN "idle" ELSE "block"
          /\ UNCHANGED <<cg, con, ctime, cur>>
  /\ UNCHANGED <<calls, shared, running, ugen, history>> /\ CallerOnly

\* The next frame of the block: a crossing becomes a request for its instant.
BlockFrame ==
  /\ cpc = "block"
  /\ samples' = Tail(samples)
  /\ LET t == Head(samples)[1]  on == Head(samples)[2] IN
     IF on # cur
     THEN Request(cg, on, t) /\ cur' = on
     ELSE /\ cpc' = IF Len(samples) = 1 THEN "idle" ELSE "block"
          /\ UNCHANGED <<cg, con, ctime, cur>>
  /\ UNCHANGED <<calls, shared, running, ugen, history>> /\ CallerOnly

\* The disarming store reaches memory at once, or is late if there is anything to
\* disarm.
Disarm ==
  /\ cpc = "disarm"
  /\ \/ armed' = [armed EXCEPT ![cg] = FALSE] /\ late' = late \ {cg}
     \/ armed[cg] /\ late' = late \cup {cg} /\ UNCHANGED armed
  /\ cpc' = IF ctime = 0 THEN "setLevel" ELSE "armStores"
  /\ clean' = [clean EXCEPT ![cg] = ~ Promoting(cg)]
  /\ IF Promoting(cg) THEN Unknown(cg) ELSE UNCHANGED signal
  /\ UNCHANGED <<cg, con, ctime, cur, samples, calls, level, armedLevel, at, running>>
  /\ UNCHANGED <<ugen, intent, due>> /\ CallerOnly

\* A late one reaches it.
DisarmSeen(g) ==
  /\ g \in late
  /\ late' = late \ {g}
  /\ armed' = [armed EXCEPT ![g] = FALSE]
  /\ UNCHANGED <<now, level, armedLevel, at, running, sampler, caller, lines, ugen, history>>

\* The request is complete: remember what it asked for.
Remember ==
  /\ intent' = [intent EXCEPT ![cg] = con]
  /\ due' = [due EXCEPT ![cg] = ctime]
  /\ UNCHANGED <<clean, signal, ugen>>

SetLevel ==
  /\ cpc = "setLevel"
  /\ level' = [level EXCEPT ![cg] = con]
  /\ Return /\ Remember
  /\ UNCHANGED <<cg, con, ctime, cur, samples, calls, armed, armedLevel, at, late, running>>
  /\ CallerOnly

\* The level and the time are relaxed stores: in either order.
StoreArmedLevel ==
  /\ cpc \in {"armStores", "armLevel"}
  /\ armedLevel' = [armedLevel EXCEPT ![cg] = con]
  /\ cpc' = IF cpc = "armStores" THEN "armAt" ELSE "arm"
  /\ UNCHANGED <<cg, con, ctime, cur, samples, calls, level, armed, at, late, running>>
  /\ UNCHANGED <<ugen, history>> /\ CallerOnly

StoreAt ==
  /\ cpc \in {"armStores", "armAt"}
  /\ at' = [at EXCEPT ![cg] = ctime]
  /\ cpc' = IF cpc = "armStores" THEN "armLevel" ELSE "arm"
  /\ UNCHANGED <<cg, con, ctime, cur, samples, calls, level, armed, armedLevel, late, running>>
  /\ UNCHANGED <<ugen, history>> /\ CallerOnly

\* The same word as the disarm, which it cannot overtake.
Arm ==
  /\ cpc = "arm" /\ cg \notin late
  /\ armed' = [armed EXCEPT ![cg] = TRUE]
  /\ Return /\ Remember
  /\ UNCHANGED <<cg, con, ctime, cur, samples, calls, level, armedLevel, at, late, running>>
  /\ CallerOnly

-----------------------------------------------------------------------------
(* tt_close: stop the thread, wait for it, then drive every line low. *)

CloseBegin ==
  /\ cpc = "idle"
  /\ running' = FALSE
  /\ cpc' = "join"
  /\ UNCHANGED <<cg, con, ctime, cur, samples, calls, shared, ugen, history>> /\ CallerOnly

\* A bug: the thread is not waited for.
Mutant_CloseJoin ==
  /\ cpc = "join"
  /\ cpc' = "quiet" /\ cg' = 1
  /\ UNCHANGED <<con, ctime, cur, samples, calls, shared, running, ugen, history>> /\ CallerOnly

CloseJoin ==
  /\ cpc = "join" /\ spc = "exited"
  /\ cpc' = "quiet" /\ cg' = 1
  /\ UNCHANGED <<con, ctime, cur, samples, calls, shared, running, ugen, history>> /\ CallerOnly

CloseLine ==
  /\ cpc = "quiet"
  /\ HalGateSet(cg, FALSE)
  /\ IF cg < NumGates THEN cg' = cg + 1 /\ UNCHANGED cpc
                      ELSE cpc' = "closed" /\ UNCHANGED cg
  /\ UNCHANGED <<now, con, ctime, cur, samples, calls, shared, running, sampler, ugen, history>>

-----------------------------------------------------------------------------
Step == BlockFrame \/ Disarm \/ SetLevel \/ StoreArmedLevel \/ StoreAt \/ Arm

\* A program that calls the library, or a signal rendered in blocks.
CallLibrary ==
  \E g \in Gates :
    \/ \E on \in BOOLEAN : CallSet(g, on) /\ Unknown(g) /\ UNCHANGED ugen
    \/ \E on \in BOOLEAN, t \in 1 .. MaxTime : CallSetAt(g, on, t)
    \/ \E in \in [1 .. Frames -> BOOLEAN] : Frames > 0 /\ CallBlock(g, now, in)

Call == \/ host = "signal" /\ CallLibrary
        \/ host = "ugen" /\ ((\E on \in BOOLEAN : GateTick(on)) \/ \E c \in Gates : GateChan(c))

Close == CloseBegin \/ CloseJoin \/ CloseLine

Memory == \E g \in Gates : DisarmSeen(g)

Next == Tick \/ Sampler \/ Call \/ Step \/ Memory \/ Close

Spec == Init /\ [][Next]_vars

\* The sampling thread is real-time and loops for ever; time passes; a store reaches
\* memory; a call of the audio thread is wait-free and returns; a tt_close that has
\* begun goes on.
\* Nobody is obliged to make a call.
FairSpec ==
  Spec /\ WF_vars(Tick) /\ WF_vars(Sampler) /\ WF_vars(Step) /\ WF_vars(Memory)
       /\ WF_vars(CloseJoin \/ CloseLine)

-----------------------------------------------------------------------------
(* Correctness *)

\* A request whose disarming no promotion of its gate overlapped is honoured: it is
\* still pending, as it was made, or it has taken effect, and not before its time
\* (tt_core.c:690-712 against 131-146).
CleanRequestsHonoured ==
  \A g \in Gates : clean[g] /\ ~ Busy(g) =>
    \/ Pends(g) /\ armedLevel[g] = intent[g] /\ at[g] = due[g]
    \/ level[g] = intent[g] /\ now >= due[g]

\* What the test immediate_set_cancels_a_pending_schedule (test_core.c:540-550) says:
\* after an immediate set nothing pends, and the gate keeps the level it was set to.
\* The code breaks it when a promotion of the pending change overlaps the set
\* (tt_core.c:136-144 against 693-697).
ImmediateSetCancels ==
  \A g \in Gates : (due[g] = 0 /\ ~ Busy(g) /\ ~ Promoting(g)) =>
    ~ Pends(g) /\ level[g] = intent[g]

\* After tt_close the lines are low and stay low (if they took what was
\* written to them), whatever was pending: the
\* sampling thread can no longer write one.
ClosedIsQuiet ==
  cpc = "closed" => spc = "exited" /\ (refused \/ hw = Low)

\* A gate driven from a signal ends where the signal ends: after a block, or an
\* input of ChucK's UGen, the gate has the level of the last sample, or that level
\* is pending and nothing else is, over the promotions of the block's own crossings
\* between its requests.  Not so if a promotion overlapped the disarming of one of
\* them, if a change was pending when the block began (tt_gate_block follows
\* gate_level, which does not know of it: tt_core.c:644), or for a gate the UGen was
\* moved to (tedium_chugin.cpp:283).
GateFollowsSignal ==
  \A g \in Gates : ~ Busy(g) /\ ~ (cg = g /\ cpc = "block") =>
    \A v \in signal[g] : IF Pends(g) THEN armedLevel[g] = v ELSE level[g] = v

=============================================================================
