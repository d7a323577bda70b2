----------------------------- MODULE Gates_proofs -----------------------------
(***************************************************************************)
(* Proofs about Gates for any number of gates, block size, clock and calls: *)
(* requests are honoured, a gate driven by a signal ends where the signal  *)
(* ends, and no line is written after a close, at every interleaving of    *)
(* the two threads' loads and stores.                                      *)
(***************************************************************************)
EXTENDS Gates, SequenceTheorems, TLAPS

SamplerPlaces == {"scan", "armed", "at", "level", "fire", "clear", "want", "apply", "exited"}
CallerPlaces  == {"idle", "block", "disarm", "setLevel", "armStores", "armLevel", "armAt",
                  "arm", "join", "quiet", "closed"}

\* Type invariant.
TypeOK ==
  /\ now \in Nat /\ running \in BOOLEAN
  /\ level \in [Gates -> BOOLEAN] /\ armed \in [Gates -> BOOLEAN]
  /\ armedLevel \in [Gates -> BOOLEAN] /\ at \in [Gates -> Nat] /\ late \subseteq Gates
  /\ spc \in SamplerPlaces /\ sg \in Gates /\ snow \in Nat /\ slvl \in BOOLEAN
  /\ want \in [Gates -> BOOLEAN] /\ applied \in [Gates -> BOOLEAN]
  /\ cpc \in CallerPlaces /\ cg \in Gates /\ con \in BOOLEAN /\ ctime \in Nat
  /\ cur \in BOOLEAN /\ samples \in Seq(Nat \X BOOLEAN) /\ calls \in Nat
  /\ hw \in [Gates -> BOOLEAN] /\ refused \in BOOLEAN
  /\ host \in {"signal", "ugen"} /\ uchan \in Gates /\ ulevel \in BOOLEAN
  /\ intent \in [Gates -> BOOLEAN] /\ due \in [Gates -> Nat]
  /\ clean \in [Gates -> BOOLEAN] /\ signal \in [Gates -> SUBSET BOOLEAN]

\* The lines are driven low one by one, by then the only writer's.
Closing ==
  /\ cpc \in {"quiet", "closed"} => spc = "exited"
  /\ cpc = "quiet" => refused \/ \A g \in Gates : g < cg => ~ hw[g]
  /\ cpc = "closed" => refused \/ \A g \in Gates : ~ hw[g]

\* What the audio thread has done of its call: nobody else stores these words.
Calling ==
  /\ cpc = "setLevel" => ctime = 0
  /\ cpc \in {"armAt", "arm"} => armedLevel[cg] = con
  /\ cpc \in {"armLevel", "arm"} => at[cg] = ctime
  /\ cpc = "block" => samples # <<>>
  /\ cpc \in {"idle", "join", "quiet", "closed"} => samples = <<>>

\* Gate g is disarmed, or will be as soon as the store of it reaches memory, and the
\* sampling thread has not found it armed.
OutOfReach(g) == ~ Pends(g) /\ ~ Promoting(g)

\* A request is past its first store.
Between(g) == cg = g /\ cpc \in {"setLevel", "armStores", "armLevel", "armAt", "arm"}

\* The request for g still pends, and if it is being promoted, as it was made.
Pending(g) ==
  /\ Pends(g) /\ armedLevel[g] = intent[g] /\ at[g] = due[g]
  /\ sg = g /\ spc \in {"level", "fire", "clear"} => now >= due[g]
  /\ sg = g /\ spc = "fire" => slvl = intent[g]
  /\ sg = g /\ spc = "clear" => level[g] = intent[g]

Done(g) == OutOfReach(g) /\ level[g] = intent[g] /\ now >= due[g]

HonouredAt(g) ==
  /\ ~ Busy(g) => Pending(g) \/ Done(g)
  /\ Between(g) => OutOfReach(g)

Honoured == snow <= now /\ \A g \in Gates : clean[g] => HonouredAt(g)

\* Gate g is at level v, or is going there and nowhere else.
Bound(g, v) ==
  /\ IF Pends(g) THEN armedLevel[g] = v ELSE level[g] = v /\ ~ Promoting(g)
  /\ sg = g /\ spc = "fire" => slvl = v
  /\ sg = g /\ spc = "clear" => level[g] = v

\* A gate that a signal ending in v drives is bound for v; while its block is
\* rendered it is bound for the level followed so far, and v is still to come.
FollowsTo(g, v) ==
  /\ ~ Busy(g) => Bound(g, IF cg = g /\ cpc = "block" THEN cur ELSE v)
  /\ Between(g) => OutOfReach(g)
  /\ Busy(g) => con = IF samples = <<>> THEN v ELSE cur
  /\ cg = g /\ samples # <<>> => samples[Len(samples)][2] = v

Follows == \A g \in Gates : \A v \in signal[g] : FollowsTo(g, v)

IInv == TypeOK /\ Closing /\ Calling /\ Honoured /\ Follows
-----------------------------------------------------------------------------
\* The types hold at the start.
LEMMA TypeInit == Init => TypeOK
<1> SUFFICES ASSUME Init PROVE TypeOK
  OBVIOUS
<1>1. 1 \in Gates /\ Low \in [Gates -> BOOLEAN]
  BY NumGatesAssumption DEF Gates, Low
<1>2. /\ [g \in Gates |-> 0] \in [Gates -> Nat]
      /\ [g \in Gates |-> TRUE] \in [Gates -> BOOLEAN]
      /\ [g \in Gates |-> {}] \in [Gates -> SUBSET BOOLEAN]
      /\ <<>> \in Seq(Nat \X BOOLEAN) /\ 0 \in Nat
  OBVIOUS
<1> QED
  BY <1>1, <1>2, Zenon DEF Init, TypeOK, SamplerPlaces, CallerPlaces

\* The sampling thread's next gate is a gate.
LEMMA NextGateType ==
  ASSUME TypeOK, NextGate PROVE spc' \in {"armed", "want"} /\ sg' \in Gates
  BY NumGatesAssumption DEF TypeOK, Gates, NextGate

\* The sampling thread's steps keep the types.
LEMMA TypeSampler ==
  ASSUME TypeOK, Tick \/ Sampler PROVE TypeOK'
<1> USE NumGatesAssumption
    DEF TypeOK, Gates, SamplerPlaces, shared, sampler, caller, lines, ugen, history,
        SamplerOnly, Unseen
<1>1. CASE Tick
  BY <1>1 DEF Tick
<1>2. CASE BeginPass
  BY <1>2 DEF BeginPass
<1>3. CASE LeaveLoop
  BY <1>3 DEF LeaveLoop
<1>4. CASE LoadArmed
  <2>1. spc' \in SamplerPlaces /\ sg' \in Gates
    <3>1. CASE spc' = "at" /\ sg' = sg
      BY <3>1
    <3>2. CASE NextGate
      BY <3>2, NextGateType
    <3> QED
      BY <1>4, <3>1, <3>2, Zenon DEF LoadArmed
  <2>2. UNCHANGED <<level, armed, snow, slvl, want, applied, lines>> /\ SamplerOnly
    BY <1>4 DEF LoadArmed
  <2>3. clean' \in [Gates -> BOOLEAN] /\ signal' \in [Gates -> SUBSET BOOLEAN]
    BY <1>4, Zenon DEF LoadArmed, Unseen
  <2> QED
    BY <2>1, <2>2, <2>3
<1>5. CASE LoadAt
  BY <1>5, NextGateType, ZenonT(40) DEF LoadAt
<1>6. CASE LoadArmedLevel
  <2>1. slvl' \in BOOLEAN
    BY <1>6, Zenon DEF LoadArmedLevel
  <2>2. spc' = "fire" /\ UNCHANGED <<level, armed, sg, snow, want, applied, lines>>
        /\ SamplerOnly /\ Unseen
    BY <1>6 DEF LoadArmedLevel
  <2> QED
    BY <2>1, <2>2
<1>7. CASE Fire
  BY <1>7 DEF Fire
<1>8. CASE ClearArmed
  BY <1>8, NextGateType, ZenonT(40) DEF ClearArmed
<1>9. CASE LoadWant
  BY <1>9 DEF LoadWant
<1>10. CASE Apply
  <2>1. hw' \in [Gates -> BOOLEAN] /\ refused' \in BOOLEAN
    <3>1. want[sg] \in BOOLEAN
      OBVIOUS
    <3>2. CASE want[sg] = applied[sg]
      BY <1>10, <3>2 DEF Apply, WriteLine
    <3>3. CASE HalGateSet(sg, want[sg])
      BY <3>1, <3>3 DEF HalGateSet
    <3> QED
      BY <1>10, <3>2, <3>3 DEF Apply, WriteLine
  <2>2. sg' \in Gates /\ spc' \in SamplerPlaces /\ applied' \in [Gates -> BOOLEAN]
    BY <1>10 DEF Apply
  <2> QED
    BY <1>10, <2>1, <2>2 DEF Apply
<1> QED
  BY <1>1, <1>2, <1>3, <1>4, <1>5, <1>6, <1>7, <1>8, <1>9, <1>10 DEF Sampler

\* The calls' steps keep the types.
LEMMA TypeCaller ==
  ASSUME TypeOK, Calling, Call \/ Step \/ Memory \/ Close PROVE TypeOK'
<1> USE NumGatesAssumption, FramesAssumption
    DEF TypeOK, CallerPlaces, shared, sampler, caller, lines, ugen, history,
        CallerOnly, Return, Remember
<1>1. ASSUME NEW g \in Gates, NEW on \in BOOLEAN, CallSet(g, on) /\ Unknown(g) /\ UNCHANGED ugen
      PROVE  TypeOK'
  BY <1>1 DEF CallSet, Request, Unknown
<1>2. ASSUME NEW g \in Gates, NEW on \in BOOLEAN, NEW t \in 1 .. MaxTime, CallSetAt(g, on, t)
      PROVE  TypeOK'
  BY <1>2 DEF CallSetAt, Request, Unknown
<1>3. ASSUME NEW g \in Gates, NEW in \in [1 .. Frames -> BOOLEAN], Frames > 0,
             CallBlock(g, now, in)
      PROVE  TypeOK'
  <2>1. samples' \in Seq(Nat \X BOOLEAN)
    <3>1. \A f \in 1 .. Frames : <<now + f - 1, in[f]>> \in Nat \X BOOLEAN
      BY SMTT(30)
    <3>2. [f \in 1 .. Frames |-> <<now + f - 1, in[f]>>] \in Seq(Nat \X BOOLEAN)
      BY <3>1, IsASeq
    <3> QED
      BY <1>3, <3>2 DEF CallBlock
  <2>2. cur' \in BOOLEAN
    BY <1>3, Zenon DEF CallBlock
  <2>3. signal' \in [Gates -> SUBSET BOOLEAN]
    <3>1. {in[Frames]} \in SUBSET BOOLEAN
      BY <1>3
    <3> QED
      BY <1>3, <3>1, Zenon DEF CallBlock
  <2>4. cpc' = "block" /\ cg' = g /\ calls' = calls + 1 /\ CallerOnly
        /\ UNCHANGED <<con, ctime, shared, running, ugen, intent, due, clean>>
    BY <1>3 DEF CallBlock
  <2> QED
    BY <2>1, <2>2, <2>3, <2>4, SMTT(30)
<1>4. ASSUME NEW on \in BOOLEAN, GateTick(on) PROVE TypeOK'
  BY <1>4 DEF GateTick, CallSet, Request
<1>5. ASSUME NEW c \in Gates, GateChan(c) PROVE TypeOK'
  BY <1>5 DEF GateChan, Unknown
<1>6. CASE BlockFrame
  <2> DEFINE t  == Head(samples)[1]
             on == Head(samples)[2]
  <2>1. samples # <<>>
    BY <1>6 DEF BlockFrame, Calling
  <2>2. t \in Nat /\ on \in BOOLEAN /\ Tail(samples) \in Seq(Nat \X BOOLEAN)
    <3>1. Head(samples) \in Nat \X BOOLEAN /\ Tail(samples) \in Seq(Nat \X BOOLEAN)
      BY <2>1, HeadTailProperties
    <3> QED
      BY <3>1
  <2>3. /\ samples' = Tail(samples) /\ CallerOnly
        /\ UNCHANGED <<calls, shared, running, ugen, history>>
        /\ IF on # cur THEN Request(cg, on, t) /\ cur' = on
           ELSE /\ cpc' = IF Len(samples) = 1 THEN "idle" ELSE "block"
                /\ UNCHANGED <<cg, con, ctime, cur>>
    BY <1>6 DEF BlockFrame
  <2> HIDE DEF t, on
  <2>4. CASE Request(cg, on, t) /\ cur' = on
    <3>1. con' \in BOOLEAN /\ cur' \in BOOLEAN
      BY <2>2, <2>4, Zenon DEF Request
    <3>2. ctime' \in Nat /\ cpc' = "disarm" /\ cg' = cg
      BY <2>2, <2>4 DEF Request
    <3> QED
      BY <2>2, <2>3, <3>1, <3>2
  <2>5. CASE UNCHANGED <<cg, con, ctime, cur>> /\ cpc' \in {"idle", "block"}
    BY <2>2, <2>3, <2>5, SMTT(30)
  <2> QED
    BY <2>3, <2>4, <2>5, Zenon
<1>7. CASE Disarm
  BY <1>7, ZenonT(40) DEF Disarm, Unknown
<1>8. CASE SetLevel
  BY <1>8 DEF SetLevel
<1>9. CASE StoreArmedLevel
  BY <1>9 DEF StoreArmedLevel
<1>10. CASE StoreAt
  BY <1>10 DEF StoreAt
<1>11. CASE Arm
  BY <1>11 DEF Arm
<1>12. CASE CloseBegin
  BY <1>12 DEF CloseBegin
<1>13. CASE CloseJoin
  BY <1>13, SMTT(30) DEF CloseJoin, Gates
<1>14. CASE CloseLine
  <2>1. hw' \in [Gates -> BOOLEAN] /\ refused' \in BOOLEAN
    BY <1>14 DEF CloseLine, HalGateSet
  <2>2. cg' \in Gates /\ cpc' \in CallerPlaces
    BY <1>14 DEF CloseLine, Gates
  <2>3. UNCHANGED <<now, con, ctime, cur, samples, calls, shared, running, sampler, ugen, history>>
    BY <1>14 DEF CloseLine
  <2> QED
    BY <2>1, <2>2, <2>3
<1>15. CASE Memory
  BY <1>15 DEF Memory, DisarmSeen
<1> QED
  BY <1>1, <1>2, <1>3, <1>4, <1>5, <1>6, <1>7, <1>8, <1>9, <1>10, <1>11, <1>12, <1>13, <1>14, <1>15
  DEF Call, CallLibrary, Step, Close

-----------------------------------------------------------------------------
\* A sampling thread that has left its loop does nothing more, and it never does
\* anything to the audio thread's words.
LEMMA SamplerFrame ==
  ASSUME Sampler
  PROVE  /\ spc # "exited"
         /\ UNCHANGED <<now, armedLevel, at, late, caller, intent, due>>
  BY DEF Sampler, SamplerOnly, caller, history, BeginPass, LeaveLoop, LoadArmed, LoadAt,
     LoadArmedLevel, Fire, ClearArmed, LoadWant, Apply

\* The sampling thread makes no request clean, and no signal known.
LEMMA SamplerForgets ==
  ASSUME TypeOK, Tick \/ Sampler, NEW g \in Gates
  PROVE  (clean'[g] => clean[g]) /\ signal'[g] \subseteq signal[g]
<1>1. CASE UNCHANGED <<clean, signal>>
  BY <1>1
<1>2. CASE LoadArmed
  BY <1>2 DEF LoadArmed, Unseen, TypeOK
<1> QED
  BY <1>1, <1>2 DEF Tick, history, Unseen, Sampler, BeginPass, LeaveLoop, LoadAt,
     LoadArmedLevel, Fire, ClearArmed, LoadWant, Apply

\* A call begins at "idle" and a step of it is at a place of its own.
LEMMA CallFrame ==
  ASSUME Call \/ Step
  PROVE  /\ cpc \notin {"join", "quiet", "closed"} /\ cpc' \notin {"join", "quiet", "closed"}
         /\ UNCHANGED <<now, sampler, lines, running>>
<1> USE DEF CallerOnly
<1>1. CASE Call
  BY <1>1 DEF Call, CallLibrary, CallSet, CallSetAt, CallBlock, GateTick, GateChan, Request, caller
<1>2. CASE BlockFrame
  BY <1>2 DEF BlockFrame, Request
<1>3. CASE Disarm \/ SetLevel \/ StoreArmedLevel \/ StoreAt \/ Arm
  BY <1>3 DEF Disarm, SetLevel, StoreArmedLevel, StoreAt, Arm, Return
<1> QED
  BY <1>1, <1>2, <1>3 DEF Step

\* Every step keeps what tt_close has done so far.
LEMMA ClosingStep ==
  ASSUME TypeOK, Closing, [Next]_vars PROVE Closing'
<1>1. CASE Tick
  BY <1>1 DEF Tick, Closing, sampler, caller, lines
<1>2. CASE Sampler
  BY <1>2, SamplerFrame DEF Closing, caller
<1>3. CASE Call \/ Step
  BY <1>3, CallFrame DEF Closing
<1>4. CASE CloseBegin
  BY <1>4 DEF CloseBegin, Closing
<1>5. CASE CloseJoin
  BY <1>5, NumGatesAssumption DEF CloseJoin, CallerOnly, Closing, sampler, lines, Gates
<1>6. CASE CloseLine
  <2>1. spc' = "exited" /\ cpc = "quiet"
    BY <1>6 DEF CloseLine, Closing, sampler
  <2>2. refused' \/ (hw' = [hw EXCEPT ![cg] = FALSE] /\ refused' = refused)
    BY <1>6 DEF CloseLine, HalGateSet
  <2>3. refused' \/ \A g \in Gates : g <= cg => ~ hw'[g]
    BY <2>1, <2>2, NumGatesAssumption DEF Closing, TypeOK, Gates
  <2>4. \/ cpc' = "quiet" /\ cg' = cg + 1
        \/ cpc' = "closed" /\ cg = NumGates
    BY <1>6, NumGatesAssumption DEF CloseLine, TypeOK, Gates
  <2> QED
    BY <2>1, <2>3, <2>4, NumGatesAssumption DEF Closing, TypeOK, Gates
<1>7. CASE UNCHANGED vars
  BY <1>7 DEF vars, sampler, caller, lines, Closing
<1>8. CASE Memory
  BY <1>8 DEF Memory, DisarmSeen, sampler, caller, lines, Closing
<1> QED
  BY <1>1, <1>2, <1>3, <1>4, <1>5, <1>6, <1>7, <1>8 DEF Next, Close

\* Every step keeps what a call has begun.
LEMMA CallingStep ==
  ASSUME TypeOK, Calling, [Next]_vars PROVE Calling'
<1> USE DEF Calling
<1>1. CASE Tick
  BY <1>1 DEF Tick, shared, caller
<1>2. CASE Sampler
  BY <1>2, SamplerFrame DEF caller
<1>3. ASSUME NEW g \in Gates, NEW on \in BOOLEAN, CallSet(g, on) PROVE Calling'
  BY <1>3 DEF CallSet, Request
<1>4. ASSUME NEW g \in Gates, NEW on \in BOOLEAN, NEW t \in 1 .. MaxTime, CallSetAt(g, on, t)
      PROVE  Calling'
  BY <1>4 DEF CallSetAt, Request
<1>5. ASSUME NEW g \in Gates, NEW in \in [1 .. Frames -> BOOLEAN], Frames > 0,
             CallBlock(g, now, in)
      PROVE  Calling'
  <2>1. samples' # <<>>
    <3>1. 1 \in DOMAIN samples'
      BY <1>5, FramesAssumption DEF CallBlock
    <3>2. DOMAIN <<>> = {}
      OBVIOUS
    <3> QED
      BY <3>1, <3>2
  <2> QED
    BY <1>5, <2>1 DEF CallBlock
<1>6. ASSUME NEW c \in Gates, GateChan(c) PROVE Calling'
  BY <1>6 DEF GateChan, caller, shared
<1>7. CASE BlockFrame
  <2>1. Len(samples) = 1 \/ Tail(samples) # <<>>
    <3>1. samples # <<>> /\ samples \in Seq(Nat \X BOOLEAN)
      BY <1>7 DEF BlockFrame, TypeOK
    <3>2. Len(samples) \in Nat \ {0} /\ Len(Tail(samples)) = Len(samples) - 1
      BY <3>1, EmptySeq, HeadTailProperties
    <3>3. Len(<<>>) = 0
      OBVIOUS
    <3> QED
      BY <3>2, <3>3
  <2> QED
    BY <1>7, <2>1, SMTT(30) DEF BlockFrame, Request
<1>8. CASE Disarm
  BY <1>8 DEF Disarm
<1>9. CASE SetLevel
  BY <1>9 DEF SetLevel, Return
<1>10. CASE StoreArmedLevel
  BY <1>10 DEF StoreArmedLevel, TypeOK
<1>11. CASE StoreAt
  BY <1>11 DEF StoreAt, TypeOK
<1>12. CASE Arm
  BY <1>12 DEF Arm, Return
<1>13. CASE Close
  BY <1>13 DEF Close, CloseBegin, CloseJoin, CloseLine
<1>16. CASE Memory
  BY <1>16 DEF Memory, DisarmSeen, caller
<1>14. CASE UNCHANGED vars
  BY <1>14 DEF vars, shared, caller
<1>15. CASE Call
  <2>1. \A on \in BOOLEAN : GateTick(on) => Calling'
    BY <1>3 DEF GateTick, TypeOK
  <2> QED
    BY <1>3, <1>4, <1>5, <1>6, <1>15, <2>1 DEF Call, CallLibrary
<1> QED
  BY <1>1, <1>2, <1>7, <1>8, <1>9, <1>10, <1>11, <1>12, <1>13, <1>14, <1>15,
     <1>16 DEF Next, Step

-----------------------------------------------------------------------------
\* The sampling thread's steps keep a clean request honoured or on its way.
LEMMA HonouredSampler ==
  ASSUME TypeOK, Honoured, Tick \/ Sampler, NEW g \in Gates, clean'[g]
  PROVE  HonouredAt(g)'
<1> USE DEF TypeOK, HonouredAt, Pending, Done, OutOfReach, Between, Busy, Pends, Promoting,
            SamplerOnly, Unseen
<1> HonouredAt(g) /\ snow <= now
  BY SamplerForgets DEF Honoured
<1>1. CASE Tick
  BY <1>1 DEF Tick, shared, sampler, caller, history
<1>2. CASE BeginPass
  BY <1>2 DEF BeginPass, caller, history
<1>3. CASE LeaveLoop
  BY <1>3 DEF LeaveLoop, caller, history
<1>4. CASE LoadArmed
  BY <1>4, NextGateType DEF LoadArmed, caller, history
<1>5. CASE LoadAt
  BY <1>5, NextGateType, SMTT(30) DEF LoadAt, caller, history
<1>6. CASE LoadArmedLevel
  BY <1>6 DEF LoadArmedLevel, caller, history
<1>7. CASE Fire
  BY <1>7 DEF Fire, caller, history
<1>8. CASE ClearArmed
  BY <1>8, NextGateType DEF ClearArmed, caller, history
<1>9. CASE LoadWant
  BY <1>9 DEF LoadWant, caller, history
<1>10. CASE Apply
  BY <1>10 DEF Apply, caller, history
<1> QED
  BY <1>1, <1>2, <1>3, <1>4, <1>5, <1>6, <1>7, <1>8, <1>9, <1>10 DEF Sampler

\* The calls' steps keep a clean request honoured or on its way.
LEMMA HonouredCaller ==
  ASSUME TypeOK, Calling, Honoured, Call \/ Step \/ Memory \/ Close, NEW g \in Gates, clean'[g]
  PROVE  HonouredAt(g)'
<1> USE DEF TypeOK, Calling, HonouredAt, Pending, Done, OutOfReach, Between, Busy, Pends,
            Promoting, CallerOnly, sampler, shared
<1> clean[g] => HonouredAt(g)
  BY DEF Honoured
<1>1. ASSUME NEW h \in Gates, NEW on \in BOOLEAN, CallSet(h, on) PROVE HonouredAt(g)'
  BY <1>1 DEF CallSet, Request
<1>2. ASSUME NEW h \in Gates, NEW on \in BOOLEAN, NEW t \in 1 .. MaxTime, CallSetAt(h, on, t)
      PROVE  HonouredAt(g)'
  BY <1>2 DEF CallSetAt, Request
<1>3. ASSUME NEW h \in Gates, NEW in \in [1 .. Frames -> BOOLEAN], CallBlock(h, now, in)
      PROVE  HonouredAt(g)'
  BY <1>3 DEF CallBlock
<1>4. ASSUME NEW c \in Gates, GateChan(c) PROVE HonouredAt(g)'
  BY <1>4 DEF GateChan, caller
<1>5. CASE BlockFrame
  BY <1>5 DEF BlockFrame, Request, history
<1>6. CASE Disarm
  BY <1>6 DEF Disarm
<1>7. CASE SetLevel
  BY <1>7 DEF SetLevel, Return, Remember
<1>8. CASE StoreArmedLevel
  BY <1>8 DEF StoreArmedLevel, history
<1>9. CASE StoreAt
  BY <1>9 DEF StoreAt, history
<1>10. CASE Arm
  BY <1>10 DEF Arm, Return, Remember
<1>11. CASE CloseBegin
  BY <1>11 DEF CloseBegin, history
<1>12. CASE CloseJoin
  BY <1>12 DEF CloseJoin, history
<1>13. CASE CloseLine
  BY <1>13 DEF CloseLine, history
<1>15. CASE Memory
  BY <1>15 DEF Memory, DisarmSeen, caller, history
<1>14. CASE Call
  <2>1. \A on \in BOOLEAN : GateTick(on) => HonouredAt(g)'
    BY <1>1 DEF GateTick
  <2> QED
    BY <1>1, <1>2, <1>3, <1>4, <1>14, <2>1 DEF Call, CallLibrary
<1> QED
  BY <1>5, <1>6, <1>7, <1>8, <1>9, <1>10, <1>11, <1>12, <1>13, <1>14, <1>15
  DEF Step, Close

\* Every step keeps the clean requests honoured or on their way.
LEMMA HonouredStep ==
  ASSUME TypeOK, Calling, Honoured, [Next]_vars PROVE Honoured'
<1>1. CASE Tick \/ Sampler
  <2>1. \A g \in Gates : clean'[g] => clean[g]
    BY <1>1, SamplerForgets
  <2>2. snow' <= now'
    BY <1>1 DEF Honoured, TypeOK, Tick, Sampler, SamplerOnly, BeginPass, LeaveLoop,
       LoadArmed, LoadAt, LoadArmedLevel, Fire, ClearArmed, LoadWant, Apply, sampler
  <2> QED
    BY <1>1, <2>1, <2>2, HonouredSampler DEF Honoured
<1>2. CASE Call \/ Step \/ Memory \/ Close
  <2>1. UNCHANGED <<now, snow>>
    BY <1>2, CallFrame DEF Memory, DisarmSeen, Close, CloseBegin, CloseJoin, CloseLine, CallerOnly,
       sampler
  <2> QED
    BY <1>2, <2>1, HonouredCaller DEF Honoured
<1>3. CASE UNCHANGED vars
  BY <1>3 DEF vars, shared, sampler, caller, history, Honoured, HonouredAt, Pending, Done,
     OutOfReach, Between, Busy, Pends, Promoting
<1> QED
  BY <1>1, <1>2, <1>3 DEF Next

-----------------------------------------------------------------------------
\* The sampling thread's steps keep a gate bound for the level of its signal.
LEMMA FollowsSampler ==
  ASSUME TypeOK, Follows, Tick \/ Sampler, NEW g \in Gates, NEW v \in signal'[g]
  PROVE  FollowsTo(g, v)'
<1> USE DEF TypeOK, FollowsTo, Bound, OutOfReach, Between, Busy, Pends, Promoting, SamplerOnly,
            Unseen
<1> FollowsTo(g, v)
  BY SamplerForgets DEF Follows
<1>1. CASE Tick
  BY <1>1 DEF Tick, shared, sampler, caller, history
<1>2. CASE BeginPass
  BY <1>2 DEF BeginPass, caller, history
<1>3. CASE LeaveLoop
  BY <1>3 DEF LeaveLoop, caller, history
<1>4. CASE LoadArmed
  BY <1>4, NextGateType DEF LoadArmed, caller, history
<1>5. CASE LoadAt
  BY <1>5, NextGateType DEF LoadAt, caller, history
<1>6. CASE LoadArmedLevel
  BY <1>6 DEF LoadArmedLevel, caller, history
<1>7. CASE Fire
  BY <1>7 DEF Fire, caller, history
<1>8. CASE ClearArmed
  BY <1>8, NextGateType DEF ClearArmed, caller, history
<1>9. CASE LoadWant
  BY <1>9 DEF LoadWant, caller, history
<1>10. CASE Apply
  BY <1>10 DEF Apply, caller, history
<1> QED
  BY <1>1, <1>2, <1>3, <1>4, <1>5, <1>6, <1>7, <1>8, <1>9, <1>10 DEF Sampler

\* The calls' steps keep a gate bound for the level of its signal.
LEMMA FollowsCaller ==
  ASSUME TypeOK, Calling, Follows, Call \/ Step \/ Memory \/ Close, NEW g \in Gates, NEW v \in signal'[g]
  PROVE  FollowsTo(g, v)'
<1> USE DEF TypeOK, Calling, FollowsTo, Bound, OutOfReach, Between, Busy, Pends, Promoting,
            CallerOnly, sampler, shared
<1> v \in signal[g] => FollowsTo(g, v)
  BY DEF Follows
<1>1. ASSUME NEW h \in Gates, NEW on \in BOOLEAN, CallSet(h, on), Unknown(h)
      PROVE  FollowsTo(g, v)'
  <2>1. g # h /\ v \in signal[g]
    BY <1>1 DEF Unknown
  <2> QED
    BY <1>1, <2>1 DEF CallSet, Request
<1>2. ASSUME NEW h \in Gates, NEW on \in BOOLEAN, NEW t \in 1 .. MaxTime, CallSetAt(h, on, t)
      PROVE  FollowsTo(g, v)'
  <2>1. g # h /\ v \in signal[g]
    BY <1>2 DEF CallSetAt, Unknown
  <2> QED
    BY <1>2, <2>1 DEF CallSetAt, Request
<1>3. ASSUME NEW h \in Gates, NEW in \in [1 .. Frames -> BOOLEAN], Frames > 0,
             CallBlock(h, now, in)
      PROVE  FollowsTo(g, v)'
  <2>1. CASE g = h
    <3>1. signal' = [signal EXCEPT ![g] = IF Settled(g) THEN {in[Frames]} ELSE {}]
      BY <1>3, <2>1 DEF CallBlock
    <3>2. Settled(g) /\ v = in[Frames]
      BY <3>1, Zenon
    <3>3. cpc' = "block" /\ cg' = g /\ cur' = level[g]
          /\ UNCHANGED <<armed, armedLevel, level, sg, spc, slvl>>
      BY <1>3, <2>1 DEF CallBlock
    <3>4. samples'[Len(samples')][2] = v
      BY <1>3, <3>2, FramesAssumption DEF CallBlock
    <3> QED
      BY <3>2, <3>3, <3>4 DEF Settled
  <2>2. CASE g # h
    <3>1. v \in signal[g]
      BY <1>3, <2>2 DEF CallBlock
    <3> QED
      BY <1>3, <2>2, <3>1 DEF CallBlock
  <2> QED
    BY <2>1, <2>2
<1>4. ASSUME NEW c \in Gates, GateChan(c) PROVE FollowsTo(g, v)'
  <2>1. v \in signal[g]
    BY <1>4 DEF GateChan, Unknown
  <2> QED
    BY <1>4, <2>1 DEF GateChan, caller
<1>5. ASSUME NEW on \in BOOLEAN, GateTick(on) PROVE FollowsTo(g, v)'
  <2>1. CASE g = uchan
    <3>1. v = on
      BY <1>5, <2>1 DEF GateTick
    <3> QED
      BY <1>5, <2>1, <3>1 DEF GateTick, CallSet, Request
  <2>2. CASE g # uchan
    <3>1. v \in signal[g]
      BY <1>5, <2>2 DEF GateTick
    <3> QED
      BY <1>5, <2>2, <3>1 DEF GateTick, CallSet, Request
  <2> QED
    BY <2>1, <2>2
<1>6. CASE BlockFrame
  <2>1. v \in signal[g] /\ samples # <<>> /\ cpc = "block"
    BY <1>6 DEF BlockFrame, history
  <2> DEFINE rest == Tail(samples)
  <2>2. samples \in Seq(Nat \X BOOLEAN)
    OBVIOUS
  <2>3. /\ Len(samples) \in Nat \ {0} /\ rest \in Seq(Nat \X BOOLEAN)
        /\ Len(rest) = Len(samples) - 1
        /\ \A i \in 1 .. Len(rest) : rest[i] = samples[i + 1]
    BY <2>1, <2>2, EmptySeq, HeadTailProperties
  <2>4. Head(samples) = samples[1]
    BY <2>1, <2>2
  <2>5. rest = <<>> <=> Len(samples) = 1
    <3>1. rest # <<>> => Len(rest) \in Nat \ {0}
      BY <2>3, EmptySeq
    <3>2. Len(<<>>) = 0
      OBVIOUS
    <3> HIDE DEF rest
    <3> QED
      BY <2>3, <3>1, <3>2, SMTT(30)
  <2>6. rest # <<>> => rest[Len(rest)] = samples[Len(samples)]
    BY <2>3, <2>5
  <2>7. samples' = rest /\ UNCHANGED <<level, armed, armedLevel, late, spc, sg, slvl, signal>>
    BY <1>6 DEF BlockFrame, history
  <2> HIDE DEF rest
  <2>8. CASE g # cg
    BY <1>6, <2>1, <2>7, <2>8 DEF BlockFrame, Request
  <2>9. CASE g = cg /\ samples[1][2] # cur
    <3>1. cpc' = "disarm" /\ cg' = g /\ con' = samples[1][2] /\ cur' = samples[1][2]
      BY <1>6, <2>4, <2>9 DEF BlockFrame, Request
    <3>2. samples[Len(samples)][2] = v
      BY <2>1, <2>9
    <3> QED
      BY <2>3, <2>5, <2>6, <2>7, <3>1, <3>2
  <2>10. CASE g = cg /\ samples[1][2] = cur
    <3>1. cpc' = (IF Len(samples) = 1 THEN "idle" ELSE "block") /\ UNCHANGED <<cg, con, cur>>
      BY <1>6, <2>4, <2>10 DEF BlockFrame
    <3>2. samples[Len(samples)][2] = v /\ Bound(g, cur)
      BY <2>1, <2>10
    <3> QED
      BY <2>3, <2>5, <2>6, <2>7, <2>10, <3>1, <3>2
  <2> QED
    BY <2>8, <2>9, <2>10
<1>7. CASE Disarm
  <2>1. v \in signal[g] /\ (g = cg => ~ Promoting(cg))
    BY <1>7 DEF Disarm, Unknown
  <2> QED
    BY <1>7, <2>1 DEF Disarm
<1>8. CASE SetLevel
  BY <1>8 DEF SetLevel, Return, Remember
<1>9. CASE StoreArmedLevel
  BY <1>9 DEF StoreArmedLevel, history
<1>10. CASE StoreAt
  BY <1>10 DEF StoreAt, history
<1>11. CASE Arm
  BY <1>11 DEF Arm, Return, Remember
<1>12. CASE CloseBegin
  BY <1>12 DEF CloseBegin, history
<1>13. CASE CloseJoin
  BY <1>13 DEF CloseJoin, history
<1>14. CASE CloseLine
  BY <1>14 DEF CloseLine, history
<1>15. CASE Call
  BY <1>1, <1>2, <1>3, <1>4, <1>5, <1>15, SMTT(30) DEF Call, CallLibrary
<1>16. CASE Memory
  BY <1>16 DEF Memory, DisarmSeen, caller, history
<1> QED
  BY <1>6, <1>7, <1>8, <1>9, <1>10, <1>11, <1>12, <1>13, <1>14, <1>15, <1>16 DEF Step, Close

\* Every step keeps the gates bound for the levels of their signals.
LEMMA FollowsStep ==
  ASSUME TypeOK, Calling, Follows, [Next]_vars PROVE Follows'
<1>1. CASE Tick \/ Sampler
  <2>1. \A g \in Gates : signal'[g] \subseteq signal[g]
    BY <1>1, SamplerForgets
  <2> QED
    BY <1>1, <2>1, FollowsSampler DEF Follows
<1>2. CASE Call \/ Step \/ Memory \/ Close
  BY <1>2, FollowsCaller DEF Follows
<1>3. CASE UNCHANGED vars
  BY <1>3 DEF vars, shared, sampler, caller, history, Follows, FollowsTo, Bound,
     OutOfReach, Between, Busy, Pends, Promoting
<1> QED
  BY <1>1, <1>2, <1>3 DEF Next

-----------------------------------------------------------------------------
\* The invariant holds for any number of gates, calls and frames of a block.
THEOREM Invariance == Spec => []IInv
<1>1. Init => IInv
  <2> SUFFICES ASSUME Init PROVE IInv
    OBVIOUS
  <2>1. TypeOK
    BY TypeInit
  <2>2. Closing /\ Calling
    BY DEF Init, Closing, Calling
  <2>3. Honoured
    BY <2>1 DEF Init, Honoured, HonouredAt, Done, OutOfReach, Between, Pends, Promoting, TypeOK, Low
  <2>4. Follows
    BY <2>1 DEF Init, Follows
  <2> QED
    BY <2>1, <2>2, <2>3, <2>4 DEF IInv
<1>2. IInv /\ [Next]_vars => IInv'
  <2> SUFFICES ASSUME IInv, [Next]_vars PROVE IInv'
    OBVIOUS
  <2>1. TypeOK'
    BY TypeSampler, TypeCaller, ZenonT(40) DEF IInv, Next, TypeOK, vars, shared, sampler, caller, lines, ugen,
       history
  <2> QED
    BY <2>1, ClosingStep, CallingStep, HonouredStep, FollowsStep DEF IInv
<1> QED
  BY <1>1, <1>2, PTL DEF Spec

\* A request is honoured unless a promotion of its gate overlaps its disarming: it is
\* under way when the request begins, or begins before the disarm has reached memory.
\* For any number of gates and calls (tt_core.c:690-712 against 131-146).
THEOREM RequestsHonoured == Spec => []CleanRequestsHonoured
<1>1. IInv => CleanRequestsHonoured
  BY DEF IInv, TypeOK, Honoured, HonouredAt, Pending, Done, CleanRequestsHonoured
<1> QED
  BY <1>1, Invariance, PTL

\* Once tt_close has returned the sampling thread is gone and every line that took what
\* was written to it is low.
THEOREM QuietAfterClose == Spec => []ClosedIsQuiet
<1>1. IInv => ClosedIsQuiet
  <2> SUFFICES ASSUME IInv, cpc = "closed", ~ refused PROVE spc = "exited" /\ hw = Low
    BY DEF ClosedIsQuiet, IInv, Closing
  <2>1. spc = "exited" /\ hw \in [Gates -> BOOLEAN] /\ \A g \in Gates : hw[g] = FALSE
    BY DEF IInv, Closing, TypeOK
  <2> QED
    BY <2>1 DEF Low
<1> QED
  BY <1>1, Invariance, PTL

\* A gate ends where the signal that drives it ends, for blocks of any size: a gate
\* with no change pending when the block begins, on which the UGen was not moved since,
\* and whose requests no promotion of an earlier crossing overlapped.
THEOREM SignalFollowed == Spec => []GateFollowsSignal
<1>1. IInv => GateFollowsSignal
  BY DEF IInv, TypeOK, Follows, FollowsTo, Bound, GateFollowsSignal
<1> QED
  BY <1>1, Invariance, PTL
=============================================================================
