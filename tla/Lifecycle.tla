------------------------------ MODULE Lifecycle -----------------------------
(***************************************************************************)
(* Opening and closing the hardware: tt_open and tt_close (src/src/        *)
(* tt_core.c:276-393), the backends' open and close (src/src/hal_linux.c:  *)
(* 337-404, src/src/hal_sim.c:26-58), composed with the sampling thread    *)
(* that uses what they acquire and release, and with the programs that     *)
(* hold the context: Pd and ChucK objects that count references, Csound    *)
(* opcodes until the reset, the JACK client's main.                        *)
(*                                                                         *)
(* Every acquisition may fail.  Objects are made, run and freed by one     *)
(* thread of the host; the sampling thread runs beside it, and JACK's      *)
(* process thread while the client is active.                              *)
(***************************************************************************)
EXTENDS Naturals, Sequences, FiniteSets, SequencesExt

CONSTANTS
  Objects,   \* [tedium~] objects, ChucK UGens or Csound opcodes; JACK has one
  NumIn,     \* input lines: num_triggers + num_buttons
  NumGates,  \* output lines
  QueueMax,  \* bound on the edges queued on a line
  BatchMax,  \* TT_EVENT_BATCH
  Backends,  \* the backends a run may open: "linux", "sim"
  Bindings   \* the programs: "refs" (Pd, ChucK), "reset" (Csound), "jack"

ASSUME ObjectsAssumption  == IsFiniteSet(Objects)
ASSUME NumInAssumption    == NumIn \in Nat /\ NumIn >= 1
ASSUME NumGatesAssumption == NumGates \in Nat
ASSUME BatchAssumption    == BatchMax \in Nat /\ BatchMax >= 1
ASSUME BackendAssumption  == Backends \subseteq {"linux", "sim"}
ASSUME BindingAssumption  == Bindings \subseteq {"refs", "reset", "jack"}

VARIABLES
  binding,    \* which program it is
  pc, k,      \* its main thread: what it is doing, and its next step in it
  held,       \* the resources acquired and not released
  g_ctx,      \* there is a context, for the binding
  g_refs,     \* its reference count
  obj,        \* what each object got
  maker,      \* the object being made, while the context opens for it
  client,     \* the JACK client
  audio,      \* JACK's thread is in process()
  backend, queued, spc, ready, line, n, running   \* see SampleThread

host    == <<binding, pc, k, held, g_ctx, g_refs, obj, maker>>
jack    == <<client, audio>>
sampler == <<queued, spc, ready, line, n>>
vars    == <<host, jack, backend, running, sampler>>

ST == INSTANCE SampleThread

Inputs == [i \in 1 .. NumIn |-> <<"in", i>>]
Gates  == [i \in 1 .. NumGates |-> <<"gate", i>>]
Rings  == <<<<"cv", 0>>, <<"ev", 0>>, <<"tev", 0>>>>
Thread == <<"thread", 0>>

\* lin_open and sim_open.
Device ==
  IF backend = "sim" THEN <<<<"dev", 0>>, <<"in", 1>>>>
  ELSE <<<<"dev", 0>>, <<"spi", 0>>, <<"chip", 0>>>> \o Inputs \o Gates

\* What tt_open acquires, in order.
Order == <<<<"ctx", 0>>>> \o Rings \o Device \o <<Thread>>
All   == ToSet(Order)

\* Edges queue up while their line is requested, or sim's ring is there.
Listening == {l \in ST!Lines : <<"in", l>> \in held}
Empty     == [l \in ST!Lines |-> 0]

Init ==
  /\ binding \in Bindings /\ backend \in Backends
  /\ pc = "idle" /\ k = 1 /\ held = {} /\ running = FALSE
  /\ spc = "none" /\ queued = Empty /\ ready = {} /\ line = 1 /\ n = 0
  /\ g_ctx = FALSE /\ g_refs = 0 /\ obj = [o \in Objects |-> "none"]
  /\ maker \in Objects
  /\ client = "none" /\ audio = FALSE

-----------------------------------------------------------------------------
(* tt_open, called by an object that found no context *)

Acquire ==
  /\ pc = "open"
  /\ held' = held \cup {Order[k]}
  /\ IF Order[k] = Thread THEN running' = TRUE /\ spc' = "loop"
                          ELSE UNCHANGED <<running, spc>>
  /\ IF k < Len(Order)
     THEN k' = k + 1 /\ UNCHANGED <<pc, g_ctx, g_refs, obj>>
     ELSE /\ pc' = "idle" /\ k' = 1
          /\ g_ctx' = TRUE /\ g_refs' = 1 /\ obj' = [obj EXCEPT ![maker] = "live"]
  /\ UNCHANGED <<binding, maker, jack, backend, queued, ready, line, n>>

\* A bug: the ring a step was added for is left out of the earlier clean-up.
Mutant_CleanUp(r) ==
  CASE r \in ToSet(Rings) -> ToSet(Rings) \cup {<<"ctx", 0>>}
    [] r \in ToSet(Device) \cup {Thread} -> All \ {<<"tev", 0>>}
    [] OTHER -> {}

\* What is released when acquiring r fails: the backend's open takes back what it
\* had got so far, tt_open's clean-up the rings before it.
CleanUp(r) ==
  CASE r \in ToSet(Rings) -> ToSet(Rings) \cup {<<"ctx", 0>>}
    [] r \in ToSet(Device) -> ToSet(Device) \cup ToSet(Rings) \cup {<<"ctx", 0>>}
    [] r = Thread -> All
    [] OTHER -> {}

\* The object stays without a context, silent.
OpenFails ==
  /\ pc = "open"
  /\ held' = held \ CleanUp(Order[k])
  /\ queued' = Empty
  /\ pc' = "idle" /\ k' = 1
  /\ obj' = [obj EXCEPT ![maker] = "silent"]
  /\ UNCHANGED <<binding, g_ctx, g_refs, maker, jack, backend, running>>
  /\ UNCHANGED <<spc, ready, line, n>>

-----------------------------------------------------------------------------
(* tt_close *)

\* What is released once the thread has been joined, in order: the backend's close,
\* then the rings.
CloseOrder ==
  (IF backend = "sim" THEN <<<<"in", 1>>, <<"dev", 0>>>>
   ELSE Inputs \o Gates \o <<<<"chip", 0>>, <<"spi", 0>>, <<"dev", 0>>>>)
    \o Reverse(Rings) \o <<<<"ctx", 0>>>>

CloseBegin ==
  /\ running' = FALSE
  /\ pc' = "join" /\ k' = 1

\* A bug: the thread is not waited for.
Mutant_Join ==
  /\ pc = "join"
  /\ held' = held \ {Thread}
  /\ pc' = "close"
  /\ UNCHANGED <<binding, k, g_ctx, g_refs, obj, maker, jack, backend, running, sampler>>

\* pthread_join; then the gates are driven low.
Join ==
  /\ pc = "join" /\ spc = "exited"
  /\ spc' = "none" /\ held' = held \ {Thread}
  /\ pc' = "close"
  /\ UNCHANGED <<binding, k, g_ctx, g_refs, obj, maker, jack, backend, running>>
  /\ UNCHANGED <<queued, ready, line, n>>

Release ==
  /\ pc = "close"
  /\ held' = held \ {CloseOrder[k]}
  /\ queued' = [l \in ST!Lines |-> IF CloseOrder[k] = <<"in", l>> THEN 0 ELSE queued[l]]
  /\ IF k < Len(CloseOrder)
     THEN k' = k + 1 /\ UNCHANGED <<pc, g_ctx, g_refs>>
     ELSE pc' = "idle" /\ k' = 1 /\ g_ctx' = FALSE /\ g_refs' = 0
  /\ UNCHANGED <<binding, obj, maker, jack, backend, running, spc, ready, line, n>>

-----------------------------------------------------------------------------
(* The bindings *)

\* shared_acquire, ted_acquire, ted_open; JACK's main opens once.
New(o) ==
  /\ pc = "idle" /\ obj[o] = "none"
  /\ binding = "jack" => \A p \in Objects : obj[p] = "none"
  /\ maker' = o
  /\ IF g_ctx
     THEN obj' = [obj EXCEPT ![o] = "live"] /\ g_refs' = g_refs + 1 /\ UNCHANGED pc
     ELSE pc' = "open" /\ UNCHANGED <<g_refs, obj>>
  /\ UNCHANGED <<binding, k, held, g_ctx, jack, backend, running, sampler>>

\* shared_release, ted_release: an object without a context takes no part.
Free(o) ==
  /\ binding = "refs"
  /\ pc = "idle" /\ obj[o] \in {"live", "silent"}
  /\ obj' = [obj EXCEPT ![o] = "none"]
  /\ IF obj[o] = "silent" THEN UNCHANGED <<pc, k, running, g_refs>>
     ELSE /\ g_refs' = g_refs - 1
          /\ IF g_refs - 1 <= 0 THEN CloseBegin ELSE UNCHANGED <<pc, k, running>>
  /\ UNCHANGED <<binding, held, g_ctx, maker, jack, backend, sampler>>

\* A bug: opcodes keep the context they were given.
Mutant_Reset ==
  /\ binding = "reset"
  /\ pc = "idle"
  /\ IF g_ctx THEN CloseBegin ELSE UNCHANGED <<pc, k, running>>
  /\ UNCHANGED <<binding, held, g_ctx, g_refs, obj, maker, jack, backend, sampler>>

\* ted_reset: the context goes whatever opcodes there are; they look for it at
\* each call, and a new performance makes its own.
Reset ==
  /\ binding = "reset"
  /\ pc = "idle"
  /\ obj' = [o \in Objects |-> "none"]
  /\ IF g_ctx THEN CloseBegin ELSE UNCHANGED <<pc, k, running>>
  /\ UNCHANGED <<binding, held, g_ctx, g_refs, maker, jack, backend, sampler>>

-----------------------------------------------------------------------------
(* The JACK client's main and process(); the server is external *)

\* Connecting, registering ports and activating: the client that fails at one of
\* them is closed, and the context with it.
JackStep ==
  /\ binding = "jack" /\ pc = "idle" /\ g_ctx
  /\ \/ client = "none" /\ client' = "open" /\ UNCHANGED <<pc, k, obj, running>>
     \/ client = "open" /\ client' = "active" /\ UNCHANGED <<pc, k, obj, running>>
     \/ /\ client \in {"none", "open"} /\ client' = "none"
        /\ obj' = [obj EXCEPT ![maker] = "silent"] /\ CloseBegin
  /\ UNCHANGED <<binding, held, g_ctx, g_refs, maker, audio, backend, sampler>>

\* A signal or the server's shutdown sets g_quit.  jack_deactivate comes back when
\* no process() is running.
JackQuit ==
  /\ client = "active" /\ pc = "idle" /\ ~ audio
  /\ client' = "none"
  /\ obj' = [obj EXCEPT ![maker] = "silent"] /\ CloseBegin
  /\ UNCHANGED <<binding, held, g_ctx, g_refs, maker, audio, backend, sampler>>

Process ==
  /\ client = "active"
  /\ audio' = ~ audio
  /\ UNCHANGED <<host, client, backend, running, sampler>>

-----------------------------------------------------------------------------

Main == Acquire \/ OpenFails \/ Join \/ Release \/ Reset \/ JackStep \/ JackQuit
        \/ \E o \in Objects : New(o) \/ Free(o)

Sample == ST!Thread /\ UNCHANGED <<host, jack>>
Edge   == (\E l \in Listening : ST!Edge(l)) /\ UNCHANGED <<host, jack>>

Next == Main \/ Process \/ Sample \/ Edge

\* The threads run on and a close that has begun goes on; nobody has to press a
\* button, or to close anything.
Spec == Init /\ [][Next]_vars /\ WF_vars(Sample) /\ WF_vars(Join \/ Release)

-----------------------------------------------------------------------------
(* Correctness *)

\* Between two calls everything is held or nothing is, whichever acquisition
\* failed and however often the context was closed and opened again.
AllOrNothing == pc = "idle" => held = IF g_ctx THEN All ELSE {}

\* What a step of the sampling thread, or a process(), works with.
UsedAt(step) ==
  {<<"ctx", 0>>} \cup
  CASE step = "scan" -> ToSet(Device) \cup {<<"cv", 0>>}
    [] step \in {"poll", "read", "gates"} -> ToSet(Device)
    [] step = "events" -> {<<"ev", 0>>, <<"tev", 0>>}
    [] OTHER -> {}

\* The sampling thread never uses the device or the rings once they are released,
\* nor does process() the context that main closes.
NoUseAfterRelease ==
  /\ spc \notin {"none", "exited"} => UsedAt(spc) \subseteq held
  /\ audio => ToSet(Rings) \cup {<<"ctx", 0>>} \subseteq held

\* An object that got the context has it for as long as it lives, and the context
\* is closed with the last of them (tedium~.c:28-30).
ContextOutlivesObjects ==
  pc = "idle" => /\ (\E o \in Objects : obj[o] = "live") => g_ctx
                 /\ binding = "refs" =>
                      g_refs = Cardinality({o \in Objects : obj[o] = "live"})

\* Edges keep coming on every line until the thread has been joined.
EdgesWhileJoining ==
  \A l \in 1 .. NumIn : []<>(pc # "join" \/ (l \in Listening /\ queued[l] > 0))

\* A close that has begun is finished: with the sim backend always, with Linux as
\* long as no line falls silent.
CloseFinishes ==
  (backend = "sim" \/ EdgesWhileJoining) => ((pc = "join") ~> (pc = "idle"))

\* tt_hal.h:10-11, "must not block": the thread comes back to its loop for ever.
ScansContinue == []<>(spc \in {"none", "loop", "exited"})
=============================================================================
