----------------------------- MODULE SampleThread ---------------------------
(***************************************************************************)
(* The sampling thread as control flow: the loop of sample_thread (src/    *)
(* src/tt_core.c:216-270) and, read by read, its backend's gpio_poll (src/ *)
(* src/hal_linux.c:255-299, src/src/hal_sim.c:73-77).  Lifecycle creates   *)
(* the thread, and joins it.                                               *)
(*                                                                         *)
(* The line descriptors of the Linux backend are used as the kernel hands  *)
(* them out: nothing sets O_NONBLOCK, so a read of a line with no edge     *)
(* queued waits for one.  Edges only count here; TriggerPath follows them. *)
(***************************************************************************)
EXTENDS Naturals, FiniteSetsExt

CONSTANTS
  NumIn,     \* d->n_in; the sim backend has one ring for all of them
  QueueMax,  \* edges the kernel queues per line, or the size of sim's ring
  BatchMax   \* TT_EVENT_BATCH

VARIABLES
  backend,  \* ctx->hal: "linux" or "sim"
  queued,   \* edges queued on each line
  spc,      \* the thread's next step; "none" while there is no thread
  ready,    \* the lines poll() found readable
  line, n,  \* i and n of lin_gpio_poll
  running   \* ctx->running

\* The queues edges wait in.
Lines == IF backend = "sim" THEN {1} ELSE 1 .. NumIn

\* An edge on line l (external: the kernel), or its injection by a test.
Edge(l) ==
  /\ queued[l] < QueueMax
  /\ queued' = [queued EXCEPT ![l] = @ + 1]
  /\ UNCHANGED <<backend, spc, ready, line, n, running>>

Loop ==
  /\ spc = "loop"
  /\ spc' = IF running THEN "scan" ELSE "exited"
  /\ UNCHANGED <<backend, queued, ready, line, n, running>>

\* The ADC scan and its push.
Scan ==
  /\ spc = "scan"
  /\ spc' = "poll"
  /\ UNCHANGED <<backend, queued, ready, line, n, running>>

\* poll() with a zero timeout; sim drains its ring without asking.
Poll ==
  /\ spc = "poll"
  /\ ready' = IF backend = "sim" THEN Lines ELSE {l \in Lines : queued[l] > 0}
  /\ n' = 0
  /\ IF ready' = {} THEN spc' = "gates" /\ UNCHANGED line
                    ELSE spc' = "read" /\ line' = Min(ready')
  /\ UNCHANGED <<backend, queued, running>>

Read ==
  /\ spc = "read" /\ n < BatchMax
  /\ queued[line] > 0
  /\ queued' = [queued EXCEPT ![line] = @ - 1]
  /\ n' = n + 1
  /\ UNCHANGED <<backend, spc, ready, line, running>>

\* A bug: an empty line is waited for, whatever the backend.
Mutant_LineDone ==
  /\ spc = "read"
  /\ n = BatchMax
  /\ spc' = "events"
  /\ UNCHANGED <<backend, queued, ready, line, n, running>>

\* The batch is full; or the line is empty and reading it returns at once, as a
\* pop of sim's ring does.
LineDone ==
  /\ spc = "read"
  /\ n = BatchMax \/ (backend = "sim" /\ queued[line] = 0)
  /\ LET left == {l \in ready : l > line} IN
     IF n = BatchMax \/ left = {}
     THEN /\ spc' = IF n = 0 THEN "gates" ELSE "events"
          /\ UNCHANGED line
     ELSE line' = Min(left) /\ UNCHANGED spc
  /\ UNCHANGED <<backend, queued, ready, n, running>>

\* The rest of handle_events: the rings.
Handle ==
  /\ spc = "events"
  /\ spc' = "gates"
  /\ UNCHANGED <<backend, queued, ready, line, n, running>>

\* apply_gates, and the sleep until the next scan is due.
GatesAndSleep ==
  /\ spc = "gates"
  /\ spc' = "loop"
  /\ UNCHANGED <<backend, queued, ready, line, n, running>>

Thread == Loop \/ Scan \/ Poll \/ Read \/ LineDone \/ Handle \/ GatesAndSleep
=============================================================================
