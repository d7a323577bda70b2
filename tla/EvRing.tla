------------------------------- MODULE EvRing -------------------------------
(***************************************************************************)
(* The event queue of src/src/tt_ring.c:112-171: a single-producer (the    *)
(* sampling thread), single-consumer bounded FIFO.  head and tail are      *)
(* free-running uint32_t counters that wrap; a slot is addressed by the    *)
(* counter's low bits.  The slots are plain memory, so the protocol must   *)
(* also keep the two threads out of the same slot.                         *)
(*                                                                         *)
(* Every load and store of a shared word is a step of its own.  The code's *)
(* release stores and acquire loads make the interleaving of these steps   *)
(* the whole story.                                                        *)
(***************************************************************************)
EXTENDS Naturals, Sequences

CONSTANTS
  EvSize,    \* r->size, a power of two
  Width,     \* the range of the counters: 2^32 in the code
  MaxOffers  \* bound on the events offered

ASSUME EvSizeAssumption  == EvSize \in Nat /\ EvSize >= 1
ASSUME WidthAssumption  == Width \in Nat /\ Width > EvSize /\ Width % EvSize = 0

VARIABLES
  buf,      \* r->buf: the number of the event in each slot
  head,     \* r->head
  tail,     \* r->tail
  dropped,  \* r->dropped
  ppc,      \* the producer's place in tt_evring_push
  cpc,      \* the consumer's place in tt_evring_pop
  cell,     \* *ev of the pop under way
  offered,  \* events given to tt_evring_push so far: the number of the latest
  accepted, \* those whose push has returned 0, in order
  popped    \* those whose pop has returned 1, in order

evProducer == <<buf, head, dropped, ppc, offered, accepted>>
evConsumer == <<tail, cpc, cell, popped>>
evVars == <<evProducer, evConsumer>>

Empty == 0                          \* a slot calloc has zeroed
EvSlotOf(i) == i % EvSize           \* i & r->mask

Successor(i) == (i + 1) % Width     \* unsigned increment

\* h - t of two counters, as unsigned subtraction gives it.
Used(h, t) == (h + Width - t) % Width

Mutant_Full(h, t) == Used(h, t) > EvSize
Full(h, t) == Used(h, t) >= EvSize

EvInit ==
  /\ buf = [s \in 0 .. EvSize - 1 |-> Empty]
  /\ head = 0 /\ tail = 0 /\ dropped = 0
  /\ ppc = "idle" /\ cpc = "idle"
  /\ cell = Empty
  /\ offered = 0 /\ accepted = <<>> /\ popped = <<>>

-----------------------------------------------------------------------------
(* tt_evring_push *)

\* Load both counters and decide.
PushBegin ==
  /\ ppc = "idle"
  /\ offered < MaxOffers
  /\ offered' = offered + 1
  /\ ppc' = IF Full(head, tail) THEN "full" ELSE "store"
  /\ UNCHANGED <<buf, head, dropped, accepted, evConsumer>>

\* A bug: a full queue refuses the event without counting it.
Mutant_PushDrop ==
  /\ ppc = "full"
  /\ ppc' = "idle"
  /\ UNCHANGED <<buf, head, dropped, offered, accepted, evConsumer>>

PushDrop ==
  /\ ppc = "full"
  /\ dropped' = dropped + 1
  /\ ppc' = "idle"
  /\ UNCHANGED <<buf, head, offered, accepted, evConsumer>>

PushStore ==
  /\ ppc = "store"
  /\ buf' = [buf EXCEPT ![EvSlotOf(head)] = offered]
  /\ ppc' = "publish"
  /\ UNCHANGED <<head, dropped, offered, accepted, evConsumer>>

PushPublish ==
  /\ ppc = "publish"
  /\ head' = Successor(head)
  /\ accepted' = Append(accepted, offered)
  /\ ppc' = "idle"
  /\ UNCHANGED <<buf, dropped, offered, evConsumer>>

-----------------------------------------------------------------------------
(* tt_evring_pop, called once per event by tt_evring_drain.  A pop that finds *)
(* the queue empty returns 0 and changes nothing.                             *)

PopBegin ==
  /\ cpc = "idle"
  /\ tail # head
  /\ cpc' = "read"
  /\ UNCHANGED <<evProducer, tail, cell, popped>>

PopRead ==
  /\ cpc = "read"
  /\ cell' = buf[EvSlotOf(tail)]
  /\ cpc' = "advance"
  /\ UNCHANGED <<evProducer, tail, popped>>

PopAdvance ==
  /\ cpc = "advance"
  /\ tail' = Successor(tail)
  /\ popped' = Append(popped, cell)
  /\ cpc' = "idle"
  /\ UNCHANGED <<evProducer, cell>>

-----------------------------------------------------------------------------
EvPush == PushBegin \/ PushDrop \/ PushStore \/ PushPublish
EvPop  == PopBegin \/ PopRead \/ PopAdvance
EvNext == EvPush \/ EvPop

EvSpec == EvInit /\ [][EvNext]_evVars

\* Both threads run on: the sampling thread finishes the push it is in, and the
\* consumer drains the queue once per block.
EvFairSpec == EvSpec /\ WF_evVars(PushDrop \/ PushStore \/ PushPublish) /\ WF_evVars(EvPop)

-----------------------------------------------------------------------------
(* Correctness *)

\* Type invariant.
EvTypeOK ==
  /\ buf \in [0 .. EvSize - 1 -> Nat]
  /\ head \in 0 .. Width - 1
  /\ tail \in 0 .. Width - 1
  /\ dropped \in Nat
  /\ ppc \in {"idle", "full", "store", "publish"}
  /\ cpc \in {"idle", "read", "advance"}
  /\ cell \in Nat
  /\ offered \in Nat
  /\ accepted \in Seq(Nat)
  /\ popped \in Seq(Nat)

\* The producer is never about to write the slot the consumer is about to read:
\* the plain accesses of tt_ring.c:145 and :156 do not race.
SlotsNotShared == ~ (ppc = "store" /\ cpc = "read" /\ EvSlotOf(head) = EvSlotOf(tail))

\* Exactly once and in order (tt_ring.h:13-14): the events popped are the first
\* ones accepted, across any number of wraps of the counters.
ExactlyOnceInOrder ==
  /\ Len(popped) <= Len(accepted)
  /\ \A i \in 1 .. Len(popped) : popped[i] = accepted[i]

Queue == INSTANCE EvQueue WITH
  Capacity <- EvSize,
  queue    <- SubSeq(accepted, Len(popped) + 1, Len(accepted)),
  settled  <- offered - (IF ppc \in {"store", "publish"} THEN 1 ELSE 0),
  lost     <- dropped + (IF ppc = "full" THEN 1 ELSE 0),
  taken    <- popped

\* The ring implements the abstract queue: it refuses an event only when it holds
\* EvSize of them, and every event it accepts is delivered if the consumer calls.
ImplementsQueue == Queue!QSpec
=============================================================================
