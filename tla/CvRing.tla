------------------------------- MODULE CvRing -------------------------------
(***************************************************************************)
(* The CV history ring of src/src/tt_ring.c: one producer (the sampling    *)
(* thread) that overwrites forever, any number of readers that fetch a     *)
(* scan by its absolute index and find out afterwards whether the producer *)
(* lapped them.                                                            *)
(*                                                                         *)
(* A slot is copied word by word (the time stamp and each channel are      *)
(* separate relaxed atomics), so pushes and gets interleave inside a slot. *)
(* A word is represented by the absolute index of the scan that wrote it:  *)
(* a get returned scan idx exactly when every word it copied is idx.       *)
(*                                                                         *)
(* The data stores of a push may become visible to a reader before the     *)
(* widx store of the push before it: a release store orders what precedes  *)
(* it, not what follows.  Slack is how many pushes the index that readers  *)
(* see may lag: none on x86, which keeps stores in order; one on the Armv7 *)
(* of the board, where a release store is a dmb and a store, and the dmb   *)
(* of the next push waits for it.  C11 alone sets no limit.                *)
(***************************************************************************)
EXTENDS Integers

CONSTANTS
  Size,      \* r->size, the number of slots
  Words,     \* the words of a slot: t_ns and raw[0 .. TT_MAX_CV - 1]
  Readers,   \* threads that call tt_cvring_get
  MaxScans,  \* bound on the scans pushed
  Slack      \* how many pushes the visible widx may lag behind the producer's

\* A power of two, at least 64, in the code: the properties need two slots.
ASSUME SizeAssumption == Size \in Nat /\ Size >= 2
ASSUME MaxScansAssumption == MaxScans \in Nat
ASSUME SlackAssumption == Slack \in 0 .. Size - 1

VARIABLES
  slot,     \* r->buf as readers see it: which scan wrote each word
  widx,     \* r->widx as readers see it
  w,        \* index of the scan being pushed: the producer's own widx
  written,  \* words of scan w already stored
  rpc,      \* what each reader is doing
  ridx,     \* the index each reader asked for
  copied,   \* the words each reader has copied out of the slot
  seen      \* the widx each reader last loaded

vars == <<slot, widx, w, written, rpc, ridx, copied, seen>>

producer == <<slot, widx, w, written>>

Calloc == -1                           \* a word no push has written
Unread == -2                           \* a word of *out not copied yet
SlotOf(idx) == idx % Size              \* idx & r->mask, Size a power of two

Init ==
  /\ slot    = [s \in 0 .. Size - 1 |-> [k \in Words |-> Calloc]]
  /\ widx    = 0
  /\ w       = 0
  /\ written = {}
  /\ rpc     = [r \in Readers |-> "idle"]
  /\ ridx    = [r \in Readers |-> 0]
  /\ copied  = [r \in Readers |-> [k \in Words |-> Unread]]
  /\ seen    = [r \in Readers |-> 0]

-----------------------------------------------------------------------------
(* tt_cvring_push *)

\* A bug: the index is advertised with the first word, before the contents.
Mutant_StoreWordPublishes(k) ==
  /\ w < MaxScans
  /\ k \notin written
  /\ slot'    = [slot EXCEPT ![SlotOf(w)][k] = w]
  /\ written' = written \cup {k}
  /\ widx'    = w + 1
  /\ UNCHANGED <<w, rpc, ridx, copied, seen>>

\* One relaxed store of the slot; every word is stored, channels the board
\* lacks as zero.
StoreWord(k) ==
  /\ w < MaxScans
  /\ k \notin written
  /\ slot'    = [slot EXCEPT ![SlotOf(w)][k] = w]
  /\ written' = written \cup {k}
  /\ UNCHANGED <<widx, w, rpc, ridx, copied, seen>>

\* The release store of widx leaves the producer, which goes on to its next
\* push.  Readers see it at once, or up to Slack pushes late.
Publish ==
  /\ w < MaxScans
  /\ written = Words
  /\ w'       = w + 1
  /\ written' = {}
  /\ widx' \in {v \in widx .. w' : w' - v <= Slack}
  /\ UNCHANGED <<slot, rpc, ridx, copied, seen>>

\* A delayed widx store reaches the readers.
PublishVisible ==
  /\ widx' \in widx + 1 .. w
  /\ UNCHANGED <<slot, w, written, rpc, ridx, copied, seen>>

-----------------------------------------------------------------------------
(* tt_cvring_get *)

Lapped(count, idx) == count - idx > Size

\* The first two early returns: not written yet, already lapped.
GetReject(r, idx) ==
  /\ rpc[r] \in {"idle", "ok", "stale"}
  /\ idx >= widx \/ Lapped(widx, idx)
  /\ rpc'  = [rpc EXCEPT ![r] = "stale"]
  /\ ridx' = [ridx EXCEPT ![r] = idx]
  /\ seen' = [seen EXCEPT ![r] = widx]
  /\ copied' = [copied EXCEPT ![r] = [k \in Words |-> Unread]]
  /\ UNCHANGED producer

GetBegin(r, idx) ==
  /\ rpc[r] \in {"idle", "ok", "stale"}
  /\ idx < widx
  /\ ~ Lapped(widx, idx)
  /\ rpc'  = [rpc EXCEPT ![r] = "copy"]
  /\ ridx' = [ridx EXCEPT ![r] = idx]
  /\ seen' = [seen EXCEPT ![r] = widx]
  /\ copied' = [copied EXCEPT ![r] = [k \in Words |-> Unread]]
  /\ UNCHANGED producer

\* Relaxed loads of one slot: in any order.
GetWord(r, k) ==
  /\ rpc[r] = "copy"
  /\ copied[r][k] = Unread
  /\ copied' = [copied EXCEPT ![r][k] = slot[SlotOf(ridx[r])][k]]
  /\ UNCHANGED <<slot, widx, w, written, rpc, ridx, seen>>

\* A bug: the index is not loaded again after the copy.
Mutant_GetCheckOnce(r) ==
  /\ rpc[r] = "copy"
  /\ \A k \in Words : copied[r][k] # Unread
  /\ rpc'  = [rpc EXCEPT ![r] = "ok"]
  /\ UNCHANGED <<slot, widx, w, written, ridx, copied, seen>>

\* The fence and the second load of widx decide whether the copy stands.
GetCheck(r) ==
  /\ rpc[r] = "copy"
  /\ \A k \in Words : copied[r][k] # Unread
  /\ seen' = [seen EXCEPT ![r] = widx]
  /\ rpc'  = [rpc EXCEPT ![r] = IF Lapped(widx, ridx[r]) THEN "stale" ELSE "ok"]
  /\ UNCHANGED <<slot, widx, w, written, ridx, copied>>

-----------------------------------------------------------------------------
Push == (\E k \in Words : StoreWord(k)) \/ Publish \/ PublishVisible

Get(r) ==
  \/ \E idx \in 0 .. MaxScans : GetReject(r, idx) \/ GetBegin(r, idx)
  \/ \E k \in Words : GetWord(r, k)
  \/ GetCheck(r)

Next == Push \/ \E r \in Readers : Get(r)

Spec == Init /\ [][Next]_vars
-----------------------------------------------------------------------------
(* Correctness *)

\* Type invariant; the count readers see never runs ahead of the producer, nor
\* lags further behind it than the machine allows.
TypeOK ==
  /\ slot \in [0 .. Size - 1 -> [Words -> Int]]
  /\ w \in Nat
  /\ widx \in Nat
  /\ widx <= w /\ w <= widx + Slack
  /\ written \subseteq Words
  /\ rpc \in [Readers -> {"idle", "copy", "ok", "stale"}]
  /\ ridx \in [Readers -> Nat]
  /\ copied \in [Readers -> [Words -> Int]]
  /\ seen \in [Readers -> Nat]

\* The reader holds scan idx itself, every word of it.
Exact(r) == \A k \in Words : copied[r][k] = ridx[r]

\* A get that succeeds with the producer less than a full ring ahead of the
\* scan it asked for (and less the slack) returned that scan, untorn, however its
\* loads interleaved with the pushes: the re-check of tt_ring.c:72-76 works below
\* its limit.
AcceptedIsExact ==
  \A r \in Readers :
    (rpc[r] = "ok" /\ seen[r] - ridx[r] < Size - Slack) => Exact(r)

\* What tt_ring.h:36-39 and 66-70 promise: a get returns 0 only with the scan it
\* was asked for, and one that was overwritten while it was copied is refused.
\* The code breaks it at the limit: a scan exactly a ring length behind passes
\* both tests (tt_ring.c:65 and 76) while the producer stores into its slot.
GetIsExact == \A r \in Readers : rpc[r] = "ok" => Exact(r)
=============================================================================
