------------------------------ MODULE MCRings -------------------------------
(***************************************************************************)
(* The two rings of src/src/tt_ring.c.  They share nothing: an execution   *)
(* is one of either, as the choice of ring says.                           *)
(***************************************************************************)
EXTENDS MCCvRing, EvRing

VARIABLE ring

ringVars == <<ring, vars, evVars>>

RingsInit == ring \in {"cv", "event"} /\ Init /\ EvInit

RingsNext ==
  \/ ring = "cv" /\ Next /\ UNCHANGED evVars
  \/ ring = "event" /\ EvNext /\ UNCHANGED vars

\* The event ring's threads run on, as in EvFairSpec.
RingsSpec ==
  /\ RingsInit /\ [][RingsNext /\ UNCHANGED ring]_ringVars
  /\ WF_evVars(ring = "event" /\ (PushDrop \/ PushStore \/ PushPublish))
  /\ WF_evVars(ring = "event" /\ EvPop)
=============================================================================
