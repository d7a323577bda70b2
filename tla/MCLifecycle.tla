---------------------------- MODULE MCLifecycle -----------------------------
(* Instances of Lifecycle for TLC. *)
EXTENDS Lifecycle, TLC

CONSTANTS o1, o2, o3

MCObjects  == {o1, o2, o3}
MCOneObject == {o1}
=============================================================================
