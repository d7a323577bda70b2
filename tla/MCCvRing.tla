------------------------------ MODULE MCCvRing ------------------------------
(* Two words of a slot and a reader, for TLC. *)
EXTENDS CvRing

CONSTANTS k1, k2, r1

MCWords == {k1, k2}
MCReaders == {r1}
=============================================================================
