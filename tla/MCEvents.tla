------------------------------ MODULE MCEvents ------------------------------
(* The event path on small boards, for TLC. *)
EXTENDS Events

\* One jack and blocks of frames two ticks long, or two jacks and frames of one; a
\* jack and two buttons.  The board has more lines: those are quiet.
MCSetups ==
  {[host |-> "render", jacks |-> j, buttons |-> 0, period |-> 3 - j, maxTime |-> 12 - 4 * j] :
     j \in 1 .. 2} \cup
  {[host |-> h, jacks |-> 1, buttons |-> 2, period |-> 1, maxTime |-> 4] :
     h \in {"pd", "jack", "reader"}}

\* Pure Data alone.
MCPd == {s \in MCSetups : s.host = "pd"}
=============================================================================
