------------------------------- MODULE Events -------------------------------
(***************************************************************************)
(* The event path with one of its hosts at a time: the audio thread that   *)
(* renders the jacks, or what makes messages, notes and readings of the    *)
(* buttons.  They share handle_events and the ring of tt_poll_events.      *)
(***************************************************************************)
EXTENDS TriggerPath, Buttons

Init == PathInit /\ AudioInit /\ HostInit

Next ==
  \/ PathNext /\ UNCHANGED <<audio, polled, poller>>
  \/ Audio /\ UNCHANGED poller
  \/ Host /\ UNCHANGED <<audio, polled>>

vars == <<path, audio, polled, poller>>

Spec == Init /\ [][Next]_vars
=============================================================================
