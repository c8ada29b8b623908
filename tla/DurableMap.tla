----------------------------- MODULE DurableMap -----------------------------
(***************************************************************************)
(* What write-through persistence promises: a live map, and a saved copy   *)
(* that is only ever replaced by the whole live map.  A crash loses the    *)
(* changes made since the last save and nothing else.                      *)
(***************************************************************************)
CONSTANTS States, Empty

VARIABLES live, saved

Init == live = Empty /\ saved = Empty

Change == live' \in States /\ UNCHANGED saved

Save == saved' = live /\ UNCHANGED live

Crash == live' = saved /\ UNCHANGED saved

Next == Change \/ Save \/ Crash

Spec == Init /\ [][Next]_<<live, saved>>
=============================================================================
