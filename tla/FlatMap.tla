------------------------------- MODULE FlatMap -------------------------------
(***************************************************************************)
(* What map_page (kernel/mem/paging.c) promises: an address space is one   *)
(* function from pages to frames, and a call changes it at the page it was *)
(* given and nowhere else.  Tables are not part of the promise.            *)
(***************************************************************************)
CONSTANTS Pages, Frames, NONE

VARIABLES
  map,    \* page -> frame, or NONE
  asked   \* the <<page, frame>> of the call under way, or <<>>

vars == <<map, asked>>

Init == map = [v \in Pages |-> NONE] /\ asked = <<>>

Ask(v, p) ==
  /\ asked = <<>>
  /\ asked' = <<v, p>>
  /\ UNCHANGED map

Answer ==
  /\ asked # <<>>
  /\ map' = [map EXCEPT ![asked[1]] = asked[2]]
  /\ asked' = <<>>

Next == Answer \/ \E v \in Pages, p \in Frames : Ask(v, p)

Spec == Init /\ [][Next]_vars

=============================================================================
