----------------------------- MODULE Allocator ------------------------------
(***************************************************************************)
(* What a memory allocator owes its callers, with no free list in sight:   *)
(* the regions it hands out lie inside its space and never overlap, are    *)
(* large enough and waste a bounded number of bytes, a released region can *)
(* be handed out again, and a request is refused only when no run of       *)
(* unowned bytes is long enough for it - or while somebody's release is    *)
(* still being tidied up.  Heap implements it.                             *)
(***************************************************************************)
EXTENDS Integers

CONSTANTS
  Callers,   \* who allocates and releases
  Requests,  \* the sizes asked for
  Overhead,  \* bytes of bookkeeping in front of every region
  Rounding,  \* bytes a size may be rounded up by
  MaxRest    \* a rest of at most so many bytes may be added to a region

VARIABLES
  space,     \* the bytes there are
  owned,     \* start of a region, its overhead included -> its length
  want,      \* what each caller waiting for an answer asked for
  answer,    \* what each was told last
  releasing  \* the callers whose release is not tidied up yet

avars == <<space, owned, want, answer, releasing>>

\* The n bytes from lo on are there and in no region.
Unowned(lo, n) ==
  /\ lo + n <= space
  /\ \A a \in DOMAIN owned : lo + n <= a \/ a + owned[a] <= lo

Room(n) == \E lo \in 0 .. space : Unowned(lo, Overhead + n)

Request(c) ==
  /\ answer[c] # "busy" /\ c \notin releasing
  /\ \E n \in Requests : want' = [want EXCEPT ![c] = n]
  /\ answer' = [answer EXCEPT ![c] = "busy"]
  /\ UNCHANGED <<space, owned, releasing>>

Grant(c) ==
  /\ answer[c] = "busy"
  /\ answer' = [answer EXCEPT ![c] = "granted"]
  /\ \E lo \in 0 .. space :
       /\ Unowned(lo, Overhead + want[c])
       /\ \E extra \in 0 .. (Rounding + MaxRest) :
            LET len == Overhead + want[c] + extra
            IN  /\ Unowned(lo, len)
                /\ owned' = [a \in DOMAIN owned \cup {lo} |->
                               IF a = lo THEN len ELSE owned[a]]
  /\ want' = [want EXCEPT ![c] = 0]
  /\ UNCHANGED <<space, releasing>>

Refuse(c) ==
  /\ answer[c] = "busy"
  /\ ~Room(want[c] + Rounding) \/ releasing # {}
  /\ answer' = [answer EXCEPT ![c] = "refused"]
  /\ want' = [want EXCEPT ![c] = 0]
  /\ UNCHANGED <<space, owned, releasing>>

Release(c) ==
  /\ answer[c] # "busy" /\ c \notin releasing
  /\ \E lo \in DOMAIN owned :
       owned' = [a \in DOMAIN owned \ {lo} |-> owned[a]]
  /\ releasing' = releasing \cup {c}
  /\ UNCHANGED <<space, want, answer>>

Tidied(c) ==
  /\ c \in releasing
  /\ releasing' = releasing \ {c}
  /\ UNCHANGED <<space, owned, want, answer>>

Init ==
  /\ space \in Nat
  /\ owned = [a \in {} |-> 0]
  /\ want = [c \in Callers |-> 0]
  /\ answer = [c \in Callers |-> "refused"]
  /\ releasing = {}

Next ==
  \E c \in Callers :
    Request(c) \/ Grant(c) \/ Refuse(c) \/ Release(c) \/ Tidied(c)

Spec == Init /\ [][Next]_avars
=============================================================================
