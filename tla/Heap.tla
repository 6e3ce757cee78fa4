-------------------------------- MODULE Heap --------------------------------
(***************************************************************************)
(* The kernel heap (kernel/mem/heap.c): first fit over an address-ordered  *)
(* list of blocks, each behind a 24-byte header, with splitting in kmalloc *)
(* and coalescing in kfree.  Nothing in heap.c masks interrupts: a call is *)
(* followed here step by step, so that another one may be entered between  *)
(* two of its steps.  Intrusions says where: <<w, op>> allows steps of op  *)
(* while some other call is interrupted at program point w.                *)
(*                                                                         *)
(* Addresses are offsets from HEAP_START_ADDR.  blk holds the headers that *)
(* are in the list; one that kfree absorbs leaves its domain, so a cursor  *)
(* that still pointed to it would have no value here.  What callers keep   *)
(* in their blocks is not represented.                                     *)
(***************************************************************************)
EXTENDS Integers, FiniteSets

CONSTANTS
  Callers,     \* threads that call kmalloc and kfree
  HEAP_SIZE,   \* bytes between heap_init's start_addr and end_addr
  SIZE_T,      \* 2^64: kmalloc computes its size modulo this
  Requests,    \* bound: the sizes passed to kmalloc
  Intrusions,  \* where one call may be interrupted by another
  NULL

HEADER == 24      \* sizeof(heap_header_t)

ASSUME HeapSizeAssumption ==
  /\ HEAP_SIZE \in Nat /\ HEAP_SIZE >= HEADER
  /\ SIZE_T \in Nat /\ HEAP_SIZE < SIZE_T
(* Every caller in the kernel passes at most 32 bits (4096 for a stack, a   *)
(* uint32_t product for a bitmap), so rounding up does not wrap.            *)
ASSUME RequestSizeAssumption ==
  \A n \in Requests : n \in Nat /\ n + 15 < SIZE_T
ASSUME NullAssumption == NULL \notin Int

Windows == {"km_walk", "km_split", "km_claim", "kf_walk"}
Ops     == {"kmalloc", "kfree"}
ASSUME IntrusionsAssumption == Intrusions \subseteq Windows \X Ops

VARIABLES
  heap_start, \* 0, or NULL when heap_init ran out of pages
  blk,        \* the headers in the list, by address
  pc,         \* where each caller is
  current,    \* the cursor of its walk
  size,       \* kmalloc's local: the rounded size
  want,       \* the size it was called with (0 outside kmalloc)
  answer,     \* how its last kmalloc ended
  live        \* the pointers callers hold -> the size they asked for

vars == <<heap_start, blk, pc, current, size, want, answer, live>>

Addresses == 0 .. (HEAP_SIZE - HEADER)
Header == [free : BOOLEAN, size : Nat, next : Addresses \cup {NULL}]

RoundDown(n) == (n \div 16) * 16 \* mutant: "size & ~15" without "+ 15"

\* (size + 15) & ~15
Round(n) == (((n + 15) % SIZE_T) \div 16) * 16

-----------------------------------------------------------------------------
SplitsAnyRest(b, n) == b.size > n \* mutant: "+ sizeof(heap_header_t) + 32" dropped

\* Whether what is left of a block is worth a header of its own.
Splits(b, n) == b.size > n + HEADER + 32

SplitLosesTail(a, n) == \* mutant: next_block->next not copied
  LET rest == a + HEADER + n
  IN  [x \in DOMAIN blk \cup {rest} |->
         IF x = rest THEN [free |-> TRUE, size |-> blk[a].size - n - HEADER,
                           next |-> NULL]
         ELSE IF x = a THEN [blk[a] EXCEPT !.size = n, !.next = rest]
         ELSE blk[x]]

\* The list with block a cut after n bytes.
Split(a, n) ==
  LET rest == a + HEADER + n
  IN  [x \in DOMAIN blk \cup {rest} |->
         IF x = rest THEN [free |-> TRUE, size |-> blk[a].size - n - HEADER,
                           next |-> blk[a].next]
         ELSE IF x = a THEN [blk[a] EXCEPT !.size = n, !.next = rest]
         ELSE blk[x]]

\* The list with block a and its successor made one.
Merged(a) ==
  [x \in DOMAIN blk \ {blk[a].next} |->
     IF x = a THEN [blk[a] EXCEPT !.size = @ + blk[blk[a].next].size + HEADER,
                                  !.next = blk[blk[a].next].next]
     ELSE blk[x]]

Fits(a, n) == blk[a].free /\ blk[a].size >= n

BothFree(a) == blk[a].next # NULL /\ blk[a].free /\ blk[blk[a].next].free

-----------------------------------------------------------------------------
\* The other calls in progress let a step of op happen now.
Admits(c, op) ==
  \A u \in Callers \ {c} : pc[u] = "idle" \/ <<pc[u], op>> \in Intrusions

GoTo(c, p) == pc' = [pc EXCEPT ![c] = p]

\* kmalloc returns to c, whose locals go.
Return(c, outcome) ==
  /\ answer' = [answer EXCEPT ![c] = outcome]
  /\ want' = [want EXCEPT ![c] = 0]
  /\ size' = [size EXCEPT ![c] = 0]
  /\ current' = [current EXCEPT ![c] = NULL]
  /\ GoTo(c, "idle")

Kmalloc(c) ==
  /\ pc[c] = "idle" /\ Admits(c, "kmalloc")
  /\ \E n \in Requests :
       /\ want' = [want EXCEPT ![c] = n]
       /\ size' = [size EXCEPT ![c] = Round(n)]
  /\ current' = [current EXCEPT ![c] = heap_start]
  /\ answer' = [answer EXCEPT ![c] = "busy"]
  /\ GoTo(c, "km_walk")
  /\ UNCHANGED <<heap_start, blk, live>>

KmWalkStops(c) == \* mutant: gives up at the first free block that is too small
  /\ pc[c] = "km_walk" /\ Admits(c, "kmalloc")
  /\ LET a == current[c]
     IN  \/ a = NULL /\ Return(c, "refused")
         \/ /\ a # NULL /\ blk[a].free /\ ~Fits(a, size[c])
            /\ Return(c, "refused")
         \/ /\ a # NULL /\ Fits(a, size[c])
            /\ GoTo(c, "km_split")
            /\ UNCHANGED <<current, answer, want, size>>
         \/ /\ a # NULL /\ ~blk[a].free
            /\ current' = [current EXCEPT ![c] = blk[a].next]
            /\ UNCHANGED <<pc, answer, want, size>>
  /\ UNCHANGED <<heap_start, blk, live>>

KmWalkRestarts(c) == \* mutant: "current = heap_start" behind a block that does not fit
  /\ pc[c] = "km_walk" /\ Admits(c, "kmalloc")
  /\ LET a == current[c]
     IN  \/ a = NULL /\ Return(c, "refused")
         \/ /\ a # NULL /\ Fits(a, size[c])
            /\ GoTo(c, "km_split")
            /\ UNCHANGED <<current, answer, want, size>>
         \/ /\ a # NULL /\ ~Fits(a, size[c])
            /\ current' = [current EXCEPT ![c] = heap_start]
            /\ UNCHANGED <<pc, answer, want, size>>
  /\ UNCHANGED <<heap_start, blk, live>>

\* One round of kmalloc's loop.
KmWalk(c) ==
  /\ pc[c] = "km_walk" /\ Admits(c, "kmalloc")
  /\ LET a == current[c]
     IN  \/ a = NULL /\ Return(c, "refused")
         \/ /\ a # NULL /\ Fits(a, size[c])
            /\ GoTo(c, "km_split")
            /\ UNCHANGED <<current, answer, want, size>>
         \/ /\ a # NULL /\ ~Fits(a, size[c])
            /\ current' = [current EXCEPT ![c] = blk[a].next]
            /\ UNCHANGED <<pc, answer, want, size>>
  /\ UNCHANGED <<heap_start, blk, live>>

KmSplit(c) ==
  /\ pc[c] = "km_split" /\ Admits(c, "kmalloc")
  /\ blk' = IF Splits(blk[current[c]], size[c]) THEN Split(current[c], size[c])
            ELSE blk
  /\ GoTo(c, "km_claim")
  /\ UNCHANGED <<heap_start, current, size, want, answer, live>>

KmClaim(c) ==
  /\ pc[c] = "km_claim" /\ Admits(c, "kmalloc")
  /\ blk' = [blk EXCEPT ![current[c]].free = FALSE]
  /\ live' = [p \in DOMAIN live \cup {current[c] + HEADER} |->
                IF p = current[c] + HEADER THEN want[c] ELSE live[p]]
  /\ Return(c, "granted")
  /\ UNCHANGED heap_start

(* kfree of a pointer somebody holds (kfree(NULL) returns at once); its     *)
(* header still carries HEAP_MAGIC.                                         *)
Kfree(c) ==
  /\ pc[c] = "idle" /\ Admits(c, "kfree")
  /\ \E p \in DOMAIN live :
       /\ blk' = [blk EXCEPT ![p - HEADER].free = TRUE]
       /\ live' = [q \in DOMAIN live \ {p} |-> live[q]]
  /\ current' = [current EXCEPT ![c] = heap_start]
  /\ GoTo(c, "kf_walk")
  /\ UNCHANGED <<heap_start, size, want, answer>>

KfWalkSkips(c) == \* mutant: the cursor also moves on after a merge
  /\ pc[c] = "kf_walk" /\ Admits(c, "kfree")
  /\ IF current[c] # NULL /\ blk[current[c]].next # NULL
       THEN /\ blk' = IF BothFree(current[c]) THEN Merged(current[c]) ELSE blk
            /\ current' = [current EXCEPT ![c] = blk'[current[c]].next]
            /\ UNCHANGED pc
       ELSE /\ GoTo(c, "idle")
            /\ current' = [current EXCEPT ![c] = NULL]
            /\ UNCHANGED blk
  /\ UNCHANGED <<heap_start, size, want, answer, live>>

\* One round of kfree's loop.
KfWalk(c) ==
  /\ pc[c] = "kf_walk" /\ Admits(c, "kfree")
  /\ LET a == current[c]
     IN  \/ /\ a = NULL \/ (a # NULL /\ blk[a].next = NULL)
            /\ GoTo(c, "idle")
            /\ current' = [current EXCEPT ![c] = NULL]
            /\ UNCHANGED blk
         \/ /\ a # NULL /\ BothFree(a)
            /\ blk' = Merged(a)
            /\ UNCHANGED <<pc, current>>
         \/ /\ a # NULL /\ blk[a].next # NULL /\ ~BothFree(a)
            /\ current' = [current EXCEPT ![c] = blk[a].next]
            /\ UNCHANGED <<pc, blk>>
  /\ UNCHANGED <<heap_start, size, want, answer, live>>

-----------------------------------------------------------------------------
(* After heap_init: one free block, or no heap at all when the physical     *)
(* allocator ran out while the pages were mapped.                           *)
Init ==
  /\ \/ /\ heap_start = 0
        /\ blk = [a \in {0} |-> [free |-> TRUE, size |-> HEAP_SIZE - HEADER,
                                 next |-> NULL]]
     \/ /\ heap_start = NULL
        /\ blk = [a \in {} |-> NULL]
  /\ pc = [c \in Callers |-> "idle"]
  /\ current = [c \in Callers |-> NULL]
  /\ size = [c \in Callers |-> 0]
  /\ want = [c \in Callers |-> 0]
  /\ answer = [c \in Callers |-> "refused"]
  /\ live = [p \in {} |-> 0]

KmallocStep(c) == KmWalk(c) \/ KmSplit(c) \/ KmClaim(c)

Next ==
  \E c \in Callers : Kmalloc(c) \/ KmallocStep(c) \/ Kfree(c) \/ KfWalk(c)

Spec == Init /\ [][Next]_vars

(* A thread inside kmalloc keeps running (see ReadyRuns of Scheduler).      *)
FairSpec == Spec /\ \A c \in Callers : WF_vars(KmallocStep(c))

-----------------------------------------------------------------------------
(* The intrusions the list survives: a kmalloc, between two rounds of a     *)
(* walk.  A kfree may absorb the header the cursor is on, and between       *)
(* kmalloc's test and its claim a second call takes the same block.         *)
SafeIntrusions == {"km_walk", "kf_walk"} \X {"kmalloc"}

After(a) == a + HEADER + blk[a].size

TypeOK ==
  /\ heap_start \in {0, NULL}
  /\ DOMAIN blk \subseteq Addresses
  /\ \A a \in DOMAIN blk : blk[a] \in Header
  /\ pc \in [Callers -> Windows \cup {"idle"}]
  /\ current \in [Callers -> DOMAIN blk \cup {NULL}]
  /\ size \in [Callers -> Nat]
  /\ want \in [Callers -> Nat]
  /\ answer \in [Callers -> {"busy", "granted", "refused"}]
  /\ \A p \in DOMAIN live : p \in Nat /\ live[p] \in Nat

(* The list tiles the heap: it starts at heap_start, every block begins     *)
(* where the one before it ends, and the last one ends with the heap.  So   *)
(* no byte is lost and none is in two blocks, whatever was split or merged. *)
Tiled ==
  /\ IF heap_start = NULL THEN DOMAIN blk = {} ELSE heap_start \in DOMAIN blk
  /\ \A a \in DOMAIN blk :
       /\ After(a) <= HEAP_SIZE
       /\ IF After(a) = HEAP_SIZE THEN blk[a].next = NULL
          ELSE blk[a].next = After(a) /\ After(a) \in DOMAIN blk
  /\ \A a, b \in DOMAIN blk : a < b => After(a) <= b

(* Every pointer a caller holds is a block of its own, in use and as large  *)
(* as was asked for; and every block in use is held by someone.             *)
LiveBacked ==
  /\ \A p \in DOMAIN live :
       /\ p - HEADER \in DOMAIN blk
       /\ ~blk[p - HEADER].free
       /\ blk[p - HEADER].size >= live[p]
  /\ \A a \in DOMAIN blk : blk[a].free \/ a + HEADER \in DOMAIN live

(* Two free blocks are neighbours only in front of the cursor of a kfree    *)
(* that is still walking (or at a cut whose first half is about to be       *)
(* claimed): memory does not stay fragmented, and once all is given back    *)
(* the heap is one block again.                                             *)
Coalesced ==
  \A a \in DOMAIN blk :
    BothFree(a) =>
      \E c \in Callers :
        \/ pc[c] = "kf_walk" /\ current[c] # NULL /\ current[c] <= a
        \/ pc[c] = "km_claim" /\ current[c] = a

(* kmalloc always comes back with an answer.                                *)
KmallocReturns ==
  \A c \in Callers : answer[c] = "busy" ~> answer[c] # "busy"

Used == {a \in DOMAIN blk : ~blk[a].free}

Abstract == INSTANCE Allocator WITH
  Overhead  <- HEADER,
  Rounding  <- 15,
  MaxRest   <- HEADER + 32,
  space     <- IF heap_start = NULL THEN 0 ELSE HEAP_SIZE,
  owned     <- [a \in Used |-> HEADER + blk[a].size],
  releasing <- {c \in Callers : pc[c] = "kf_walk"}

(* The heap is an allocator: see module Allocator for what that promises.   *)
Implements == Abstract!Spec

=============================================================================
