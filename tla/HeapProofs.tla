----------------------------- MODULE HeapProofs -----------------------------
(* Theorems about the heap, for every heap size, every set of callers and   *)
(* every set of requests, as long as calls intrude on each other only where *)
(* SafeIntrusions says.                                                     *)
EXTENDS Heap, BoundedSets

-----------------------------------------------------------------------------
(* Rounding up does not make a size smaller.                                *)
LEMMA RoundFacts ==
  ASSUME NEW n \in Requests
  PROVE  n \in Nat /\ Round(n) \in Nat /\ Round(n) >= n
<1>1. n \in Nat /\ n + 15 < SIZE_T /\ SIZE_T \in Nat
  BY RequestSizeAssumption, HeapSizeAssumption
<1>2. (n + 15) % SIZE_T = n + 15
  BY <1>1
<1>3. Round(n) = ((n + 15) \div 16) * 16
  BY <1>2 DEF Round
<1> DEFINE m == n + 15
<1>4. m \in Nat /\ (m \div 16) \in Nat /\ (m \div 16) * 16 + 15 >= m
  BY <1>1
<1> QED BY <1>1, <1>3, <1>4

(* What a cut does to the list; the new header is no header of the list yet. *)
LEMMA SplitFacts ==
  ASSUME TypeOK, Tiled,
         NEW a \in DOMAIN blk, NEW n \in Nat, Splits(blk[a], n),
         blk' = Split(a, n)
  PROVE  LET r == a + HEADER + n
         IN  /\ r \notin DOMAIN blk
             /\ r \in Addresses
             /\ DOMAIN blk' = DOMAIN blk \cup {r}
             /\ blk'[r] = [free |-> TRUE, size |-> blk[a].size - n - HEADER,
                          next |-> blk[a].next]
             /\ blk'[a] = [blk[a] EXCEPT !.size = n, !.next = r]
             /\ \A x \in DOMAIN blk \ {a} : blk'[x] = blk[x]
<1> DEFINE r == a + HEADER + n
<1>1. /\ a \in Nat /\ blk[a].size \in Nat /\ blk[a].size > n + HEADER + 32
      /\ a + HEADER + blk[a].size <= HEAP_SIZE /\ HEAP_SIZE \in Nat
  BY HeapSizeAssumption DEF TypeOK, Tiled, Addresses, Header, Splits, After
<1>2. r \in Addresses /\ r > a /\ r < a + HEADER + blk[a].size
  BY <1>1 DEF Addresses, HEADER
<1>3. r \notin DOMAIN blk
  <2>1. ASSUME r \in DOMAIN blk PROVE After(a) <= r
    BY <1>2, <2>1 DEF Tiled
  <2> QED BY <2>1, <1>1, <1>2 DEF After, HEADER
<1>4. r # a
  BY <1>1, <1>2
<1> QED BY <1>2, <1>3, <1>4 DEF Split

(* What a merge does to the list.                                           *)
LEMMA MergedFacts ==
  ASSUME TypeOK, Tiled,
         NEW a \in DOMAIN blk, BothFree(a),
         blk' = Merged(a)
  PROVE  LET b == blk[a].next
         IN  /\ b = After(a) /\ b \in DOMAIN blk /\ b > a
             /\ DOMAIN blk' = DOMAIN blk \ {b}
             /\ a \in DOMAIN blk'
             /\ blk'[a] = [blk[a] EXCEPT !.size = @ + blk[b].size + HEADER,
                                        !.next = blk[b].next]
             /\ \A x \in DOMAIN blk' \ {a} : blk'[x] = blk[x]
<1> DEFINE b == blk[a].next
<1>1. a \in Nat /\ blk[a].size \in Nat
  BY DEF TypeOK, Addresses, Header
<1>2. b = After(a) /\ b \in DOMAIN blk
  BY DEF Tiled, BothFree
<1>3. b > a
  BY <1>1, <1>2 DEF After, HEADER
<1> QED BY <1>2, <1>3, <1>1 DEF Merged

-----------------------------------------------------------------------------
(* Where the calls in progress are: one at most is between its test and its *)
(* claim, on a block that still fits; one at most is inside kfree.          *)
CallsInv ==
  \A c \in Callers :
    /\ pc[c] = "idle" => current[c] = NULL
    /\ pc[c] \in {"km_walk", "km_split", "km_claim"} =>
         want[c] \in Requests /\ size[c] = Round(want[c])
    /\ pc[c] \in {"km_split", "km_claim"} =>
         /\ current[c] \in DOMAIN blk
         /\ Fits(current[c], size[c])
         /\ \A u \in Callers \ {c} : pc[u] \notin {"km_split", "km_claim"}
    /\ pc[c] = "kf_walk" => \A u \in Callers \ {c} : pc[u] # "kf_walk"

IInv == TypeOK /\ Tiled /\ LiveBacked /\ Coalesced /\ CallsInv

(* While a kmalloc runs, the others are idle or between two rounds of a     *)
(* walk; while a kfree runs, they are idle.                                 *)
LEMMA AdmitsKmalloc ==
  ASSUME Intrusions \subseteq SafeIntrusions, NEW c \in Callers,
         Admits(c, "kmalloc")
  PROVE  \A u \in Callers \ {c} : pc[u] \in {"idle", "km_walk", "kf_walk"}
BY DEF Admits, SafeIntrusions

LEMMA AdmitsKfree ==
  ASSUME Intrusions \subseteq SafeIntrusions, NEW c \in Callers,
         Admits(c, "kfree")
  PROVE  \A u \in Callers \ {c} : pc[u] = "idle"
BY DEF Admits, SafeIntrusions

LEMMA InitInv == Init => IInv
<1> SUFFICES ASSUME Init PROVE IInv
  OBVIOUS
<1> USE HeapSizeAssumption, NullAssumption DEF HEADER
<1>1. TypeOK
  <2>1. /\ heap_start \in {0, NULL}
        /\ DOMAIN blk \subseteq Addresses
        /\ \A a \in DOMAIN blk : blk[a] \in Header
    <3>1. CASE blk = [a \in {0} |-> [free |-> TRUE, size |-> HEAP_SIZE - HEADER,
                                    next |-> NULL]]
      BY <3>1 DEF Init, Addresses, Header
    <3>2. CASE blk = [a \in {} |-> NULL]
      BY <3>2 DEF Init
    <3> QED BY <3>1, <3>2 DEF Init
  <2> QED BY <2>1 DEF Init, TypeOK, Windows
<1>2. Tiled
  BY DEF Init, Tiled, After
<1>3. LiveBacked
  BY DEF Init, LiveBacked
<1>4. Coalesced
  BY DEF Init, Coalesced, BothFree
<1>5. CallsInv
  BY DEF Init, CallsInv
<1> QED BY <1>1, <1>2, <1>3, <1>4, <1>5 DEF IInv

-----------------------------------------------------------------------------
(* One lemma per step: it preserves the invariant.                          *)

LEMMA StutterInv == IInv /\ UNCHANGED vars => IInv'
BY DEF IInv, vars, TypeOK, Tiled, After, LiveBacked, Coalesced, BothFree,
       CallsInv, Fits

(* Steps that leave the list alone.                                         *)
LEMMA SameList ==
  ASSUME IInv, UNCHANGED <<heap_start, blk, live>>,
         NEW c \in Callers,
         \A u \in Callers \ {c} : pc'[u] = pc[u] /\ current'[u] = current[u],
         pc[c] \in {"idle", "km_walk"} \/ (pc[c] = "km_split" /\ pc'[c] = "km_claim")
  PROVE  Tiled' /\ LiveBacked' /\ Coalesced'
<1>1. Tiled' /\ LiveBacked'
  BY DEF IInv, Tiled, After, LiveBacked
<1>2. Coalesced'
  <2>1. SUFFICES ASSUME NEW a \in DOMAIN blk, BothFree(a)
                 PROVE  \E u \in Callers :
                          \/ pc'[u] = "kf_walk" /\ current'[u] # NULL /\ current'[u] <= a
                          \/ pc'[u] = "km_claim" /\ current'[u] = a
    BY DEF Coalesced, BothFree
  <2>2. PICK u \in Callers : \/ pc[u] = "kf_walk" /\ current[u] # NULL /\ current[u] <= a
                             \/ pc[u] = "km_claim" /\ current[u] = a
    BY <2>1 DEF IInv, Coalesced
  <2>3. u # c
    BY <2>2
  <2> QED BY <2>2, <2>3
<1> QED BY <1>1, <1>2

LEMMA KmallocInv ==
  ASSUME Intrusions \subseteq SafeIntrusions, IInv, NEW c \in Callers, Kmalloc(c)
  PROVE  IInv'
<1>1. PICK n \in Requests : want' = [want EXCEPT ![c] = n]
                            /\ size' = [size EXCEPT ![c] = Round(n)]
  BY DEF Kmalloc
<1>2. n \in Nat /\ Round(n) \in Nat
  BY RoundFacts
<1>3. heap_start \in DOMAIN blk \cup {NULL}
  BY DEF IInv, Tiled, TypeOK
<1>4. TypeOK'
  BY <1>1, <1>2, <1>3 DEF IInv, TypeOK, Kmalloc, GoTo, Windows
<1>5. Tiled' /\ LiveBacked' /\ Coalesced'
  <2>1. pc[c] = "idle" /\ UNCHANGED <<heap_start, blk, live>>
    BY DEF Kmalloc
  <2>2. \A u \in Callers \ {c} : pc'[u] = pc[u] /\ current'[u] = current[u]
    BY DEF IInv, TypeOK, Kmalloc, GoTo
  <2> QED BY <2>1, <2>2, SameList
<1>6. CallsInv'
  BY <1>1 DEF IInv, TypeOK, CallsInv, Kmalloc, GoTo, Fits
<1> QED BY <1>4, <1>5, <1>6 DEF IInv

LEMMA KmWalkInv ==
  ASSUME Intrusions \subseteq SafeIntrusions, IInv, NEW c \in Callers, KmWalk(c)
  PROVE  IInv'
<1> DEFINE a == current[c]
<1>0. /\ pc[c] = "km_walk"
      /\ UNCHANGED <<heap_start, blk, live>>
      /\ \A u \in Callers \ {c} : pc[u] \in {"idle", "km_walk", "kf_walk"}
  BY AdmitsKmalloc DEF KmWalk
<1>1. CASE a = NULL /\ Return(c, "refused")
  <2>1. TypeOK'
    BY <1>0, <1>1 DEF IInv, TypeOK, Return, GoTo, Windows
  <2>2. \A u \in Callers \ {c} : pc'[u] = pc[u] /\ current'[u] = current[u]
    BY <1>1 DEF IInv, TypeOK, Return, GoTo
  <2>3. Tiled' /\ LiveBacked' /\ Coalesced'
    BY <1>0, <2>2, SameList
  <2>4. CallsInv'
    BY <1>0, <1>1 DEF IInv, TypeOK, CallsInv, Return, GoTo, Fits
  <2> QED BY <2>1, <2>3, <2>4 DEF IInv
<1>2. CASE a # NULL /\ Fits(a, size[c]) /\ GoTo(c, "km_split")
           /\ UNCHANGED <<current, answer, want, size>>
  <2>1. TypeOK'
    BY <1>0, <1>2 DEF IInv, TypeOK, GoTo, Windows
  <2>2. \A u \in Callers \ {c} : pc'[u] = pc[u] /\ current'[u] = current[u]
    BY <1>2 DEF IInv, TypeOK, GoTo
  <2>3. Tiled' /\ LiveBacked' /\ Coalesced'
    BY <1>0, <2>2, SameList
  <2>4. CallsInv'
    BY <1>0, <1>2 DEF IInv, TypeOK, CallsInv, GoTo, Fits
  <2> QED BY <2>1, <2>3, <2>4 DEF IInv
<1>3. CASE a # NULL /\ current' = [current EXCEPT ![c] = blk[a].next]
           /\ UNCHANGED <<pc, answer, want, size>>
  <2>0. a \in DOMAIN blk /\ blk[a].next \in DOMAIN blk \cup {NULL}
    BY <1>3 DEF IInv, TypeOK, Tiled
  <2>1. TypeOK'
    BY <1>0, <1>3, <2>0 DEF IInv, TypeOK
  <2>2. \A u \in Callers \ {c} : pc'[u] = pc[u] /\ current'[u] = current[u]
    BY <1>3 DEF IInv, TypeOK
  <2>3. Tiled' /\ LiveBacked' /\ Coalesced'
    BY <1>0, <2>2, SameList
  <2>4. CallsInv'
    BY <1>0, <1>3 DEF IInv, TypeOK, CallsInv, Fits
  <2> QED BY <2>1, <2>3, <2>4 DEF IInv
<1> QED BY <1>1, <1>2, <1>3 DEF KmWalk

LEMMA KmSplitInv ==
  ASSUME Intrusions \subseteq SafeIntrusions, IInv, NEW c \in Callers, KmSplit(c)
  PROVE  IInv'
<1> DEFINE a == current[c]
           n == size[c]
           r == a + HEADER + n
<1>0. /\ pc[c] = "km_split" /\ pc' = [pc EXCEPT ![c] = "km_claim"]
      /\ UNCHANGED <<heap_start, current, size, want, answer, live>>
      /\ \A u \in Callers \ {c} : pc[u] \in {"idle", "km_walk", "kf_walk"}
  BY AdmitsKmalloc DEF KmSplit, GoTo
<1>1. a \in DOMAIN blk /\ Fits(a, n) /\ n \in Nat /\ a \in Nat
  BY <1>0 DEF IInv, CallsInv, TypeOK, Addresses
<1>2. CASE ~Splits(blk[a], n)
  <2>1. blk' = blk
    BY <1>2 DEF KmSplit
  <2>2. TypeOK'
    BY <1>0, <2>1 DEF IInv, TypeOK, Windows
  <2>3. Tiled' /\ LiveBacked' /\ Coalesced'
    BY <1>0, <2>1, SameList DEF IInv, TypeOK
  <2>4. CallsInv'
    BY <1>0, <2>1 DEF IInv, TypeOK, CallsInv, Fits
  <2> QED BY <2>2, <2>3, <2>4 DEF IInv
<1>3. CASE Splits(blk[a], n)
  <2>1. /\ r \notin DOMAIN blk
        /\ r \in Addresses
        /\ DOMAIN blk' = DOMAIN blk \cup {r}
        /\ blk'[r] = [free |-> TRUE, size |-> blk[a].size - n - HEADER,
                      next |-> blk[a].next]
        /\ blk'[a] = [blk[a] EXCEPT !.size = n, !.next = r]
        /\ \A x \in DOMAIN blk \ {a} : blk'[x] = blk[x]
    <3>1. blk' = Split(a, n)
      BY <1>3 DEF KmSplit
    <3> QED BY <1>1, <1>3, <3>1, SplitFacts DEF IInv
  <2>2. /\ blk[a] \in Header /\ blk[a].free /\ blk[a].size \in Nat
        /\ blk[a].size > n + HEADER + 32
        /\ blk[a].next \in Addresses \cup {NULL}
    BY <1>1, <1>3 DEF IInv, TypeOK, Header, Fits, Splits
  <2>3. /\ blk'[a].free /\ blk'[a].size = n /\ blk'[a].next = r
        /\ blk'[a] \in Header
    BY <2>1, <2>2, <1>1, ZenonT(30) DEF Header
  <2>4. /\ blk'[r].free /\ blk'[r].size = blk[a].size - n - HEADER
        /\ blk'[r].next = blk[a].next
        /\ blk'[r] \in Header
    BY <2>1, <2>2, <1>1 DEF Header, HEADER
  <2>5. r # a /\ r > a
    BY <1>1 DEF HEADER
  <2>6. TypeOK'
    <3>1. DOMAIN blk' \subseteq Addresses /\ \A x \in DOMAIN blk' : blk'[x] \in Header
      BY <2>1, <2>3, <2>4 DEF IInv, TypeOK
    <3>2. current' \in [Callers -> DOMAIN blk' \cup {NULL}]
      BY <1>0, <2>1 DEF IInv, TypeOK
    <3> QED BY <1>0, <3>1, <3>2 DEF IInv, TypeOK, Windows
  <2>7. Tiled'
    <3>1. /\ a + HEADER + n = r
          /\ r + HEADER + blk'[r].size = a + HEADER + blk[a].size
      BY <1>1, <2>2, <2>4 DEF HEADER
    <3>2. a + HEADER + blk[a].size <= HEAP_SIZE
          /\ IF a + HEADER + blk[a].size = HEAP_SIZE THEN blk[a].next = NULL
             ELSE /\ blk[a].next = a + HEADER + blk[a].size
                  /\ a + HEADER + blk[a].size \in DOMAIN blk
      BY <1>1 DEF IInv, Tiled, After
    <3>3. r < HEAP_SIZE
      BY <3>1, <3>2, <2>2, <2>4, <1>1, HeapSizeAssumption DEF HEADER
    <3>4. ASSUME NEW x \in DOMAIN blk'
          PROVE  /\ After(x)' <= HEAP_SIZE
                 /\ IF After(x)' = HEAP_SIZE THEN blk'[x].next = NULL
                    ELSE blk'[x].next = After(x)' /\ After(x)' \in DOMAIN blk'
      <4>1. CASE x = a
        BY <4>1, <3>1, <3>3, <2>3, <2>1, HeapSizeAssumption DEF After, Addresses
      <4>2. CASE x = r
        BY <4>2, <3>1, <3>2, <2>4, <2>1 DEF After
      <4>3. CASE x \in DOMAIN blk \ {a}
        BY <4>3, <2>1 DEF After, IInv, Tiled
      <4> QED BY <4>1, <4>2, <4>3, <2>1
    <3>5. ASSUME NEW x \in DOMAIN blk', NEW y \in DOMAIN blk', x < y
          PROVE  After(x)' <= y
      <4> USE DEF HEADER
      <4>0. \A z \in DOMAIN blk : z \in Nat /\ blk[z].size \in Nat
        BY DEF IInv, TypeOK, Addresses, Header
      <4>1. CASE x = a /\ y = r
        BY <4>1, <3>1, <2>3, <1>1 DEF After
      <4>2. CASE x = a /\ y \in DOMAIN blk
        <5>1. After(a) <= y
          BY <4>2, <3>5, <1>1 DEF IInv, Tiled
        <5> QED BY <5>1, <4>0, <4>2, <2>2, <2>3, <1>1 DEF After
      <4>3. CASE x = r /\ y = r
        BY <4>3, <3>5, <1>1
      <4>4. CASE x = r /\ y \in DOMAIN blk
        <5>1. a < y
          BY <4>4, <3>5, <2>5, <4>0, <1>1
        <5>2. After(a) <= y
          BY <5>1, <4>4, <1>1 DEF IInv, Tiled
        <5> QED BY <5>2, <3>1, <4>4, <2>4 DEF After
      <4>5. CASE x \in DOMAIN blk \ {a} /\ y \in DOMAIN blk
        BY <4>5, <3>5, <2>1 DEF IInv, Tiled, After
      <4>6. CASE x \in DOMAIN blk \ {a} /\ y = r
        <5>1. CASE x < a
          <6>1. After(x) <= a
            BY <5>1, <4>6, <1>1 DEF IInv, Tiled
          <6> QED BY <6>1, <4>6, <2>1, <4>0, <1>1 DEF After
        <5>2. CASE a < x
          <6>1. After(a) <= x
            BY <5>2, <4>6, <1>1 DEF IInv, Tiled
          <6> QED BY <6>1, <4>6, <3>5, <2>2, <4>0, <1>1 DEF After
        <5> QED BY <5>1, <5>2, <4>6, <4>0, <1>1
      <4> QED BY <4>1, <4>2, <4>3, <4>4, <4>5, <4>6, <2>1
    <3>6. IF heap_start' = NULL THEN DOMAIN blk' = {} ELSE heap_start' \in DOMAIN blk'
      BY <1>0, <1>1, <2>1 DEF IInv, Tiled
    <3> QED BY <3>4, <3>5, <3>6 DEF Tiled
  <2>8. LiveBacked'
    <3>1. ASSUME NEW p \in DOMAIN live
          PROVE  /\ p - HEADER \in DOMAIN blk'
                 /\ ~blk'[p - HEADER].free
                 /\ blk'[p - HEADER].size >= live[p]
      <4>1. p - HEADER \in DOMAIN blk /\ p - HEADER # a
        BY <2>2 DEF IInv, LiveBacked
      <4> QED BY <4>1, <2>1 DEF IInv, LiveBacked
    <3>2. ASSUME NEW x \in DOMAIN blk'
          PROVE  blk'[x].free \/ x + HEADER \in DOMAIN live
      BY <2>1, <2>3, <2>4 DEF IInv, LiveBacked
    <3> QED BY <3>1, <3>2, <1>0 DEF LiveBacked
  <2>9. Coalesced'
    <3>1. SUFFICES ASSUME NEW x \in DOMAIN blk', BothFree(x)'
                   PROVE  \E u \in Callers :
                            \/ pc'[u] = "kf_walk" /\ current'[u] # NULL /\ current'[u] <= x
                            \/ pc'[u] = "km_claim" /\ current'[u] = x
      BY DEF Coalesced
    <3>2. CASE x = a
      BY <3>2, <1>0 DEF IInv, TypeOK
    <3>3. CASE x = r
      <4>1. blk[a].next # NULL /\ blk'[blk[a].next].free
        BY <3>1, <3>3, <2>4 DEF BothFree
      <4>2. blk[a].next \in DOMAIN blk /\ blk[a].next # a
        BY <4>1, <1>1, <2>2 DEF IInv, Tiled, After, HEADER
      <4>3. BothFree(a)
        BY <4>1, <4>2, <2>1, <2>2 DEF BothFree
      <4>4. PICK u \in Callers :
              \/ pc[u] = "kf_walk" /\ current[u] # NULL /\ current[u] <= a
              \/ pc[u] = "km_claim" /\ current[u] = a
        BY <4>3, <1>1 DEF IInv, Coalesced
      <4>5. u # c /\ pc[u] = "kf_walk" /\ current[u] # NULL /\ current[u] <= a
        BY <4>4, <1>0
      <4>6. current[u] \in Nat
        BY <4>5 DEF IInv, TypeOK, Addresses
      <4>7. current[u] <= x
        BY <4>5, <4>6, <3>3, <2>5, <1>1 DEF HEADER
      <4> QED BY <4>5, <4>7, <1>0 DEF IInv, TypeOK
    <3>4. CASE x \in DOMAIN blk \ {a}
      <4>1. blk'[x] = blk[x] /\ blk[x].next # NULL /\ blk[x].free /\ blk'[blk[x].next].free
        BY <3>1, <3>4, <2>1 DEF BothFree
      <4>2. blk[x].next \in DOMAIN blk
        BY <4>1, <3>4 DEF IInv, Tiled
      <4>3. blk[blk[x].next].free
        BY <4>1, <4>2, <2>1, <2>2
      <4>4. PICK u \in Callers :
              \/ pc[u] = "kf_walk" /\ current[u] # NULL /\ current[u] <= x
              \/ pc[u] = "km_claim" /\ current[u] = x
        BY <4>1, <4>3, <3>4 DEF IInv, Coalesced, BothFree
      <4>5. u # c /\ pc[u] = "kf_walk"
        BY <4>4, <1>0
      <4> QED BY <4>4, <4>5, <1>0 DEF IInv, TypeOK
    <3> QED BY <3>2, <3>3, <3>4, <2>1
  <2>10. CallsInv'
    <3>1. Fits(a, n)'
      BY <1>0, <1>1, <2>3 DEF Fits
    <3>2. \A u \in Callers \ {c} : pc'[u] = pc[u]
      BY <1>0 DEF IInv, TypeOK
    <3> QED BY <1>0, <1>1, <2>1, <3>1, <3>2 DEF IInv, TypeOK, CallsInv
  <2> QED BY <2>6, <2>7, <2>8, <2>9, <2>10 DEF IInv
<1> QED BY <1>2, <1>3

LEMMA KmClaimInv ==
  ASSUME Intrusions \subseteq SafeIntrusions, IInv, NEW c \in Callers, KmClaim(c)
  PROVE  IInv'
<1> DEFINE a == current[c]
           p == a + HEADER
<1>0. /\ pc[c] = "km_claim"
      /\ blk' = [blk EXCEPT ![a].free = FALSE]
      /\ live' = [q \in DOMAIN live \cup {p} |-> IF q = p THEN want[c] ELSE live[q]]
      /\ Return(c, "granted")
      /\ UNCHANGED heap_start
      /\ \A u \in Callers \ {c} : pc[u] \in {"idle", "km_walk", "kf_walk"}
  BY AdmitsKmalloc DEF KmClaim
<1>1. /\ a \in DOMAIN blk /\ Fits(a, size[c]) /\ a \in Nat
      /\ want[c] \in Requests /\ size[c] = Round(want[c])
      /\ blk[a] \in Header
  BY <1>0 DEF IInv, CallsInv, TypeOK, Addresses
<1>2. want[c] \in Nat /\ size[c] >= want[c] /\ size[c] \in Nat
  BY <1>1, RoundFacts
<1>3. /\ DOMAIN blk' = DOMAIN blk
      /\ blk'[a] \in Header /\ ~blk'[a].free
      /\ \A x \in DOMAIN blk : /\ blk'[x].size = blk[x].size
                               /\ blk'[x].next = blk[x].next
      /\ \A x \in DOMAIN blk \ {a} : blk'[x] = blk[x]
  BY <1>0, <1>1 DEF Header
<1>4. TypeOK'
  <2>1. DOMAIN blk' \subseteq Addresses /\ \A x \in DOMAIN blk' : blk'[x] \in Header
    BY <1>3 DEF IInv, TypeOK
  <2>2. \A q \in DOMAIN live' : q \in Nat /\ live'[q] \in Nat
    BY <1>0, <1>1, <1>2 DEF IInv, TypeOK, HEADER
  <2> QED BY <2>1, <2>2, <1>0, <1>3 DEF IInv, TypeOK, Return, GoTo, Windows
<1>5. Tiled'
  BY <1>0, <1>3 DEF IInv, Tiled, After
<1>6. LiveBacked'
  <2>1. ASSUME NEW q \in DOMAIN live'
        PROVE  /\ q - HEADER \in DOMAIN blk'
               /\ ~blk'[q - HEADER].free
               /\ blk'[q - HEADER].size >= live'[q]
    <3>1. CASE q = p
      <4>1. q - HEADER = a
        BY <3>1, <1>1 DEF HEADER
      <4> QED BY <4>1, <3>1, <1>0, <1>1, <1>2, <1>3 DEF Fits, Header
    <3>2. CASE q # p
      <4>1. q \in DOMAIN live /\ live'[q] = live[q]
        BY <3>2, <1>0
      <4> QED BY <4>1, <1>3 DEF IInv, LiveBacked
    <3> QED BY <3>1, <3>2
  <2>2. ASSUME NEW x \in DOMAIN blk'
        PROVE  blk'[x].free \/ x + HEADER \in DOMAIN live'
    BY <1>0, <1>3 DEF IInv, LiveBacked
  <2> QED BY <2>1, <2>2 DEF LiveBacked
<1>7. Coalesced'
  <2>1. SUFFICES ASSUME NEW x \in DOMAIN blk', BothFree(x)'
                 PROVE  \E u \in Callers : pc'[u] = "kf_walk" /\ current'[u] # NULL
                                            /\ current'[u] <= x
    BY DEF Coalesced
  <2>2. x # a /\ blk[x].next # NULL /\ blk[x].next \in DOMAIN blk /\ blk[x].next # a
    BY <2>1, <1>3 DEF BothFree, IInv, Tiled
  <2>3. BothFree(x)
    BY <2>1, <2>2, <1>3 DEF BothFree
  <2>4. PICK u \in Callers : \/ pc[u] = "kf_walk" /\ current[u] # NULL /\ current[u] <= x
                             \/ pc[u] = "km_claim" /\ current[u] = x
    BY <2>1, <2>3, <1>3 DEF IInv, Coalesced
  <2>5. u # c /\ pc[u] = "kf_walk"
    BY <2>2, <2>4, <1>0
  <2> QED BY <2>4, <2>5, <1>0 DEF IInv, TypeOK, Return, GoTo
<1>8. CallsInv'
  BY <1>0, <1>3 DEF IInv, TypeOK, CallsInv, Return, GoTo
<1> QED BY <1>4, <1>5, <1>6, <1>7, <1>8 DEF IInv

LEMMA KfreeInv ==
  ASSUME Intrusions \subseteq SafeIntrusions, IInv, NEW c \in Callers, Kfree(c)
  PROVE  IInv'
<1>0. /\ pc[c] = "idle" /\ pc' = [pc EXCEPT ![c] = "kf_walk"]
      /\ current' = [current EXCEPT ![c] = heap_start]
      /\ UNCHANGED <<heap_start, size, want, answer>>
      /\ \A u \in Callers \ {c} : pc[u] = "idle"
  BY AdmitsKfree DEF Kfree, GoTo
<1>1. PICK p \in DOMAIN live : /\ blk' = [blk EXCEPT ![p - HEADER].free = TRUE]
                               /\ live' = [q \in DOMAIN live \ {p} |-> live[q]]
  BY DEF Kfree
<1> DEFINE a == p - HEADER
<1>2. a \in DOMAIN blk /\ a \in Nat /\ blk[a] \in Header
  BY DEF IInv, TypeOK, LiveBacked, Addresses
<1>3. /\ DOMAIN blk' = DOMAIN blk
      /\ blk'[a] \in Header /\ blk'[a].free
      /\ \A x \in DOMAIN blk : /\ blk'[x].size = blk[x].size
                               /\ blk'[x].next = blk[x].next
      /\ \A x \in DOMAIN blk \ {a} : blk'[x] = blk[x]
  BY <1>1, <1>2 DEF Header
<1>4. heap_start = 0 /\ 0 \in DOMAIN blk
  BY <1>2 DEF IInv, TypeOK, Tiled
<1>5. TypeOK'
  <2>1. DOMAIN blk' \subseteq Addresses /\ \A x \in DOMAIN blk' : blk'[x] \in Header
    BY <1>3 DEF IInv, TypeOK
  <2>2. \A q \in DOMAIN live' : q \in Nat /\ live'[q] \in Nat
    BY <1>1 DEF IInv, TypeOK
  <2> QED BY <2>1, <2>2, <1>0, <1>3, <1>4 DEF IInv, TypeOK, Windows
<1>6. Tiled'
  BY <1>0, <1>3 DEF IInv, Tiled, After
<1>7. LiveBacked'
  <2>1. ASSUME NEW q \in DOMAIN live'
        PROVE  /\ q - HEADER \in DOMAIN blk'
               /\ ~blk'[q - HEADER].free
               /\ blk'[q - HEADER].size >= live'[q]
    <3>1. q \in DOMAIN live /\ q # p /\ live'[q] = live[q]
      BY <1>1
    <3>2. q \in Int /\ p \in Int /\ q - HEADER # a
      BY <3>1 DEF HEADER, IInv, LiveBacked, TypeOK, Addresses
    <3> QED BY <3>1, <3>2, <1>3 DEF IInv, LiveBacked
  <2>2. ASSUME NEW x \in DOMAIN blk'
        PROVE  blk'[x].free \/ x + HEADER \in DOMAIN live'
    <3>1. CASE x = a
      BY <3>1, <1>3
    <3>2. CASE x # a
      <4>1. x + HEADER # p
        BY <3>2, <1>2, <1>3 DEF HEADER, IInv, TypeOK, Addresses
      <4> QED BY <4>1, <3>2, <1>1, <1>3 DEF IInv, LiveBacked
    <3> QED BY <3>1, <3>2
  <2> QED BY <2>1, <2>2 DEF LiveBacked
<1>8. Coalesced'
  <2>1. ASSUME NEW x \in DOMAIN blk'
        PROVE  pc'[c] = "kf_walk" /\ current'[c] # NULL /\ current'[c] <= x
    BY <1>0, <1>3, <1>4, NullAssumption DEF IInv, TypeOK, Addresses
  <2> QED BY <2>1 DEF Coalesced
<1>9. CallsInv'
  BY <1>0 DEF IInv, TypeOK, CallsInv
<1> QED BY <1>5, <1>6, <1>7, <1>8, <1>9 DEF IInv

(* kfree is done, or its cursor moves on, past a pair that is not both free. *)
LEMMA KfWalkMoves ==
  ASSUME Intrusions \subseteq SafeIntrusions, IInv, NEW c \in Callers, KfWalk(c),
         blk' = blk,
         current'[c] \in DOMAIN blk \cup {NULL},
         pc'[c] \in {"idle", "kf_walk"}, pc'[c] = "idle" => current'[c] = NULL,
         \A u \in Callers \ {c} : pc'[u] = pc[u] /\ current'[u] = current[u],
         \A x \in DOMAIN blk : BothFree(x) /\ current[c] # NULL /\ current[c] <= x =>
            pc'[c] = "kf_walk" /\ current'[c] # NULL /\ current'[c] <= x
  PROVE  Coalesced' /\ CallsInv'
<1>0. /\ pc[c] = "kf_walk" /\ UNCHANGED <<heap_start, size, want, answer, live>>
      /\ \A u \in Callers \ {c} : pc[u] = "idle"
  BY AdmitsKfree DEF KfWalk
<1>1. CallsInv'
  BY <1>0 DEF IInv, CallsInv, Fits
<1>2. Coalesced'
  <2>1. SUFFICES ASSUME NEW x \in DOMAIN blk, BothFree(x)
                 PROVE  pc'[c] = "kf_walk" /\ current'[c] # NULL /\ current'[c] <= x
    BY DEF Coalesced, BothFree
  <2>2. PICK u \in Callers : \/ pc[u] = "kf_walk" /\ current[u] # NULL /\ current[u] <= x
                             \/ pc[u] = "km_claim" /\ current[u] = x
    BY <2>1 DEF IInv, Coalesced
  <2>3. u = c
    BY <2>2, <1>0
  <2> QED BY <2>1, <2>2, <2>3, <1>0
<1> QED BY <1>1, <1>2

LEMMA KfWalkInv ==
  ASSUME Intrusions \subseteq SafeIntrusions, IInv, NEW c \in Callers, KfWalk(c)
  PROVE  IInv'
<1> DEFINE a == current[c]
<1>0. /\ pc[c] = "kf_walk" /\ UNCHANGED <<heap_start, size, want, answer, live>>
      /\ \A u \in Callers \ {c} : pc[u] = "idle" /\ current[u] = NULL
      /\ a \in DOMAIN blk \cup {NULL}
  BY AdmitsKfree DEF KfWalk, IInv, CallsInv, TypeOK
<1>1. \A x \in DOMAIN blk : x \in Nat /\ blk[x] \in Header /\ blk[x].size \in Nat
  BY DEF IInv, TypeOK, Addresses, Header
<1>2. CASE /\ a = NULL \/ (a # NULL /\ blk[a].next = NULL)
           /\ GoTo(c, "idle")
           /\ current' = [current EXCEPT ![c] = NULL]
           /\ UNCHANGED blk
  <2>1. TypeOK'
    BY <1>0, <1>2 DEF IInv, TypeOK, GoTo, Windows
  <2>2. Tiled' /\ LiveBacked'
    BY <1>0, <1>2 DEF IInv, Tiled, After, LiveBacked
  <2>3. ASSUME NEW x \in DOMAIN blk, BothFree(x), a # NULL, a <= x PROVE FALSE
    <3>1. blk[a].next = NULL /\ a \in DOMAIN blk
      BY <1>0, <1>2, <2>3
    <3>2. After(a) = HEAP_SIZE
      BY <3>1, <1>1, NullAssumption DEF IInv, Tiled, After, HEADER, TypeOK, Addresses
    <3>3. x # a
      BY <3>1, <2>3 DEF BothFree
    <3>4. After(a) <= x
      BY <3>1, <3>3, <2>3, <1>1 DEF IInv, Tiled
    <3>5. x <= HEAP_SIZE - HEADER
      BY HeapSizeAssumption DEF IInv, TypeOK, Addresses
    <3> QED BY <3>2, <3>4, <3>5, <1>1, HeapSizeAssumption DEF HEADER
  <2>4. Coalesced' /\ CallsInv'
    <3>1. /\ pc'[c] = "idle" /\ current'[c] = NULL
          /\ \A u \in Callers \ {c} : pc'[u] = pc[u] /\ current'[u] = current[u]
      BY <1>2 DEF IInv, TypeOK, GoTo
    <3> QED BY <3>1, <2>3, <1>2, KfWalkMoves
  <2> QED BY <2>1, <2>2, <2>4 DEF IInv
<1>3. CASE /\ a # NULL /\ blk[a].next # NULL /\ ~BothFree(a)
           /\ current' = [current EXCEPT ![c] = blk[a].next]
           /\ UNCHANGED <<pc, blk>>
  <2>1. a \in DOMAIN blk /\ blk[a].next = After(a) /\ After(a) \in DOMAIN blk
    BY <1>0, <1>3 DEF IInv, Tiled
  <2>2. TypeOK'
    BY <1>0, <1>3, <2>1 DEF IInv, TypeOK
  <2>3. Tiled' /\ LiveBacked'
    BY <1>0, <1>3 DEF IInv, Tiled, After, LiveBacked
  <2>4. ASSUME NEW x \in DOMAIN blk, BothFree(x), a <= x PROVE After(a) <= x
    <3>1. a < x
      BY <2>4, <2>1, <1>1, <1>3
    <3> QED BY <3>1, <2>1 DEF IInv, Tiled
  <2>5. Coalesced' /\ CallsInv'
    <3>1. /\ pc'[c] = "kf_walk" /\ current'[c] = After(a) /\ current'[c] # NULL
          /\ \A u \in Callers \ {c} : pc'[u] = pc[u] /\ current'[u] = current[u]
      BY <1>0, <1>3, <2>1 DEF IInv, TypeOK
    <3> QED BY <3>1, <2>1, <2>4, <1>3, KfWalkMoves
  <2> QED BY <2>2, <2>3, <2>5 DEF IInv
<1>4. CASE a # NULL /\ BothFree(a) /\ blk' = Merged(a) /\ UNCHANGED <<pc, current>>
  <2> DEFINE b == blk[a].next
  <2>0. a \in DOMAIN blk
    BY <1>0, <1>4
  <2>1. /\ b = After(a) /\ b \in DOMAIN blk /\ b > a
        /\ DOMAIN blk' = DOMAIN blk \ {b}
        /\ a \in DOMAIN blk'
        /\ blk'[a] = [blk[a] EXCEPT !.size = @ + blk[b].size + HEADER,
                                   !.next = blk[b].next]
        /\ \A x \in DOMAIN blk' \ {a} : blk'[x] = blk[x]
    BY <2>0, <1>4, MergedFacts DEF IInv
  <2>2. /\ blk[a].free /\ blk[b].free
        /\ blk[a] \in Header /\ blk[b] \in Header
        /\ blk[b].next \in Addresses \cup {NULL}
    BY <1>1, <1>4, <2>0, <2>1 DEF BothFree, Header
  <2>3. /\ blk'[a].free /\ blk'[a].next = blk[b].next
        /\ blk'[a].size = blk[a].size + blk[b].size + HEADER
        /\ blk'[a] \in Header
    <3>1. /\ blk[a].size \in Nat /\ blk[b].size \in Nat
          /\ blk[a].size + blk[b].size + HEADER \in Nat
      BY <2>0, <2>1, <1>1 DEF HEADER
    <3>2. blk'[a] = [free |-> TRUE, size |-> blk[a].size + blk[b].size + HEADER,
                    next |-> blk[b].next]
      BY <2>1, <2>2 DEF Header
    <3> QED BY <3>1, <3>2, <2>2 DEF Header
  <2>4. /\ a \in Nat /\ b \in Nat /\ blk[a].size \in Nat /\ blk[b].size \in Nat
        /\ b = a + HEADER + blk[a].size
        /\ a + HEADER + blk'[a].size = After(b)
    <3>1. a \in Nat /\ b \in Nat /\ blk[a].size \in Nat /\ blk[b].size \in Nat
      BY <2>0, <2>1, <1>1
    <3>2. b = a + HEADER + blk[a].size
      BY <2>1 DEF After
    <3>3. a + HEADER + blk'[a].size = b + HEADER + blk[b].size
      BY <3>1, <3>2, <2>3 DEF HEADER
    <3> QED BY <3>1, <3>2, <3>3 DEF After
  <2>5. TypeOK'
    <3>1. DOMAIN blk' \subseteq Addresses /\ \A x \in DOMAIN blk' : blk'[x] \in Header
      BY <2>1, <2>3 DEF IInv, TypeOK
    <3>2. \A u \in Callers : current'[u] \in DOMAIN blk' \cup {NULL}
      BY <1>0, <1>4, <2>1
    <3> QED BY <1>0, <1>4, <3>1, <3>2 DEF IInv, TypeOK
  <2>6. Tiled'
    <3>1. ASSUME NEW x \in DOMAIN blk'
          PROVE  /\ After(x)' <= HEAP_SIZE
                 /\ IF After(x)' = HEAP_SIZE THEN blk'[x].next = NULL
                    ELSE blk'[x].next = After(x)' /\ After(x)' \in DOMAIN blk'
      <4>1. CASE x = a
        <5>1. /\ After(b) <= HEAP_SIZE
              /\ IF After(b) = HEAP_SIZE THEN blk[b].next = NULL
                 ELSE blk[b].next = After(b) /\ After(b) \in DOMAIN blk
          BY <2>1 DEF IInv, Tiled
        <5>2. After(b) # b
          BY <2>4 DEF After, HEADER
        <5>3. After(b) \in DOMAIN blk => After(b) \in DOMAIN blk'
          BY <5>2, <2>1
        <5>4. After(x)' = After(b) /\ blk'[x].next = blk[b].next
          BY <4>1, <2>3, <2>4 DEF After
        <5> QED BY <5>1, <5>3, <5>4
      <4>2. CASE x # a
        <5>1. x \in DOMAIN blk /\ blk'[x] = blk[x] /\ After(x)' = After(x)
          BY <4>2, <2>1 DEF After
        <5>2. /\ After(x) <= HEAP_SIZE
              /\ IF After(x) = HEAP_SIZE THEN blk[x].next = NULL
                 ELSE blk[x].next = After(x) /\ After(x) \in DOMAIN blk
          BY <5>1 DEF IInv, Tiled
        <5>3. After(x) # b
          <6>1. ASSUME After(x) = b, x < a PROVE FALSE
            <7>1. After(x) <= a
              BY <6>1, <5>1, <2>0 DEF IInv, Tiled
            <7> QED BY <7>1, <6>1, <2>1, <2>4
          <6>2. ASSUME After(x) = b, a < x PROVE FALSE
            <7>1. b <= x
              BY <6>2, <5>1, <2>0, <2>1 DEF IInv, Tiled
            <7> QED BY <7>1, <6>2, <5>1, <1>1 DEF After, HEADER
          <6> QED BY <6>1, <6>2, <4>2, <5>1, <1>1, <2>4
        <5> QED BY <5>1, <5>2, <5>3, <2>1
      <4> QED BY <4>1, <4>2
    <3>2. ASSUME NEW x \in DOMAIN blk', NEW y \in DOMAIN blk', x < y
          PROVE  After(x)' <= y
      <4>0. x \in DOMAIN blk /\ y \in DOMAIN blk /\ y # b
        BY <2>1
      <4>1. CASE x = a
        <5>1. b <= y
          BY <4>0, <4>1, <3>2, <2>1 DEF IInv, Tiled
        <5>2. b < y
          BY <5>1, <4>0, <2>4, <1>1
        <5>3. After(b) <= y
          BY <5>2, <4>0, <2>1 DEF IInv, Tiled
        <5> QED BY <5>3, <4>1, <2>4 DEF After
      <4>2. CASE x # a
        BY <4>0, <4>2, <3>2, <2>1 DEF IInv, Tiled, After
      <4> QED BY <4>1, <4>2
    <3>3. IF heap_start' = NULL THEN DOMAIN blk' = {} ELSE heap_start' \in DOMAIN blk'
      BY <1>0, <2>0, <2>1, <2>4, NullAssumption DEF IInv, Tiled, TypeOK
    <3> QED BY <3>1, <3>2, <3>3 DEF Tiled
  <2>7. LiveBacked'
    <3>1. ASSUME NEW q \in DOMAIN live
          PROVE  /\ q - HEADER \in DOMAIN blk'
                 /\ ~blk'[q - HEADER].free
                 /\ blk'[q - HEADER].size >= live[q]
      <4>1. q - HEADER \in DOMAIN blk /\ q - HEADER # a /\ q - HEADER # b
        BY <2>2 DEF IInv, LiveBacked
      <4> QED BY <4>1, <2>1 DEF IInv, LiveBacked
    <3>2. ASSUME NEW x \in DOMAIN blk'
          PROVE  blk'[x].free \/ x + HEADER \in DOMAIN live
      BY <2>1, <2>3 DEF IInv, LiveBacked
    <3> QED BY <3>1, <3>2, <1>0 DEF LiveBacked
  <2>8. Coalesced'
    <3>1. SUFFICES ASSUME NEW x \in DOMAIN blk', BothFree(x)' PROVE a <= x
      BY <1>0, <1>4 DEF Coalesced
    <3>2. CASE x # a /\ x < a
      <4>1. x \in DOMAIN blk /\ blk'[x] = blk[x] /\ blk[x].next # NULL
            /\ blk[x].next \in DOMAIN blk
        BY <3>1, <3>2, <2>1 DEF BothFree, IInv, Tiled
      <4>2. blk[x].next = a \/ blk[x].next \in DOMAIN blk' \ {a} \/ blk[x].next = b
        BY <4>1, <2>1
      <4>3. blk[blk[x].next].free
        BY <4>1, <4>2, <2>1, <2>2, <3>1 DEF BothFree
      <4>4. BothFree(x)
        BY <4>1, <4>3, <3>1 DEF BothFree
      <4>5. PICK u \in Callers :
              \/ pc[u] = "kf_walk" /\ current[u] # NULL /\ current[u] <= x
              \/ pc[u] = "km_claim" /\ current[u] = x
        BY <4>1, <4>4 DEF IInv, Coalesced
      <4>6. u = c
        BY <4>5, <1>0
      <4> QED BY <4>5, <4>6, <1>0
    <3> QED BY <3>2, <2>1, <2>4, <1>1
  <2>9. CallsInv'
    BY <1>0, <1>4 DEF IInv, CallsInv
  <2> QED BY <2>5, <2>6, <2>7, <2>8, <2>9 DEF IInv
<1> QED BY <1>2, <1>3, <1>4 DEF KfWalk

-----------------------------------------------------------------------------
LEMMA NextInv ==
  ASSUME Intrusions \subseteq SafeIntrusions, IInv, [Next]_vars
  PROVE  IInv'
<1>1. CASE UNCHANGED vars
  BY <1>1, StutterInv
<1>2. ASSUME NEW c \in Callers, Kmalloc(c) PROVE IInv'
  BY <1>2, KmallocInv
<1>3. ASSUME NEW c \in Callers, KmWalk(c) PROVE IInv'
  BY <1>3, KmWalkInv
<1>4. ASSUME NEW c \in Callers, KmSplit(c) PROVE IInv'
  BY <1>4, KmSplitInv
<1>5. ASSUME NEW c \in Callers, KmClaim(c) PROVE IInv'
  BY <1>5, KmClaimInv
<1>6. ASSUME NEW c \in Callers, Kfree(c) PROVE IInv'
  BY <1>6, KfreeInv
<1>7. ASSUME NEW c \in Callers, KfWalk(c) PROVE IInv'
  BY <1>7, KfWalkInv
<1> QED BY <1>1, <1>2, <1>3, <1>4, <1>5, <1>6, <1>7 DEF Next, KmallocStep

LEMMA InvHolds ==
  ASSUME Intrusions \subseteq SafeIntrusions
  PROVE  Spec => []IInv
<1>1. Init => IInv
  BY InitInv
<1>2. IInv /\ [Next]_vars => IInv'
  BY NextInv
<1> QED BY <1>1, <1>2, PTL DEF Spec

(* The list tiles the heap: kmalloc's cuts and kfree's merges lose no byte  *)
(* and make no two blocks overlap, for any number of callers.               *)
THEOREM HeapTiled ==
  ASSUME Intrusions \subseteq SafeIntrusions
  PROVE  Spec => []Tiled
<1>1. IInv => Tiled
  BY DEF IInv
<1> QED BY <1>1, InvHolds, PTL

(* Every pointer kmalloc gave out and nobody has given back is a block of   *)
(* its own, large enough; every block in use is held by someone.            *)
THEOREM PointersBacked ==
  ASSUME Intrusions \subseteq SafeIntrusions
  PROVE  Spec => [](TypeOK /\ LiveBacked)
<1>1. IInv => TypeOK /\ LiveBacked
  BY DEF IInv
<1> QED BY <1>1, InvHolds, PTL

(* The list, the calls and what they hold are well formed throughout: every *)
(* header lies in the heap and every cursor on a header.                    *)
THEOREM TypeCorrect ==
  ASSUME Intrusions \subseteq SafeIntrusions
  PROVE  Spec => []TypeOK
<1>1. IInv => TypeOK
  BY DEF IInv
<1> QED BY <1>1, InvHolds, PTL

(* kfree leaves no two free blocks side by side behind its cursor.          *)
THEOREM FreeNeighboursMerged ==
  ASSUME Intrusions \subseteq SafeIntrusions
  PROVE  Spec => []Coalesced
<1>1. IInv => Coalesced
  BY DEF IInv
<1> QED BY <1>1, InvHolds, PTL

-----------------------------------------------------------------------------
(* The heap implements the abstract Allocator: Heap's Spec implies          *)
(* Abstract!Spec, under the same condition on intrusions.                   *)

(* What the refinement needs beyond IInv: a block about to be claimed wastes *)
(* no more than a rest too small for a header, and kmalloc's walk has left  *)
(* behind no free block its request would have fitted into.                 *)
FirstFit ==
  \A c \in Callers :
    /\ answer[c] = "busy" <=> pc[c] \in {"km_walk", "km_split", "km_claim"}
    /\ pc[c] = "km_claim" => ~Splits(blk[current[c]], size[c])
    /\ pc[c] = "km_walk" =>
         \A b \in DOMAIN blk :
           blk[b].free /\ (current[c] = NULL \/ b < current[c])
             => blk[b].size < size[c]

RInv == IInv /\ FirstFit

LEMMA RoundUpper ==
  ASSUME NEW n \in Requests
  PROVE  Round(n) <= n + 15
<1>1. n \in Nat /\ n + 15 < SIZE_T /\ SIZE_T \in Nat
  BY RequestSizeAssumption, HeapSizeAssumption
<1>2. (n + 15) % SIZE_T = n + 15
  BY <1>1
<1>3. Round(n) = ((n + 15) \div 16) * 16
  BY <1>2 DEF Round
<1> QED BY <1>1, <1>3

LEMMA BlockFacts ==
  ASSUME IInv
  PROVE  \A a \in DOMAIN blk :
           /\ a \in Nat /\ blk[a] \in Header /\ blk[a].size \in Nat
           /\ blk[a].free \in BOOLEAN
           /\ After(a) \in Nat /\ After(a) > a /\ After(a) <= HEAP_SIZE
BY DEF IInv, TypeOK, Tiled, Addresses, Header, After, HEADER

-----------------------------------------------------------------------------
(* A call that finds no free block large enough, while nobody is in the     *)
(* middle of kfree, has no room: free space is in single blocks.            *)
LEMMA NoRoom ==
  ASSUME IInv, NEW n \in Nat, NEW m \in Nat, n <= m,
         \A b \in DOMAIN blk : blk[b].free => blk[b].size < n,
         \A u \in Callers : pc[u] \notin {"kf_walk", "km_claim"}
  PROVE  ~Abstract!Room(m)
<1> DEFINE space == IF heap_start = NULL THEN 0 ELSE HEAP_SIZE
<1>1. SUFFICES ASSUME NEW lo \in 0 .. space,
                      lo + (HEADER + m) <= space,
                      \A a \in Used : \/ lo + (HEADER + m) <= a
                                      \/ a + (HEADER + blk[a].size) <= lo
               PROVE  FALSE
  BY DEF Abstract!Room, Abstract!Unowned
<1>2. heap_start # NULL /\ space = HEAP_SIZE /\ lo \in Nat
      /\ HEAP_SIZE \in Nat /\ lo + HEADER + m <= HEAP_SIZE
  BY <1>1, HeapSizeAssumption DEF HEADER
<1>3. 0 \in DOMAIN blk
  BY <1>2 DEF IInv, TypeOK, Tiled
<1> DEFINE S == {a \in DOMAIN blk : a <= lo}
<1>4. PICK b \in S : \A a \in S : a <= b
  <2>1. S \subseteq 0 .. lo /\ S # {}
    BY <1>2, <1>3, BlockFacts
  <2> HIDE DEF S
  <2> QED BY <1>2, <2>1, GreatestElement
<1>5. b \in DOMAIN blk /\ b <= lo
  BY <1>4
<1>6. After(b) > lo
  <2>1. SUFFICES ASSUME After(b) <= lo PROVE FALSE
    BY <1>2, <1>5, BlockFacts
  <2>2. After(b) # HEAP_SIZE
    BY <2>1, <1>2 DEF HEADER
  <2>3. After(b) \in DOMAIN blk
    BY <2>2, <1>5 DEF IInv, Tiled
  <2> QED BY <2>1, <2>3, <1>4, <1>5, BlockFacts
<1>7. blk[b].free
  <2>1. SUFFICES ASSUME b \in Used PROVE FALSE
    BY <1>5 DEF Used
  <2>2. ~(lo + (HEADER + m) <= b)
    BY <1>2, <1>5, BlockFacts DEF HEADER
  <2> QED BY <2>1, <2>2, <1>1, <1>2, <1>5, <1>6, BlockFacts DEF After, HEADER
<1>8. After(b) < lo + HEADER + m
  BY <1>2, <1>5, <1>7, BlockFacts DEF After, HEADER
<1>9. After(b) \in DOMAIN blk /\ blk[b].next = After(b) /\ blk[b].next # NULL
  <2>1. After(b) # HEAP_SIZE
    BY <1>2, <1>5, <1>8, BlockFacts DEF HEADER
  <2> QED BY <2>1, <1>5, BlockFacts, NullAssumption DEF IInv, Tiled
<1>10. ~BothFree(b)
  BY <1>5 DEF IInv, Coalesced
<1>11. After(b) \in Used
  BY <1>7, <1>9, <1>10 DEF BothFree, Used
<1> DEFINE d == After(b)
<1>12. d \in Nat /\ blk[d].size \in Nat /\ lo < d /\ d < lo + HEADER + m
  BY <1>6, <1>8, <1>9, BlockFacts
<1>13. ~(lo + (HEADER + m) <= d) /\ ~(d + (HEADER + blk[d].size) <= lo)
  BY <1>2, <1>12 DEF HEADER
<1> QED BY <1>1, <1>11, <1>13

-----------------------------------------------------------------------------
(* FirstFit is kept by every step.                                          *)

LEMMA InitFirstFit == Init => FirstFit
BY DEF Init, FirstFit

LEMMA KmallocFirstFit ==
  ASSUME RInv, NEW c \in Callers, Kmalloc(c)
  PROVE  FirstFit'
<1>1. /\ UNCHANGED <<heap_start, blk>>
      /\ pc' = [pc EXCEPT ![c] = "km_walk"]
      /\ current' = [current EXCEPT ![c] = heap_start]
      /\ answer' = [answer EXCEPT ![c] = "busy"]
      /\ \A u \in Callers \ {c} : size'[u] = size[u]
  BY DEF Kmalloc, GoTo, RInv, IInv, TypeOK
<1>2. ASSUME NEW b \in DOMAIN blk PROVE ~(heap_start = NULL \/ b < heap_start)
  BY BlockFacts, NullAssumption DEF RInv, IInv, TypeOK, Tiled
<1> QED BY <1>1, <1>2 DEF RInv, IInv, TypeOK, FirstFit

LEMMA KmWalkFirstFit ==
  ASSUME RInv, NEW c \in Callers, KmWalk(c)
  PROVE  FirstFit'
<1> DEFINE a == current[c]
<1>0. pc[c] = "km_walk" /\ UNCHANGED <<heap_start, blk, live>>
      /\ a \in DOMAIN blk \cup {NULL} /\ answer[c] = "busy"
  BY DEF KmWalk, RInv, IInv, TypeOK, FirstFit
<1>1. CASE Return(c, "refused")
  BY <1>0, <1>1 DEF Return, GoTo, RInv, IInv, TypeOK, FirstFit
<1>2. CASE GoTo(c, "km_split") /\ UNCHANGED <<current, answer, want, size>>
  BY <1>0, <1>2 DEF GoTo, RInv, IInv, TypeOK, FirstFit
<1>3. CASE a # NULL /\ ~Fits(a, size[c])
           /\ current' = [current EXCEPT ![c] = blk[a].next]
           /\ UNCHANGED <<pc, answer, want, size>>
  <2>1. a \in DOMAIN blk
    BY <1>0, <1>3
  <2>2. /\ current'[c] = blk[a].next
        /\ \A u \in Callers \ {c} : current'[u] = current[u]
    BY <1>3 DEF RInv, IInv, TypeOK
  <2>3. ASSUME NEW b \in DOMAIN blk, blk[b].free, current'[c] = NULL \/ b < current'[c]
        PROVE  blk[b].size < size[c]
    <3>1. CASE b < a
      BY <1>0, <2>3, <3>1 DEF RInv, FirstFit
    <3>2. CASE b = a
      <4>1. size[c] \in Nat /\ blk[a].size \in Nat
        BY <2>1, BlockFacts DEF RInv, IInv, TypeOK
      <4> QED BY <1>3, <2>3, <3>2, <4>1 DEF Fits
    <3>3. CASE a < b
      <4>1. After(a) <= b
        BY <2>1, <2>3, <3>3 DEF RInv, IInv, Tiled
      <4>2. After(a) = HEAP_SIZE
        <5>1. SUFFICES ASSUME After(a) # HEAP_SIZE PROVE FALSE
          OBVIOUS
        <5>2. blk[a].next = After(a)
          BY <5>1, <2>1 DEF RInv, IInv, Tiled
        <5>3. After(a) \in Nat /\ After(a) # NULL
          BY <2>1, BlockFacts, NullAssumption DEF RInv
        <5> QED BY <5>2, <5>3, <2>2, <2>3, <4>1, BlockFacts DEF RInv
      <4>3. b \in Nat /\ After(b) > b /\ After(b) <= HEAP_SIZE /\ After(b) \in Nat
        BY <2>3, BlockFacts DEF RInv
      <4> QED BY <4>1, <4>2, <4>3, HeapSizeAssumption
    <3> QED BY <3>1, <3>2, <3>3, <2>1, BlockFacts DEF RInv
  <2> QED BY <1>0, <1>3, <2>2, <2>3 DEF RInv, FirstFit
<1> QED BY <1>1, <1>2, <1>3 DEF KmWalk

LEMMA KmSplitFirstFit ==
  ASSUME Intrusions \subseteq SafeIntrusions, RInv, NEW c \in Callers, KmSplit(c)
  PROVE  FirstFit'
<1> DEFINE a == current[c]
           n == size[c]
           r == a + HEADER + n
<1>0. /\ pc[c] = "km_split" /\ pc' = [pc EXCEPT ![c] = "km_claim"]
      /\ UNCHANGED <<heap_start, current, size, want, answer, live>>
      /\ \A u \in Callers \ {c} : pc[u] \in {"idle", "km_walk", "kf_walk"}
      /\ answer[c] = "busy"
  BY AdmitsKmalloc DEF KmSplit, GoTo, RInv, FirstFit
<1>1. a \in DOMAIN blk /\ Fits(a, n) /\ n \in Nat /\ a \in Nat
  BY <1>0 DEF RInv, IInv, CallsInv, TypeOK, Addresses
<1>2. CASE ~Splits(blk[a], n)
  <2>1. blk' = blk
    BY <1>2 DEF KmSplit
  <2> QED BY <1>0, <1>2, <2>1 DEF RInv, IInv, TypeOK, FirstFit
<1>3. CASE Splits(blk[a], n)
  <2>1. /\ DOMAIN blk' = DOMAIN blk \cup {r}
        /\ blk'[r] = [free |-> TRUE, size |-> blk[a].size - n - HEADER,
                      next |-> blk[a].next]
        /\ blk'[a] = [blk[a] EXCEPT !.size = n, !.next = r]
        /\ \A x \in DOMAIN blk \ {a} : blk'[x] = blk[x]
    <3>1. blk' = Split(a, n)
      BY <1>3 DEF KmSplit
    <3> QED BY <1>1, <1>3, <3>1, SplitFacts DEF RInv, IInv
  <2>2. blk[a].size \in Nat /\ blk[a].free /\ blk[a].size > n + HEADER + 32
        /\ blk[a] \in Header
    BY <1>1, <1>3, BlockFacts DEF RInv, Fits, Splits
  <2>3. blk'[a].size = n /\ blk'[r].size = blk[a].size - n - HEADER
    BY <2>1, <2>2 DEF Header
  <2>4. ~Splits(blk'[a], n)
    BY <2>3, <1>1 DEF Splits, HEADER
  <2>5. ASSUME NEW u \in Callers \ {c}, pc[u] = "km_walk",
               NEW b \in DOMAIN blk', blk'[b].free,
               current[u] = NULL \/ b < current[u]
        PROVE  blk'[b].size < size[u]
    <3>1. CASE b \in DOMAIN blk \ {a}
      BY <2>1, <2>5, <3>1 DEF RInv, FirstFit
    <3>2. CASE b \in {a, r}
      <4>1. current[u] = NULL \/ a < current[u]
        <5>1. current[u] = NULL \/ current[u] \in Nat
          BY BlockFacts DEF RInv, IInv, TypeOK
        <5> QED BY <5>1, <2>5, <3>2, <1>1 DEF HEADER
      <4>2. blk[a].size < size[u]
        BY <4>1, <2>2, <2>5, <1>1 DEF RInv, FirstFit
      <4>3. size[u] \in Nat
        BY DEF RInv, IInv, TypeOK
      <4> QED BY <4>2, <4>3, <3>2, <2>2, <2>3, <1>1 DEF HEADER
    <3> QED BY <3>1, <3>2, <2>1
  <2> QED BY <1>0, <2>4, <2>5 DEF RInv, IInv, TypeOK, FirstFit
<1> QED BY <1>2, <1>3

LEMMA KmClaimFirstFit ==
  ASSUME Intrusions \subseteq SafeIntrusions, RInv, NEW c \in Callers, KmClaim(c)
  PROVE  FirstFit'
<1>1. /\ blk' = [blk EXCEPT ![current[c]].free = FALSE]
      /\ Return(c, "granted")
      /\ \A u \in Callers \ {c} : pc[u] \in {"idle", "km_walk", "kf_walk"}
      /\ current[c] \in DOMAIN blk
  BY AdmitsKmalloc DEF KmClaim, RInv, IInv, CallsInv
<1>2. /\ DOMAIN blk' = DOMAIN blk
      /\ \A x \in DOMAIN blk : /\ blk'[x].size = blk[x].size
                               /\ blk'[x].free => blk[x].free
  BY <1>1, BlockFacts DEF RInv, Header
<1>3. /\ pc'[c] = "idle" /\ answer'[c] # "busy"
      /\ \A u \in Callers \ {c} : /\ pc'[u] = pc[u] /\ current'[u] = current[u]
                                  /\ answer'[u] = answer[u] /\ size'[u] = size[u]
  BY <1>1 DEF Return, GoTo, RInv, IInv, TypeOK
<1> QED BY <1>1, <1>2, <1>3 DEF RInv, FirstFit

LEMMA KfreeFirstFit ==
  ASSUME Intrusions \subseteq SafeIntrusions, RInv, NEW c \in Callers,
         Kfree(c) \/ KfWalk(c)
  PROVE  FirstFit'
<1>1. \A u \in Callers \ {c} : pc[u] = "idle"
  BY AdmitsKfree DEF Kfree, KfWalk
<1>2. /\ pc[c] \in {"idle", "kf_walk"} /\ pc'[c] \in {"idle", "kf_walk"}
      /\ \A u \in Callers \ {c} : pc'[u] = pc[u]
      /\ answer' = answer
  BY DEF Kfree, KfWalk, GoTo, RInv, IInv, TypeOK
<1> QED BY <1>1, <1>2 DEF RInv, FirstFit

LEMMA RInvHolds ==
  ASSUME Intrusions \subseteq SafeIntrusions
  PROVE  Spec => []RInv
<1>1. Init => RInv
  BY InitInv, InitFirstFit DEF RInv
<1>2. RInv /\ [Next]_vars => RInv'
  <2> SUFFICES ASSUME RInv, [Next]_vars PROVE RInv'
    OBVIOUS
  <2>1. IInv'
    BY NextInv DEF RInv
  <2>2. FirstFit'
    <3>1. CASE UNCHANGED vars
      BY <3>1 DEF RInv, FirstFit, vars, Splits
    <3>2. CASE Next
      BY <3>2, KmallocFirstFit, KmWalkFirstFit, KmSplitFirstFit, KmClaimFirstFit,
         KfreeFirstFit DEF Next, KmallocStep
    <3> QED BY <3>1, <3>2
  <2> QED BY <2>1, <2>2 DEF RInv
<1> QED BY <1>1, <1>2, PTL DEF Spec

-----------------------------------------------------------------------------
(* One lemma per step: what it is to an allocator.                          *)

LEMMA InitSim == Init => Abstract!Init
BY HeapSizeAssumption DEF Init, Abstract!Init, Used

(* A call begins.                                                           *)
LEMMA KmallocSim ==
  ASSUME RInv, NEW c \in Callers, Kmalloc(c)
  PROVE  Abstract!Request(c)
<1>1. /\ pc[c] = "idle" /\ pc' = [pc EXCEPT ![c] = "km_walk"]
      /\ UNCHANGED <<heap_start, blk>>
      /\ answer[c] # "busy"
      /\ pc \in [Callers -> Windows \cup {"idle"}]
  BY DEF Kmalloc, GoTo, RInv, FirstFit, IInv, TypeOK
<1>2. {u \in Callers : pc'[u] = "kf_walk"} = {u \in Callers : pc[u] = "kf_walk"}
  BY <1>1
<1> QED BY <1>1, <1>2 DEF Kmalloc, Abstract!Request, Used

(* The walk ends without a block, or goes on.                               *)
LEMMA KmWalkSim ==
  ASSUME Intrusions \subseteq SafeIntrusions, RInv, NEW c \in Callers, KmWalk(c)
  PROVE  Abstract!Refuse(c) \/ UNCHANGED Abstract!avars
<1>0. /\ pc[c] = "km_walk" /\ UNCHANGED <<heap_start, blk>>
      /\ \A u \in Callers \ {c} : pc[u] \in {"idle", "km_walk", "kf_walk"}
      /\ answer[c] = "busy"
      /\ pc \in [Callers -> Windows \cup {"idle"}]
  BY AdmitsKmalloc DEF KmWalk, RInv, FirstFit, IInv, TypeOK
<1>1. CASE current[c] = NULL /\ Return(c, "refused")
  <2>1. {u \in Callers : pc'[u] = "kf_walk"} = {u \in Callers : pc[u] = "kf_walk"}
    BY <1>0, <1>1 DEF Return, GoTo
  <2>2. \/ ~Abstract!Room(want[c] + 15)
        \/ {u \in Callers : pc[u] = "kf_walk"} # {}
    <3>1. SUFFICES ASSUME \A u \in Callers : pc[u] # "kf_walk"
                   PROVE  ~Abstract!Room(want[c] + 15)
      OBVIOUS
    <3>2. /\ want[c] \in Nat /\ size[c] \in Nat /\ size[c] <= want[c] + 15
          /\ want[c] + 15 \in Nat
      BY <1>0, RoundUpper, RoundFacts DEF RInv, IInv, CallsInv
    <3>3. \A b \in DOMAIN blk : blk[b].free => blk[b].size < size[c]
      BY <1>0, <1>1 DEF RInv, FirstFit
    <3>4. \A u \in Callers : pc[u] \notin {"kf_walk", "km_claim"}
      BY <1>0, <3>1
    <3> QED BY <3>2, <3>3, <3>4, NoRoom DEF RInv
  <2> QED BY <1>0, <1>1, <2>1, <2>2 DEF Return, Abstract!Refuse, Used
<1>2. CASE GoTo(c, "km_split") /\ UNCHANGED <<current, answer, want, size>>
  <2>1. {u \in Callers : pc'[u] = "kf_walk"} = {u \in Callers : pc[u] = "kf_walk"}
    BY <1>0, <1>2 DEF GoTo
  <2> QED BY <1>0, <1>2, <2>1 DEF Abstract!avars, Used
<1>3. CASE UNCHANGED <<pc, answer, want, size>>
  BY <1>0, <1>3 DEF Abstract!avars, Used
<1> QED BY <1>1, <1>2, <1>3 DEF KmWalk

(* A cut moves no byte into or out of a block in use.                       *)
LEMMA KmSplitSim ==
  ASSUME Intrusions \subseteq SafeIntrusions, RInv, NEW c \in Callers, KmSplit(c)
  PROVE  UNCHANGED Abstract!avars
<1> DEFINE a == current[c]
           n == size[c]
           r == a + HEADER + n
<1>0. /\ pc[c] = "km_split" /\ pc' = [pc EXCEPT ![c] = "km_claim"]
      /\ UNCHANGED <<heap_start, current, size, want, answer, live>>
      /\ pc \in [Callers -> Windows \cup {"idle"}]
  BY DEF KmSplit, GoTo, RInv, IInv, TypeOK
<1>1. a \in DOMAIN blk /\ Fits(a, n) /\ n \in Nat
  BY <1>0 DEF RInv, IInv, CallsInv, TypeOK
<1>2. {u \in Callers : pc'[u] = "kf_walk"} = {u \in Callers : pc[u] = "kf_walk"}
  BY <1>0
<1>3. Used' = Used /\ \A x \in Used : blk'[x] = blk[x]
  <2>1. CASE ~Splits(blk[a], n)
    BY <2>1 DEF KmSplit, Used
  <2>2. CASE Splits(blk[a], n)
    <3>1. /\ DOMAIN blk' = DOMAIN blk \cup {r} /\ r \notin DOMAIN blk
          /\ blk'[r] = [free |-> TRUE, size |-> blk[a].size - n - HEADER,
                        next |-> blk[a].next]
          /\ blk'[a] = [blk[a] EXCEPT !.size = n, !.next = r]
          /\ \A x \in DOMAIN blk \ {a} : blk'[x] = blk[x]
      <4>1. blk' = Split(a, n)
        BY <2>2 DEF KmSplit
      <4> QED BY <1>1, <2>2, <4>1, SplitFacts DEF RInv, IInv
    <3>2. blk[a].free /\ blk[a] \in Header
      BY <1>1, BlockFacts DEF RInv, Fits
    <3>3. blk'[a].free /\ blk'[r].free
      BY <3>1, <3>2 DEF Header
    <3> QED BY <3>1, <3>2, <3>3 DEF Used
  <2> QED BY <2>1, <2>2
<1>4. [x \in Used |-> HEADER + blk[x].size]' = [x \in Used |-> HEADER + blk[x].size]
  BY <1>3
<1> QED BY <1>0, <1>2, <1>4 DEF Abstract!avars

(* The claim is the grant: the block is unowned, and wastes at most the     *)
(* rounding and a rest too small for a header.                              *)
LEMMA KmClaimSim ==
  ASSUME Intrusions \subseteq SafeIntrusions, RInv, NEW c \in Callers, KmClaim(c)
  PROVE  Abstract!Grant(c)
<1> DEFINE a == current[c]
           extra == blk[a].size - want[c]
           len == HEADER + want[c] + extra
<1>0. /\ pc[c] = "km_claim" /\ UNCHANGED heap_start
      /\ blk' = [blk EXCEPT ![a].free = FALSE]
      /\ Return(c, "granted")
      /\ pc \in [Callers -> Windows \cup {"idle"}]
      /\ answer[c] = "busy"
  BY DEF KmClaim, RInv, FirstFit, IInv, TypeOK
<1>1. /\ a \in DOMAIN blk /\ blk[a].free /\ blk[a].size >= size[c]
      /\ blk[a].size <= size[c] + HEADER + 32
      /\ want[c] \in Requests /\ size[c] = Round(want[c])
  <2>1. /\ a \in DOMAIN blk /\ Fits(a, size[c]) /\ ~Splits(blk[a], size[c])
        /\ want[c] \in Requests /\ size[c] = Round(want[c]) /\ size[c] \in Nat
    BY <1>0 DEF RInv, FirstFit, IInv, CallsInv, TypeOK
  <2>2. blk[a].size \in Nat
    BY <2>1, BlockFacts DEF RInv
  <2> QED BY <2>1, <2>2 DEF Fits, Splits, HEADER
<1>2. /\ a \in Nat /\ blk[a].size \in Nat /\ blk[a] \in Header
      /\ want[c] \in Nat /\ size[c] \in Nat
      /\ size[c] >= want[c] /\ size[c] <= want[c] + 15
  BY <1>1, BlockFacts, RoundFacts, RoundUpper DEF RInv
<1>3. extra \in 0 .. (15 + (HEADER + 32)) /\ len = HEADER + blk[a].size
  BY <1>1, <1>2 DEF HEADER
<1>4. heap_start # NULL /\ a + len <= HEAP_SIZE /\ a \in 0 .. HEAP_SIZE
  <2>1. heap_start # NULL /\ After(a) <= HEAP_SIZE
    BY <1>1 DEF RInv, IInv, Tiled
  <2> QED BY <2>1, <1>2, <1>3, HeapSizeAssumption DEF After, HEADER
<1>5. ASSUME NEW n \in Nat, n <= len PROVE Abstract!Unowned(a, n)
  <2>1. a + n <= HEAP_SIZE
    BY <1>2, <1>3, <1>4, <1>5, HeapSizeAssumption DEF HEADER
  <2>2. ASSUME NEW x \in Used
        PROVE  a + n <= x \/ x + (HEADER + blk[x].size) <= a
    <3>1. x \in DOMAIN blk /\ x # a /\ x \in Nat /\ blk[x].size \in Nat
      BY <1>1, <2>2, BlockFacts DEF Used, RInv
    <3>2. a < x => After(a) <= x
      BY <3>1, <1>1 DEF RInv, IInv, Tiled
    <3>3. x < a => After(x) <= a
      BY <3>1, <1>1 DEF RInv, IInv, Tiled
    <3> QED BY <3>1, <3>2, <3>3, <1>2, <1>3, <1>5 DEF After, HEADER
  <2> QED BY <2>1, <2>2, <1>4 DEF Abstract!Unowned
<1>6. HEADER + want[c] \in Nat /\ HEADER + want[c] <= len /\ len \in Nat
  BY <1>1, <1>2, <1>3 DEF HEADER
<1>7. Abstract!Unowned(a, HEADER + want[c]) /\ Abstract!Unowned(a, len)
  BY <1>5, <1>6
<1>8. [x \in Used |-> HEADER + blk[x].size]'
        = [x \in Used \cup {a} |-> IF x = a THEN len ELSE HEADER + blk[x].size]
  <2>1. /\ DOMAIN blk' = DOMAIN blk
        /\ ~blk'[a].free /\ blk'[a].size = blk[a].size
        /\ \A x \in DOMAIN blk \ {a} : blk'[x] = blk[x]
    BY <1>0, <1>1, <1>2 DEF Header
  <2>2. Used' = Used \cup {a}
    BY <2>1, <1>1 DEF Used
  <2>3. \A x \in Used' : (HEADER + blk[x].size)'
                           = IF x = a THEN len ELSE HEADER + blk[x].size
    BY <2>1, <2>2, <1>3 DEF Used
  <2> QED BY <2>2, <2>3
<1>9. {u \in Callers : pc'[u] = "kf_walk"} = {u \in Callers : pc[u] = "kf_walk"}
  BY <1>0 DEF Return, GoTo
<1>10. /\ DOMAIN [x \in Used |-> HEADER + blk[x].size] = Used
       /\ \A x \in Used : [y \in Used |-> HEADER + blk[y].size][x] = HEADER + blk[x].size
  OBVIOUS
<1>11. \E lo \in 0 .. HEAP_SIZE :
         /\ Abstract!Unowned(lo, HEADER + want[c])
         /\ \E e \in 0 .. (15 + (HEADER + 32)) :
              /\ Abstract!Unowned(lo, HEADER + want[c] + e)
              /\ [x \in Used |-> HEADER + blk[x].size]'
                   = [x \in Used \cup {lo} |->
                        IF x = lo THEN HEADER + want[c] + e ELSE HEADER + blk[x].size]
  BY <1>3, <1>4, <1>7, <1>8
<1> QED
  BY <1>0, <1>4, <1>9, <1>10, <1>11 DEF Return, Abstract!Grant

(* kfree's first step is the release.                                       *)
LEMMA KfreeSim ==
  ASSUME Intrusions \subseteq SafeIntrusions, RInv, NEW c \in Callers, Kfree(c)
  PROVE  Abstract!Release(c)
<1>0. /\ pc[c] = "idle" /\ pc' = [pc EXCEPT ![c] = "kf_walk"]
      /\ UNCHANGED <<heap_start, want, answer>>
      /\ answer[c] # "busy"
      /\ pc \in [Callers -> Windows \cup {"idle"}]
  BY DEF Kfree, GoTo, RInv, FirstFit, IInv, TypeOK
<1>1. PICK p \in DOMAIN live : blk' = [blk EXCEPT ![p - HEADER].free = TRUE]
  BY DEF Kfree
<1> DEFINE a == p - HEADER
<1>2. a \in DOMAIN blk /\ ~blk[a].free /\ blk[a] \in Header
  BY BlockFacts DEF RInv, IInv, LiveBacked
<1>3. a \in Used
  BY <1>2 DEF Used
<1>4. [x \in Used |-> HEADER + blk[x].size]'
        = [x \in Used \ {a} |-> HEADER + blk[x].size]
  <2>1. /\ DOMAIN blk' = DOMAIN blk /\ blk'[a].free
        /\ \A x \in DOMAIN blk \ {a} : blk'[x] = blk[x]
    BY <1>1, <1>2 DEF Header
  <2>2. Used' = Used \ {a}
    BY <2>1, <1>2 DEF Used
  <2>3. \A x \in Used' : (HEADER + blk[x].size)' = HEADER + blk[x].size
    BY <2>1, <2>2 DEF Used
  <2> QED BY <2>2, <2>3
<1>5. {u \in Callers : pc'[u] = "kf_walk"}
        = {u \in Callers : pc[u] = "kf_walk"} \cup {c}
  BY <1>0
<1>6. [x \in Used \ {a} |-> HEADER + blk[x].size]
        = [x \in (DOMAIN [y \in Used |-> HEADER + blk[y].size]) \ {a} |->
             [y \in Used |-> HEADER + blk[y].size][x]]
  OBVIOUS
<1> QED BY <1>0, <1>3, <1>4, <1>5, <1>6 DEF Abstract!Release

(* A merge moves no byte into or out of a block in use; at the end the      *)
(* release is tidied up.                                                    *)
LEMMA KfWalkSim ==
  ASSUME Intrusions \subseteq SafeIntrusions, RInv, NEW c \in Callers, KfWalk(c)
  PROVE  Abstract!Tidied(c) \/ UNCHANGED Abstract!avars
<1> DEFINE a == current[c]
<1>0. /\ pc[c] = "kf_walk" /\ UNCHANGED <<heap_start, want, answer>>
      /\ a \in DOMAIN blk \cup {NULL}
      /\ pc \in [Callers -> Windows \cup {"idle"}]
  BY DEF KfWalk, RInv, IInv, TypeOK
<1>1. CASE GoTo(c, "idle") /\ UNCHANGED blk
  <2>1. {u \in Callers : pc'[u] = "kf_walk"}
          = {u \in Callers : pc[u] = "kf_walk"} \ {c}
    BY <1>0, <1>1 DEF GoTo
  <2> QED BY <1>0, <1>1, <2>1 DEF Abstract!Tidied, Used
<1>2. CASE a # NULL /\ BothFree(a) /\ blk' = Merged(a) /\ UNCHANGED pc
  <2> DEFINE b == blk[a].next
  <2>1. /\ a \in DOMAIN blk /\ b \in DOMAIN blk
        /\ DOMAIN blk' = DOMAIN blk \ {b}
        /\ blk'[a] = [blk[a] EXCEPT !.size = @ + blk[b].size + HEADER,
                                   !.next = blk[b].next]
        /\ \A x \in DOMAIN blk' \ {a} : blk'[x] = blk[x]
    BY <1>0, <1>2, MergedFacts DEF RInv, IInv
  <2>2. blk[a].free /\ blk[b].free /\ blk[a] \in Header
    BY <1>2, <2>1, BlockFacts DEF RInv, BothFree
  <2>3. blk'[a].free
    BY <2>1, <2>2 DEF Header
  <2>4. Used' = Used /\ \A x \in Used : blk'[x] = blk[x]
    BY <2>1, <2>2, <2>3 DEF Used
  <2>5. [x \in Used |-> HEADER + blk[x].size]' = [x \in Used |-> HEADER + blk[x].size]
    BY <2>4
  <2> QED BY <1>0, <1>2, <2>5 DEF Abstract!avars
<1>3. CASE UNCHANGED <<pc, blk>>
  BY <1>0, <1>3 DEF Abstract!avars, Used
<1> QED BY <1>1, <1>2, <1>3 DEF KfWalk

-----------------------------------------------------------------------------
(* kmalloc and kfree, each a sequence of steps with others in between, are  *)
(* an allocator: every region handed out is unowned, large enough and close *)
(* to what was asked for, and a call is refused only for want of room or    *)
(* while a kfree is under way.                                              *)
THEOREM HeapImplements ==
  ASSUME Intrusions \subseteq SafeIntrusions
  PROVE  Spec => Implements
<1>1. Init => Abstract!Init
  BY InitSim
<1>2. RInv /\ [Next]_vars => [Abstract!Next]_(Abstract!avars)
  <2> SUFFICES ASSUME RInv, [Next]_vars PROVE [Abstract!Next]_(Abstract!avars)
    OBVIOUS
  <2>1. CASE UNCHANGED vars
    BY <2>1 DEF vars, Abstract!avars, Used
  <2>2. ASSUME NEW c \in Callers, Kmalloc(c) PROVE Abstract!Next
    BY <2>2, KmallocSim DEF Abstract!Next
  <2>3. ASSUME NEW c \in Callers, KmWalk(c) PROVE Abstract!Next \/ UNCHANGED Abstract!avars
    BY <2>3, KmWalkSim DEF Abstract!Next
  <2>4. ASSUME NEW c \in Callers, KmSplit(c) PROVE UNCHANGED Abstract!avars
    BY <2>4, KmSplitSim
  <2>5. ASSUME NEW c \in Callers, KmClaim(c) PROVE Abstract!Next
    BY <2>5, KmClaimSim DEF Abstract!Next
  <2>6. ASSUME NEW c \in Callers, Kfree(c) PROVE Abstract!Next
    BY <2>6, KfreeSim DEF Abstract!Next
  <2>7. ASSUME NEW c \in Callers, KfWalk(c) PROVE Abstract!Next \/ UNCHANGED Abstract!avars
    BY <2>7, KfWalkSim DEF Abstract!Next
  <2> QED BY <2>1, <2>2, <2>3, <2>4, <2>5, <2>6, <2>7 DEF Next, KmallocStep
<1> QED BY <1>1, <1>2, RInvHolds, PTL DEF Spec, Implements, Abstract!Spec

=============================================================================
