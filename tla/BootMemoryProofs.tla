--------------------------- MODULE BootMemoryProofs ---------------------------
(* What is proved of BootMemory for every size of the bitmap, every depth    *)
(* and width of the tables and every memory map: the counter beside the     *)
(* bitmap; that the kernel's image is out of the allocator's reach once     *)
(* paging_init has begun; and, where the boot loader passes what            *)
(* LoaderPasses allows, that a block has one use, that what the kernel runs *)
(* in stays mapped, and that the tables are a flat address space.  The      *)
(* last three are about a tree, which Shape describes level by level.       *)
EXTENDS BootMemory, BoundedSets

CounterInv == IsFiniteSet(used) /\ used_blocks = Cardinality(used)

(* pmm_mark_used (pmm.c:18) keeps the counter, whatever the block and the    *)
(* state of its bit.                                                        *)
LEMMA MarkUsedCounts ==
  ASSUME CounterInv, NEW b, MarkUsed(b)
  PROVE  CounterInv'
<1>1. CASE b < BLOCKS /\ b \notin used
  <2>1. used' = used \cup {b} /\ used_blocks' = used_blocks + 1
    BY <1>1 DEF MarkUsed
  <2>2. IsFiniteSet(used') /\ Cardinality(used') = Cardinality(used) + 1
    BY <1>1, <2>1, FS_AddElement DEF CounterInv
  <2> QED BY <2>1, <2>2 DEF CounterInv
<1>2. CASE ~(b < BLOCKS /\ b \notin used)
  BY <1>2 DEF MarkUsed, CounterInv, pmm
<1> QED BY <1>1, <1>2

(* pmm_mark_free (pmm.c:28) likewise: a second call for one block does       *)
(* nothing.                                                                 *)
LEMMA MarkFreeCounts ==
  ASSUME CounterInv, NEW b, MarkFree(b)
  PROVE  CounterInv'
<1>1. CASE b < BLOCKS /\ b \in used
  <2>1. used' = used \ {b} /\ used_blocks' = used_blocks - 1
    BY <1>1 DEF MarkFree
  <2>2. IsFiniteSet(used') /\ Cardinality(used') = Cardinality(used) - 1
    BY <1>1, <2>1, FS_RemoveElement DEF CounterInv
  <2> QED BY <2>1, <2>2 DEF CounterInv
<1>2. CASE ~(b < BLOCKS /\ b \in used)
  BY <1>2 DEF MarkFree, CounterInv, pmm
<1> QED BY <1>1, <1>2

(* The bits are all set at first, and the counter says so (pmm.c:14-16).     *)
LEMMA CounterInit == Init => CounterInv
<1> SUFFICES ASSUME Init PROVE CounterInv
  OBVIOUS
<1>1. used = 0 .. BLOCKS - 1 /\ used_blocks = BLOCKS
  BY DEF Init, Blocks
<1>2. BLOCKS \in Nat
  BY SizesAssumption
<1>3. IsFiniteSet(0 .. BLOCKS - 1) /\ Cardinality(0 .. BLOCKS - 1) = BLOCKS
  BY <1>2, FS_Interval
<1> QED BY <1>1, <1>3 DEF CounterInv

(* Every step either leaves the bitmap and its counter alone or is a call of *)
(* one of the two.                                                          *)
LEMMA CounterStep == CounterInv /\ [Next]_vars => CounterInv'
<1> SUFFICES ASSUME CounterInv, [Next]_vars PROVE CounterInv'
  OBVIOUS
<1>0. ASSUME UNCHANGED pmm PROVE CounterInv'
  BY <1>0 DEF pmm, CounterInv
<1>1. ASSUME NEW next, NEW start, FreeRegions(next, start) PROVE CounterInv'
  BY <1>0, <1>1, MarkFreeCounts DEF FreeRegions
<1>2. CASE PmmInit
  BY <1>0, <1>1, <1>2 DEF PmmInit
<1>3. CASE MarkKernel
  BY <1>0, <1>3, MarkUsedCounts DEF MarkKernel
<1>4. CASE MarkLow
  BY <1>4, MarkUsedCounts DEF MarkLow
<1>5. CASE MbiParse
  BY <1>1, <1>5 DEF MbiParse
<1>6. CASE SkipBlock \/ NewRoot \/ NewTable
  BY <1>6, MarkUsedCounts DEF SkipBlock, NewRoot, NewTable
<1>7. CASE MapDirect \/ MapIdentity \/ MapFramebuffer
  BY <1>0, <1>7 DEF MapDirect, MapIdentity, MapFramebuffer, MapPages
<1>8. CASE Descend \/ WriteEntry
  BY <1>0, <1>8 DEF Descend, WriteEntry
<1>9. CASE MapHeap
  BY <1>0, <1>9, MarkUsedCounts DEF MapHeap
<1>10. CASE UNCHANGED vars
  BY <1>0, <1>10 DEF vars, pmm
<1> QED
  BY <1>2, <1>3, <1>4, <1>5, <1>6, <1>7, <1>8, <1>9, <1>10 DEF Next

(* used_blocks is the number of bits set in pmm_bitmap, in every state of    *)
(* the set-up and for every memory map, kernel image and framebuffer.       *)
THEOREM CounterExactHolds == Spec => []CounterExact
<1>1. CounterInv => CounterExact
  BY DEF CounterInv, CounterExact
<1> QED BY CounterInit, CounterStep, <1>1, PTL DEF Spec

-----------------------------------------------------------------------------
Mapping == {"direct", "identity", "framebuffer", "heap", "done"}

(* Inductive: the loops that free blocks are over when the root exists.      *)
ReservedInv ==
  kernel_pml4 # NULL =>
    phase \in Mapping /\ \A b \in Blocks : Skips(b) => b \in used

(* pmm_alloc_block searches from the bottom (pmm.c:86): when it answers with *)
(* a block beyond the kernel, every block below is taken.                   *)
LEMMA LowestBeyondKernel ==
  ASSUME ~Exhausted, ~Skips(Lowest), NEW b \in Blocks, Skips(b)
  PROVE  b \in used
<1> SUFFICES ASSUME b \notin used PROVE FALSE
  OBVIOUS
<1> DEFINE S == Blocks \ used
<1>1. BLOCKS \in Nat /\ PAGE \in Nat /\ KERNEL_END \in Nat
  BY SizesAssumption
<1>2. S \subseteq 0 .. BLOCKS /\ S # {}
  BY <1>1 DEF Blocks
<1>3. \E x \in S : \A y \in S : x <= y
  BY <1>1, <1>2, LeastElement
<1>4. Lowest \in S /\ Lowest <= b
  BY <1>3 DEF Lowest
<1>5. Lowest \in Nat /\ b \in Nat
  BY <1>1, <1>4 DEF Blocks
<1>6. PICK d \in Nat : b = Lowest + d
  <2>1. b - Lowest \in Nat /\ b = Lowest + (b - Lowest)
    BY <1>4, <1>5
  <2> QED BY <2>1
<1>7. b * PAGE = Lowest * PAGE + d * PAGE /\ d * PAGE \in Nat /\ Lowest * PAGE \in Nat
  BY <1>1, <1>5, <1>6, SMT
<1>8. b * PAGE <= KERNEL_END /\ ~(Lowest * PAGE <= KERNEL_END)
  BY DEF Skips
<1> QED BY <1>1, <1>7, <1>8

LEMMA MarkUsedGrows ==
  ASSUME NEW b, MarkUsed(b) PROVE used \subseteq used'
BY DEF MarkUsed, pmm

LEMMA ReservedStep == ReservedInv /\ [Next]_vars => ReservedInv'
<1> SUFFICES ASSUME ReservedInv, [Next]_vars, kernel_pml4' # NULL
             PROVE  phase' \in Mapping /\ \A b \in Blocks : Skips(b) => b \in used'
  BY DEF ReservedInv, Skips
<1>0. ASSUME kernel_pml4 # NULL, used \subseteq used', phase' \in Mapping
      PROVE  phase' \in Mapping /\ \A b \in Blocks : Skips(b) => b \in used'
  BY <1>0 DEF ReservedInv
<1>1. CASE PmmInit \/ MarkKernel \/ MarkLow \/ MbiParse
  <2>1. phase \notin Mapping
    BY <1>1 DEF PmmInit, MarkKernel, MarkLow, MbiParse, Mapping
  <2>2. kernel_pml4' = kernel_pml4
    BY <1>1 DEF PmmInit, MarkKernel, MarkLow, MbiParse, FreeRegions, tree
  <2> QED BY <2>1, <2>2 DEF ReservedInv
<1>2. CASE SkipBlock \/ NewTable
  <2>1. kernel_pml4' = kernel_pml4 /\ phase' = phase
    BY <1>2 DEF SkipBlock, NewTable, loop, tree
  <2>2. used \subseteq used'
    BY <1>2, MarkUsedGrows DEF SkipBlock, NewTable
  <2> QED BY <1>0, <2>1, <2>2 DEF ReservedInv
<1>3. CASE NewRoot
  <2>1. phase' \in Mapping
    BY <1>3 DEF NewRoot, loop, Mapping
  <2>2. \A b \in Blocks : Skips(b) => b \in used
    BY <1>3, LowestBeyondKernel DEF NewRoot
  <2>3. used \subseteq used'
    BY <1>3, MarkUsedGrows DEF NewRoot
  <2> QED BY <2>1, <2>2, <2>3
<1>4. CASE MapDirect \/ MapIdentity \/ MapFramebuffer
  <2>1. kernel_pml4' = kernel_pml4 /\ used' = used
    BY <1>4 DEF MapDirect, MapIdentity, MapFramebuffer, MapPages, pmm
  <2>2. phase' \in Mapping
    BY <1>4 DEF MapDirect, MapIdentity, MapFramebuffer, MapPages, Mapping
  <2> QED BY <1>0, <2>1, <2>2
<1>5. CASE Descend \/ WriteEntry \/ UNCHANGED vars
  <2>1. kernel_pml4' = kernel_pml4 /\ used' = used /\ phase' = phase
    BY <1>5 DEF Descend, WriteEntry, vars, pmm, tree, loop
  <2> QED BY <1>0, <2>1 DEF ReservedInv
<1>6. CASE MapHeap
  <2>1. kernel_pml4' = kernel_pml4 /\ phase' \in Mapping
    BY <1>6 DEF MapHeap, tree, Mapping
  <2>2. used \subseteq used'
    BY <1>6, MarkUsedGrows DEF MapHeap, pmm
  <2> QED BY <1>0, <2>1, <2>2
<1> QED BY <1>1, <1>2, <1>3, <1>4, <1>5, <1>6 DEF Next

(* Once paging_init has its root table, no allocation can return a block of  *)
(* the kernel's image or below it, although mbi_parse had freed them, and   *)
(* although heap_init does not use safe_pmm_alloc.                          *)
THEOREM ImageReservedHolds == Spec => []ImageReserved
<1>1. Init => ReservedInv
  BY DEF Init, ReservedInv
<1>2. ReservedInv => ImageReserved
  BY DEF ReservedInv, ImageReserved, Skips
<1> QED BY <1>1, <1>2, ReservedStep, PTL DEF Spec

-----------------------------------------------------------------------------
(* The page numbers *)

LEMMA SpanFacts ==
  /\ Span[0] = 1
  /\ \A k \in 1 .. LEVELS : Span[k] = FANOUT * Span[k - 1]
  /\ \A k \in 0 .. LEVELS : Span[k] \in Nat \ {0}
<1> DEFINE N == LEVELS
           T == Nat \ {0}
           step == [k \in 1 .. N |-> [x \in T |-> FANOUT * x]]
           Rec(g) == g = [k \in 0 .. N |-> IF k = 0 THEN 1 ELSE FANOUT * g[k - 1]]
           span == CHOOSE g : Rec(g)
<1>1. N \in Nat /\ FANOUT \in Nat \ {0}
  BY SizesAssumption
<1>2. \A x \in T : FANOUT * x \in T
  BY <1>1
<1>3. Span = span
  BY DEF Span
<1> HIDE DEF N, T
<1>4. 1 \in T
  BY DEF T
<1>5. StepsOf(step, N, T)
  BY <1>2 DEF StepsOf
<1>6. \E g : Rec(g)
  <2> HIDE DEF step
  <2>1. PICK g : Follows(g, N, T, 1, step)
    BY <1>1, <1>4, <1>5, BoundedRecursion
  <2>2. ASSUME NEW k \in 0 .. N, k # 0 PROVE g[k] = FANOUT * g[k - 1]
    <3>1. k \in 1 .. N /\ k - 1 \in 0 .. N
      BY <2>2, <1>1
    <3>2. g[k - 1] \in T
      BY <2>1, <3>1 DEF Follows
    <3>3. step[k][g[k - 1]] = FANOUT * g[k - 1]
      BY <3>1, <3>2 DEF step
    <3> QED BY <2>1, <3>1, <3>3 DEF Follows
  <2>3. g = [k \in 0 .. N |-> IF k = 0 THEN 1 ELSE FANOUT * g[k - 1]]
    BY <2>1, <2>2 DEF Follows
  <2> QED BY <2>3
<1>7. Rec(span)
  <2> HIDE DEF Rec
  <2> QED BY <1>6
<1> HIDE DEF span
<1>8. /\ span[0] = 1
      /\ \A k \in 1 .. N : span[k] = FANOUT * span[k - 1]
  <2>1. span = [k \in 0 .. N |-> IF k = 0 THEN 1 ELSE FANOUT * span[k - 1]]
    BY <1>7
  <2> HIDE DEF Rec
  <2>2. span[0] = 1
    BY <1>1, <2>1
  <2>3. ASSUME NEW k \in 1 .. N PROVE span[k] = FANOUT * span[k - 1]
    <3>1. k \in 0 .. N /\ k # 0
      BY <1>1
    <3> QED BY <2>1, <3>1
  <2> QED BY <2>2, <2>3
<1> HIDE DEF Rec
<1> DEFINE S == {k \in 0 .. N : span[k] \in T}
<1>9. 0 \in S
  BY <1>1, <1>4, <1>8
<1>10. ASSUME NEW k \in 0 .. N - 1, k \in S PROVE k + 1 \in S
  <2>1. k + 1 \in 1 .. N /\ (k + 1) - 1 = k /\ k + 1 \in 0 .. N
    BY <1>1
  <2>2. span[k + 1] = FANOUT * span[k]
    BY <1>8, <2>1
  <2> QED BY <1>2, <1>10, <2>1, <2>2
<1> HIDE DEF S
<1>11. 0 .. N \subseteq S
  BY <1>1, <1>9, <1>10, BoundedInduction
<1> QED BY <1>3, <1>8, <1>11 DEF S, N, T

(* A quotient is the one with its remainder.                                *)
LEMMA QuotientIs ==
  ASSUME NEW d \in Nat \ {0}, NEW q \in Nat, NEW r \in Nat, r < d
  PROVE  (d * q + r) \div d = q
<1> DEFINE n == d * q + r
           p == n \div d
           t == n % d
<1>1. n \in Nat /\ p \in Nat /\ t \in Nat /\ t < d /\ n = d * p + t
  OBVIOUS
<1> HIDE DEF p, t
<1>2. ASSUME p < q PROVE FALSE
  <2>1. PICK e \in Nat : q = p + 1 + e
    <3>1. q - p - 1 \in Nat /\ q = p + 1 + (q - p - 1)
      BY <1>1, <1>2
    <3> QED BY <3>1
  <2>2. d * q = d * p + d + d * e /\ d * e \in Nat /\ d * p \in Nat
    BY <1>1, <2>1
  <2> QED BY <1>1, <2>2
<1>3. ASSUME q < p PROVE FALSE
  <2>1. PICK e \in Nat : p = q + 1 + e
    <3>1. p - q - 1 \in Nat /\ p = q + 1 + (p - q - 1)
      BY <1>1, <1>3
    <3> QED BY <3>1
  <2>2. d * p = d * q + d + d * e /\ d * e \in Nat /\ d * q \in Nat
    BY <1>1, <2>1
  <2> QED BY <1>1, <2>2
<1> QED BY <1>1, <1>2, <1>3 DEF p

LEMMA DivMod ==
  ASSUME NEW n \in Nat, NEW d \in Nat \ {0}
  PROVE  n \div d \in Nat /\ n % d \in Nat /\ n % d < d /\ n = d * (n \div d) + (n % d)
<1>1. n \div d \in Nat
  OBVIOUS
<1>2. n % d \in Nat /\ n % d < d
  OBVIOUS
<1>3. n = d * (n \div d) + (n % d)
  OBVIOUS
<1> QED BY <1>1, <1>2, <1>3

(* Division by a product is division by one factor after the other.         *)
LEMMA DivDiv ==
  ASSUME NEW n \in Nat, NEW c \in Nat \ {0}, NEW d \in Nat \ {0}
  PROVE  n \div (c * d) = (n \div d) \div c
<1> DEFINE q == n \div d
           r == n % d
           p == q \div c
           t == q % c
           s == d * t + r
<1>1. q \in Nat /\ r \in Nat /\ r < d /\ n = d * q + r
  BY DivMod
<1> HIDE DEF q, r
<1>2. p \in Nat /\ t \in Nat /\ t < c /\ q = c * p + t
  BY <1>1, DivMod
<1> HIDE DEF p, t
<1>3. c * d \in Nat \ {0} /\ s \in Nat
  BY <1>1, <1>2
<1>4. s < c * d
  <2>1. PICK e \in Nat : c = t + 1 + e
    <3>1. c - t - 1 \in Nat /\ c = t + 1 + (c - t - 1)
      BY <1>2
    <3> QED BY <3>1
  <2>2. c * d = d * t + d + d * e /\ d * e \in Nat
    BY <1>2, <2>1
  <2> QED BY <1>1, <1>2, <2>2
<1>5. n = (c * d) * p + s
  <2>1. d * q = d * (c * p) + d * t
    BY <1>1, <1>2
  <2>2. d * (c * p) = (c * d) * p
    BY <1>1, <1>2
  <2> QED BY <1>1, <1>2, <2>1, <2>2
<1> HIDE DEF s
<1>6. ((c * d) * p + s) \div (c * d) = p
  <2> DEFINE cd == c * d
  <2> HIDE DEF cd
  <2>1. cd \in Nat \ {0} /\ s < cd
    BY <1>3, <1>4 DEF cd
  <2>2. (cd * p + s) \div cd = p
    BY <1>2, <1>3, <2>1, QuotientIs
  <2> QED BY <2>2 DEF cd
<1> QED BY <1>5, <1>6 DEF p, q

(* The part of a page's number that the walk has used up to table k is the   *)
(* indices it used; so no two pages have all indices in common.             *)
LEMMA IndexFacts ==
  ASSUME NEW v \in Nat, NEW k \in 0 .. LEVELS - 1
  PROVE  /\ IndexAt(v, k) \in Index
         /\ v \div Span[LEVELS - 1 - k] = FANOUT * (v \div Span[LEVELS - k]) + IndexAt(v, k)
<1> DEFINE m == LEVELS - 1 - k
           s == Span[m]
           q == v \div s
<1>1. m \in 0 .. LEVELS /\ m + 1 \in 1 .. LEVELS /\ (m + 1) - 1 = m /\ m + 1 = LEVELS - k
      /\ FANOUT \in Nat \ {0}
  BY SizesAssumption
<1>2. s \in Nat \ {0} /\ Span[LEVELS - k] = FANOUT * s
  BY <1>1, SpanFacts
<1>3. IndexAt(v, k) = q % FANOUT
  BY DEF IndexAt
<1> HIDE DEF s
<1>4. v \div (FANOUT * s) = q \div FANOUT
  BY <1>1, <1>2, DivDiv
<1>5. q \in Nat
  BY <1>2, DivMod
<1> HIDE DEF q
<1>6. q % FANOUT \in Nat /\ q % FANOUT < FANOUT /\ q = FANOUT * (q \div FANOUT) + (q % FANOUT)
  BY <1>1, <1>5, DivMod
<1>7. q % FANOUT \in Index
  BY <1>1, <1>6 DEF Index
<1> QED BY <1>2, <1>3, <1>4, <1>6, <1>7 DEF q, s

LEMMA SamePage ==
  ASSUME NEW v \in Pages, NEW w \in Pages,
         \A k \in 0 .. LEVELS - 1 : IndexAt(v, k) = IndexAt(w, k)
  PROVE  v = w
<1> DEFINE S == {k \in 0 .. LEVELS : v \div Span[LEVELS - k] = w \div Span[LEVELS - k]}
<1>1. /\ v \in Nat /\ w \in Nat /\ LEVELS \in Nat
      /\ Span[LEVELS] \in Nat \ {0} /\ v < Span[LEVELS] /\ w < Span[LEVELS]
  BY SpanFacts, SizesAssumption DEF Pages
<1>2. 0 \in S
  <2> DEFINE d == Span[LEVELS]
  <2>1. d * 0 + v = v /\ d * 0 + w = w
    BY <1>1
  <2> HIDE DEF d
  <2>2. (d * 0 + v) \div d = 0 /\ (d * 0 + w) \div d = 0
    BY <1>1, QuotientIs DEF d
  <2> QED BY <1>1, <2>1, <2>2 DEF d
<1>3. ASSUME NEW k \in 0 .. LEVELS - 1, k \in S PROVE k + 1 \in S
  <2>1. k + 1 \in 0 .. LEVELS /\ LEVELS - (k + 1) = LEVELS - 1 - k
    BY <1>1
  <2>2. v \div Span[LEVELS - k] = w \div Span[LEVELS - k]
    BY <1>3
  <2>3. v \div Span[LEVELS - 1 - k] = w \div Span[LEVELS - 1 - k]
    BY <1>1, <2>2, IndexFacts
  <2> QED BY <2>1, <2>3
<1> HIDE DEF S
<1>4. LEVELS \in S
  <2>1. 0 .. LEVELS \subseteq S
    BY <1>1, <1>2, <1>3, BoundedInduction
  <2> QED BY <1>1, <2>1
<1>5. v \div 1 = w \div 1
  BY <1>1, <1>4, SpanFacts DEF S
<1> QED BY <1>1, <1>5

-----------------------------------------------------------------------------
(* The tables *)

Place == Nat \cup {NULL}

(* The tables are those of a tree: T[k] are the tables k steps from the     *)
(* root, and each is entered in one place.                                  *)
Shape(T, tab, root) ==
  /\ T \in [0 .. LEVELS - 1 -> SUBSET Blocks]
  /\ T[0] = {root} \ {NULL}
  /\ root = NULL => \A k \in 0 .. LEVELS - 1 : T[k] = {}
  /\ \A k \in 0 .. LEVELS - 2, f \in Blocks, i \in Index :
       f \in T[k] /\ tab[f][i] # NULL => tab[f][i] \in T[k + 1]
  /\ \A k \in 0 .. LEVELS - 2 : \A g \in T[k + 1] : \E f \in T[k], i \in Index : tab[f][i] = g
  /\ \A j, k \in 0 .. LEVELS - 1 : j # k => T[j] \cap T[k] = {}
  /\ \A k \in 0 .. LEVELS - 2, f, g \in Blocks, i, j \in Index :
       /\ f \in T[k] /\ g \in T[k]
       /\ tab[f][i] # NULL /\ tab[f][i] = tab[g][j]
       => f = g /\ i = j

(* The way from the root to the frame of a page.                            *)
Step(tab, place, v, k) == IF place = NULL THEN NULL ELSE tab[place][IndexAt(v, k)]

IsWay(at, tab, root, v) ==
  /\ at \in [0 .. LEVELS -> Place]
  /\ at[0] = root
  /\ \A k \in 1 .. LEVELS : at[k] = Step(tab, at[k - 1], v, k - 1)

FrameOf(tab, root, v) ==
  LET at[k \in 0 .. LEVELS] ==
        IF k = 0 THEN root
        ELSE IF at[k - 1] = NULL THEN NULL
        ELSE tab[at[k - 1]][IndexAt(v, k - 1)]
  IN  at[LEVELS]

LEMMA TranslateIs ==
  ASSUME NEW v
  PROVE  /\ Translate(v) = FrameOf(table, kernel_pml4, v)
         /\ Translate(v)' = FrameOf(table', kernel_pml4', v)
  BY DEF Translate, FrameOf

(* The recursion ends in the frame at the end of the one way there is.      *)
LEMMA WayIs ==
  ASSUME NEW tab, NEW root, NEW v, NEW at, IsWay(at, tab, root, v)
  PROVE  FrameOf(tab, root, v) = at[LEVELS]
<1> DEFINE N == LEVELS
           Rec(g) == g = [k \in 0 .. N |->
                            IF k = 0 THEN root
                            ELSE IF g[k - 1] = NULL THEN NULL
                            ELSE tab[g[k - 1]][IndexAt(v, k - 1)]]
           fr == CHOOSE g : Rec(g)
<1>1. FrameOf(tab, root, v) = fr[N]
  BY DEF FrameOf
<1>2. N \in Nat
  BY SizesAssumption
<1>3. Rec(at)
  <2>1. ASSUME NEW k \in 0 .. N, k # 0
        PROVE  at[k] = IF at[k - 1] = NULL THEN NULL ELSE tab[at[k - 1]][IndexAt(v, k - 1)]
    <3>1. k \in 1 .. N
      BY <1>2, <2>1
    <3> QED BY <3>1 DEF IsWay, Step
  <2> QED BY <2>1 DEF IsWay
<1>4. Rec(fr)
  <2> HIDE DEF Rec
  <2> QED BY <1>3
<1> HIDE DEF fr
<1> DEFINE S == {k \in 0 .. N : fr[k] = at[k]}
<1>5. 0 \in S
  BY <1>2, <1>4 DEF IsWay
<1>6. ASSUME NEW k \in 0 .. N - 1, k \in S PROVE k + 1 \in S
  <2>1. k + 1 \in 1 .. N /\ (k + 1) - 1 = k /\ k + 1 \in 0 .. N /\ k + 1 # 0
    BY <1>2
  <2>2. fr[k + 1] = IF fr[k] = NULL THEN NULL ELSE tab[fr[k]][IndexAt(v, k)]
    BY <1>4, <2>1
  <2> HIDE DEF Rec
  <2>3. at[k + 1] = IF at[k] = NULL THEN NULL ELSE tab[at[k]][IndexAt(v, k)]
    BY <2>1 DEF IsWay, Step
  <2> QED BY <1>6, <2>1, <2>2, <2>3
<1> HIDE DEF Rec, S
<1>7. N \in S
  <2>1. 0 .. N \subseteq S
    BY <1>2, <1>5, <1>6, BoundedInduction
  <2> QED BY <1>2, <2>1
<1> QED BY <1>1, <1>7 DEF S

LEMMA WayInTree ==
  ASSUME NEW T, NEW tab \in [Blocks -> [Index -> Place]], NEW root, Shape(T, tab, root),
         NEW v \in Nat, NEW at, IsWay(at, tab, root, v), NEW m \in 0 .. LEVELS - 1
  PROVE  at[m] \in T[m] \cup {NULL}
<1> DEFINE N == LEVELS - 1
           S == {k \in 0 .. N : at[k] \in T[k] \cup {NULL}}
<1>1. N \in Nat /\ LEVELS \in Nat
  BY SizesAssumption
<1>2. 0 \in S
  BY <1>1 DEF Shape, IsWay
<1>3. ASSUME NEW k \in 0 .. N - 1, k \in S PROVE k + 1 \in S
  <2>1. k \in 0 .. LEVELS - 2 /\ k + 1 \in 1 .. LEVELS /\ (k + 1) - 1 = k /\ k + 1 \in 0 .. N
        /\ k \in 0 .. LEVELS - 1
    BY <1>1
  <2>2. at[k + 1] = Step(tab, at[k], v, k)
    BY <2>1 DEF IsWay
  <2>3. CASE at[k] = NULL
    BY <2>1, <2>2, <2>3 DEF Step
  <2>4. CASE at[k] # NULL
    <3>1. at[k] \in T[k] /\ at[k] \in Blocks
      BY <1>3, <2>1, <2>4 DEF Shape
    <3>2. IndexAt(v, k) \in Index /\ at[k + 1] = tab[at[k]][IndexAt(v, k)]
      BY <2>1, <2>2, <2>4, IndexFacts DEF Step
    <3>3. at[k + 1] # NULL => at[k + 1] \in T[k + 1]
      BY <2>1, <3>1, <3>2 DEF Shape
    <3> QED BY <2>1, <3>3
  <2> QED BY <2>3, <2>4
<1> HIDE DEF S
<1>4. 0 .. N \subseteq S
  BY <1>1, <1>2, <1>3, BoundedInduction
<1> QED BY <1>4 DEF S

LEMMA WayExists ==
  ASSUME NEW T, NEW tab \in [Blocks -> [Index -> Place]], NEW root \in Blocks \cup {NULL},
         Shape(T, tab, root), NEW v \in Nat
  PROVE  \E at : IsWay(at, tab, root, v)
<1> DEFINE N == LEVELS
           next(x, k) == IF x \in Blocks THEN tab[x][IndexAt(v, k - 1)] ELSE NULL
           step == [k \in 1 .. N |-> [x \in Place |-> next(x, k)]]
<1>1. N \in Nat \ {0} /\ Blocks \subseteq Nat /\ NULL \notin Blocks
  BY SizesAssumption, NullAssumption DEF Blocks
<1>2. root \in Place
  BY <1>1 DEF Place
<1>3. ASSUME NEW k \in 1 .. N, NEW x \in Place PROVE next(x, k) \in Place
  <2>1. k - 1 \in 0 .. LEVELS - 1
    BY <1>1
  <2>2. IndexAt(v, k - 1) \in Index
    BY <2>1, IndexFacts
  <2> QED BY <2>2 DEF Place
<1>4. StepsOf(step, N, Place)
  <2> HIDE DEF next
  <2> QED BY <1>3 DEF StepsOf
<1>5. PICK g : Follows(g, N, Place, root, step)
  <2> HIDE DEF step
  <2> QED BY <1>1, <1>2, <1>4, BoundedRecursion
<1>6. /\ g \in [0 .. N -> Place] /\ g[0] = root
      /\ \A k \in 1 .. N : g[k] = next(g[k - 1], k)
  <2> HIDE DEF next
  <2>1. ASSUME NEW k \in 1 .. N PROVE g[k] = next(g[k - 1], k)
    <3>1. k - 1 \in 0 .. N
      BY <1>1
    <3>2. g[k - 1] \in Place /\ g[k] = step[k][g[k - 1]]
      BY <1>5, <3>1 DEF Follows
    <3> QED BY <3>2
  <2> QED BY <1>5, <2>1 DEF Follows
<1> HIDE DEF step
<1> DEFINE S == {k \in 0 .. N - 1 : g[k] \in T[k] \cup {NULL}}
<1>7. 0 \in S
  BY <1>1, <1>6 DEF Shape
<1>8. ASSUME NEW k \in 0 .. (N - 1) - 1, k \in S PROVE k + 1 \in S
  <2>1. k \in 0 .. LEVELS - 2 /\ k + 1 \in 1 .. LEVELS /\ (k + 1) - 1 = k /\ k + 1 \in 0 .. N - 1
        /\ k \in 0 .. LEVELS - 1
    BY <1>1
  <2>2. g[k + 1] = IF g[k] \in Blocks THEN tab[g[k]][IndexAt(v, k)] ELSE NULL
    BY <1>6, <2>1
  <2>3. CASE g[k] = NULL
    BY <1>1, <2>1, <2>2, <2>3
  <2>4. CASE g[k] # NULL
    <3>1. g[k] \in T[k] /\ g[k] \in Blocks
      BY <1>8, <2>1, <2>4 DEF Shape
    <3>2. IndexAt(v, k) \in Index /\ g[k + 1] = tab[g[k]][IndexAt(v, k)]
      BY <2>1, <2>2, <3>1, IndexFacts
    <3>3. g[k + 1] # NULL => g[k + 1] \in T[k + 1]
      BY <2>1, <3>1, <3>2 DEF Shape
    <3> QED BY <2>1, <3>3
  <2> QED BY <2>3, <2>4
<1> HIDE DEF S
<1>9. 0 .. N - 1 \subseteq S
  BY <1>1, <1>7, <1>8, BoundedInduction
<1>10. ASSUME NEW k \in 1 .. N PROVE g[k] = Step(tab, g[k - 1], v, k - 1)
  <2>1. k - 1 \in 0 .. N - 1
    BY <1>1
  <2>2. g[k - 1] \in Blocks \cup {NULL}
    BY <1>9, <2>1 DEF S, Shape
  <2> QED BY <1>1, <1>6, <2>2 DEF Step
<1> QED BY <1>6, <1>10 DEF IsWay

(* Two ways that meet have come the same way.                               *)
LEMMA SameWay ==
  ASSUME NEW T, NEW tab \in [Blocks -> [Index -> Place]], NEW root, Shape(T, tab, root),
         NEW v \in Nat, NEW p, IsWay(p, tab, root, v),
         NEW w \in Nat, NEW q, IsWay(q, tab, root, w),
         NEW m \in 0 .. LEVELS - 1, p[m] = q[m], p[m] # NULL
  PROVE  \A k \in 0 .. m - 1 : IndexAt(v, k) = IndexAt(w, k)
<1> DEFINE Same(k) == IndexAt(v, k) = IndexAt(w, k)
           Met(d) == /\ p[m - d] = q[m - d] /\ p[m - d] # NULL
                     /\ \A k \in m - d .. m - 1 : Same(k)
           S == {d \in 0 .. m : Met(d)}
<1>1. m \in Nat /\ LEVELS \in Nat
  BY SizesAssumption
<1>2. 0 \in S
  <2>1. m - 0 = m /\ \A k \in m .. m - 1 : FALSE
    BY <1>1
  <2> QED BY <1>1, <2>1
<1>3. ASSUME NEW d \in 0 .. m - 1, d \in S PROVE d + 1 \in S
  <2> DEFINE k == m - (d + 1)
  <2>1. /\ k \in 0 .. LEVELS - 2 /\ k + 1 \in 1 .. LEVELS /\ (k + 1) - 1 = k /\ k + 1 = m - d
        /\ k \in 0 .. LEVELS - 1 /\ d + 1 \in 0 .. m
        /\ \A j \in k .. m - 1 : j = k \/ j \in m - d .. m - 1
    BY <1>1
  <2> HIDE DEF k
  <2>2. Met(d)
    BY <1>3
  <2>3. p[k + 1] = q[k + 1] /\ p[k + 1] # NULL
    BY <2>1, <2>2
  <2>4. p[k + 1] = Step(tab, p[k], v, k) /\ q[k + 1] = Step(tab, q[k], w, k)
    BY <2>1 DEF IsWay
  <2>5. p[k] # NULL /\ q[k] # NULL
    BY <2>3, <2>4 DEF Step
  <2>6. p[k] \in T[k] /\ q[k] \in T[k]
    BY <2>1, <2>5, WayInTree
  <2>7. /\ IndexAt(v, k) \in Index /\ IndexAt(w, k) \in Index
        /\ p[k + 1] = tab[p[k]][IndexAt(v, k)] /\ q[k + 1] = tab[q[k]][IndexAt(w, k)]
    BY <2>1, <2>4, <2>5, IndexFacts DEF Step
  <2>8. p[k] = q[k] /\ Same(k)
    <3> DEFINE i == IndexAt(v, k)
               j == IndexAt(w, k)
    <3>1. p[k] \in Blocks /\ q[k] \in Blocks
      BY <2>1, <2>6 DEF Shape
    <3>2. tab[p[k]][i] = tab[q[k]][j] /\ tab[p[k]][i] # NULL /\ i \in Index /\ j \in Index
      BY <2>3, <2>7
    <3> HIDE DEF i, j
    <3>3. p[k] = q[k] /\ i = j
      BY <2>1, <2>6, <3>1, <3>2 DEF Shape
    <3> QED BY <3>3 DEF i, j
  <2>9. \A j \in k .. m - 1 : Same(j)
    BY <2>1, <2>2, <2>8
  <2> QED BY <2>1, <2>5, <2>8, <2>9 DEF k
<1> HIDE DEF S
<1>4. m \in S
  <2>1. 0 .. m \subseteq S
    BY <1>1, <1>2, <1>3, BoundedInduction
  <2> QED BY <1>1, <2>1
<1>5. m - m = 0
  BY <1>1
<1> QED BY <1>4, <1>5 DEF S

-----------------------------------------------------------------------------
(* What the writes to the tables change *)

Cleared(tab, f) == [tab EXCEPT ![f] = [i \in Index |-> NULL]]
WithTable(tab, f, c, i) == [Cleared(tab, f) EXCEPT ![c][i] = f]
WithFrame(tab, c, i, p) == [tab EXCEPT ![c][i] = p]

LEMMA ClearedFacts ==
  ASSUME NEW tab \in [Blocks -> [Index -> Place]], NEW f \in Blocks
  PROVE  /\ Cleared(tab, f) \in [Blocks -> [Index -> Place]]
         /\ \A i \in Index : Cleared(tab, f)[f][i] = NULL
         /\ \A g \in Blocks \ {f} : Cleared(tab, f)[g] = tab[g]
  BY DEF Cleared, Place

LEMMA EntryFacts ==
  ASSUME NEW tab \in [Blocks -> [Index -> Place]], NEW c \in Blocks, NEW i \in Index,
         NEW p \in Place
  PROVE  LET tab2 == [tab EXCEPT ![c][i] = p]
         IN  /\ tab2 \in [Blocks -> [Index -> Place]] /\ tab2[c][i] = p
             /\ \A j \in Index : j # i => tab2[c][j] = tab[c][j]
             /\ \A g \in Blocks : g # c => tab2[g] = tab[g]
  OBVIOUS

LEMMA LevelFacts ==
  /\ LEVELS \in Nat /\ LEVELS - 1 \in Nat /\ 0 \in 0 .. LEVELS - 1 /\ 0 \in 0 .. LEVELS
  /\ LEVELS - 1 \in 0 .. LEVELS - 1
  /\ \A k \in 0 .. LEVELS - 2 : /\ k \in 0 .. LEVELS - 1 /\ k + 1 \in 0 .. LEVELS - 1
                                /\ k + 1 \in 1 .. LEVELS /\ (k + 1) - 1 = k /\ k + 1 # k
                                /\ k + 2 \in 1 .. LEVELS /\ (k + 2) - 1 = k + 1
  /\ \A k \in 1 .. LEVELS : /\ k - 1 \in 0 .. LEVELS - 1 /\ k \in 0 .. LEVELS
                            /\ k - 1 \in 0 .. LEVELS
  /\ NULL \notin Nat /\ Blocks \subseteq Nat /\ NULL \notin Blocks
  BY SizesAssumption, NullAssumption DEF Blocks

(* paging_init's first block: a tree of one table without entries.          *)
LEMMA NewRootShape ==
  ASSUME NEW T, NEW tab \in [Blocks -> [Index -> Place]], Shape(T, tab, NULL),
         NEW f \in Blocks
  PROVE  /\ \E T2 : /\ Shape(T2, Cleared(tab, f), f)
                    /\ T2[0] = {f} /\ \A k \in 1 .. LEVELS - 1 : T2[k] = {}
         /\ \A v \in Nat : FrameOf(Cleared(tab, f), f, v) = FrameOf(tab, NULL, v)
<1> DEFINE tab2 == Cleared(tab, f)
           T2 == [k \in 0 .. LEVELS - 1 |-> IF k = 0 THEN {f} ELSE {}]
<1>1. /\ tab2 \in [Blocks -> [Index -> Place]]
      /\ \A i \in Index : tab2[f][i] = NULL
  BY ClearedFacts
<1> HIDE DEF tab2
<1>2. /\ T2 \in [0 .. LEVELS - 1 -> SUBSET Blocks] /\ T2[0] = {f}
      /\ \A k \in 0 .. LEVELS - 1 : k # 0 => T2[k] = {}
  BY LevelFacts
<1> HIDE DEF T2
<1>3. Shape(T2, tab2, f)
  <2>1. \A k \in 0 .. LEVELS - 2 : T2[k + 1] = {} /\ (k # 0 => T2[k] = {})
    BY <1>2, LevelFacts
  <2>2. \A k \in 0 .. LEVELS - 2, g \in Blocks, i \in Index :
          g \in T2[k] => tab2[g][i] = NULL
    BY <1>1, <1>2, <2>1
  <2>3. \A j, k \in 0 .. LEVELS - 1 : j # k => T2[j] \cap T2[k] = {}
    BY <1>2
  <2> QED BY <1>2, <2>1, <2>2, <2>3, LevelFacts DEF Shape
<1>4. ASSUME NEW v \in Nat PROVE FrameOf(tab2, f, v) = FrameOf(tab, NULL, v)
  <2>1. PICK at : IsWay(at, tab, NULL, v)
    BY WayExists
  <2>2. at \in [0 .. LEVELS -> Place] /\ at[0] = NULL
    BY <2>1 DEF IsWay
  <2> DEFINE N == LEVELS
             S == {k \in 0 .. N : at[k] = NULL}
  <2>3. N \in Nat /\ 0 \in S
    BY <2>2, LevelFacts
  <2>4. ASSUME NEW k \in 0 .. N - 1, k \in S PROVE k + 1 \in S
    <3>1. k + 1 \in 1 .. N /\ (k + 1) - 1 = k /\ k + 1 \in 0 .. N
      BY <2>3
    <3> QED BY <2>1, <2>4, <3>1 DEF IsWay, Step
  <2> HIDE DEF S
  <2>5. 0 .. N \subseteq S
    BY <2>3, <2>4, BoundedInduction
  <2>6. \A k \in 0 .. LEVELS : at[k] = NULL
    BY <2>5 DEF S
  <2> DEFINE to == [at EXCEPT ![0] = f]
  <2>7. /\ to \in [0 .. LEVELS -> Place] /\ to[0] = f
        /\ \A k \in 1 .. LEVELS : to[k] = NULL
    BY <2>2, <2>6, LevelFacts DEF Place
  <2> HIDE DEF to
  <2>8. ASSUME NEW k \in 1 .. LEVELS PROVE to[k] = Step(tab2, to[k - 1], v, k - 1)
    <3>1. CASE k = 1
      <4>1. k - 1 = 0 /\ IndexAt(v, 0) \in Index
        BY <3>1, LevelFacts, IndexFacts
      <4>2. f # NULL
        BY LevelFacts
      <4> QED BY <1>1, <2>7, <4>1, <4>2 DEF Step
    <3>2. CASE k # 1
      <4>1. k - 1 \in 1 .. LEVELS
        BY <3>2, LevelFacts
      <4> QED BY <2>7, <4>1 DEF Step
    <3> QED BY <3>1, <3>2
  <2>9. IsWay(to, tab2, f, v)
    BY <2>7, <2>8 DEF IsWay
  <2>10. at[LEVELS] = NULL /\ to[LEVELS] = NULL
    <3>1. LEVELS \in 1 .. LEVELS /\ LEVELS \in 0 .. LEVELS
      BY LevelFacts
    <3> QED BY <2>6, <2>7, <3>1
  <2> QED BY <2>1, <2>9, <2>10, WayIs
<1>5. T2[0] = {f} /\ \A k \in 1 .. LEVELS - 1 : T2[k] = {}
  BY <1>2, LevelFacts
<1> QED BY <1>3, <1>4, <1>5 DEF tab2

(* An entry for a new table, and the tree with it.                          *)
CanAdd(T, tab, root, l, c, i, f) ==
  /\ tab \in [Blocks -> [Index -> Place]] /\ Shape(T, tab, root)
  /\ l \in 0 .. LEVELS - 2 /\ c \in T[l] /\ i \in Index /\ tab[c][i] = NULL
  /\ f \in Blocks /\ \A k \in 0 .. LEVELS - 1 : f \notin T[k]

Added(T, tab, tab2, root, l, c, i, f) ==
  /\ \E T2 : /\ Shape(T2, tab2, root) /\ T2[l + 1] = T[l + 1] \cup {f}
             /\ \A k \in 0 .. LEVELS - 1 : k # l + 1 => T2[k] = T[k]
  /\ \A v \in Nat : \A at : IsWay(at, tab, root, v) =>
       \E to : /\ IsWay(to, tab2, root, v) /\ to[l] = at[l] /\ to[LEVELS] = at[LEVELS]
               /\ at[l] = c /\ IndexAt(v, l) = i => to[l + 1] = f

(* map_page's new table: a leaf of the tree, with no entries, in one entry  *)
(* that was empty.  No page gains or loses a frame.                         *)
LEMMA NewTableShape ==
  ASSUME NEW T, NEW tab, NEW root, NEW l, NEW c, NEW i, NEW f, CanAdd(T, tab, root, l, c, i, f),
         NEW tab2, tab2 = WithTable(tab, f, c, i)
  PROVE  Added(T, tab, tab2, root, l, c, i, f)
<1>0. /\ tab \in [Blocks -> [Index -> Place]] /\ Shape(T, tab, root)
      /\ l \in 0 .. LEVELS - 2 /\ c \in T[l] /\ i \in Index /\ tab[c][i] = NULL
      /\ f \in Blocks /\ \A k \in 0 .. LEVELS - 1 : f \notin T[k]
  BY DEF CanAdd
<1> USE <1>0
<1> DEFINE T2 == [T EXCEPT ![l + 1] = T[l + 1] \cup {f}]
<1>1. /\ l \in 0 .. LEVELS - 1 /\ l + 1 \in 0 .. LEVELS - 1 /\ c \in Blocks /\ f # c /\ f # NULL
      /\ l + 1 # l /\ T \in [0 .. LEVELS - 1 -> SUBSET Blocks]
  BY LevelFacts DEF Shape
<1>2. /\ tab2 \in [Blocks -> [Index -> Place]]
      /\ \A j \in Index : tab2[f][j] = NULL
      /\ tab2[c][i] = f
      /\ \A j \in Index : j # i => tab2[c][j] = tab[c][j]
      /\ \A g \in Blocks : g # f /\ g # c => tab2[g] = tab[g]
  <2> DEFINE z == Cleared(tab, f)
  <2>1. /\ z \in [Blocks -> [Index -> Place]] /\ z[c] = tab[c]
        /\ \A j \in Index : z[f][j] = NULL
        /\ \A g \in Blocks \ {f} : z[g] = tab[g]
    BY <1>1, ClearedFacts
  <2> HIDE DEF z
  <2>2. f \in Place
    BY <1>1, LevelFacts DEF Place
  <2> DEFINE u == [z EXCEPT ![c][i] = f]
  <2>3. /\ u \in [Blocks -> [Index -> Place]] /\ u[c][i] = f
        /\ \A j \in Index : j # i => u[c][j] = z[c][j]
        /\ \A g \in Blocks : g # c => u[g] = z[g]
    <3>1. c \in Blocks
      BY <1>1
    <3> QED BY <2>1, <2>2, <3>1, EntryFacts
  <2>4. tab2 = u
    BY DEF z, WithTable
  <2> HIDE DEF u
  <2>5. /\ tab2 \in [Blocks -> [Index -> Place]] /\ tab2[c][i] = f
        /\ \A j \in Index : j # i => tab2[c][j] = z[c][j]
        /\ \A g \in Blocks : g # c => tab2[g] = z[g]
    BY <2>3, <2>4
  <2>6. \A j \in Index : tab2[f][j] = NULL
    <3>1. tab2[f] = z[f]
      BY <1>1, <2>5
    <3> QED BY <2>1, <3>1
  <2>7. \A j \in Index : j # i => tab2[c][j] = tab[c][j]
    BY <2>1, <2>5
  <2>8. \A g \in Blocks : g # f /\ g # c => tab2[g] = tab[g]
    BY <2>1, <2>5
  <2> QED BY <2>5, <2>6, <2>7, <2>8
<1>3. /\ T2 \in [0 .. LEVELS - 1 -> SUBSET Blocks] /\ T2[l + 1] = T[l + 1] \cup {f}
      /\ \A k \in 0 .. LEVELS - 1 : k # l + 1 => T2[k] = T[k]
  BY <1>1
<1> HIDE DEF T2
<1>4. \A k \in 0 .. LEVELS - 1, g \in Blocks : g \in T2[k] <=> g \in T[k] \/ (k = l + 1 /\ g = f)
  BY <1>1, <1>3
<1>5. \A k \in 0 .. LEVELS - 1 : c \in T[k] => k = l
  BY <1>1 DEF Shape
\* The entries that count, before and after.
<1>6. \A k \in 0 .. LEVELS - 2, g \in Blocks, j \in Index :
        g \in T2[k] /\ tab2[g][j] # NULL =>
          \/ k = l /\ g = c /\ j = i /\ tab2[g][j] = f
          \/ g \in T[k] /\ ~(g = c /\ j = i) /\ tab2[g][j] = tab[g][j]
  BY <1>1, <1>2, <1>4, <1>5, LevelFacts
<1>7. Shape(T2, tab2, root)
  <2>1. T2[0] = {root} \ {NULL}
    <3>1. 0 # l + 1 /\ 0 \in 0 .. LEVELS - 1
      BY <1>1, LevelFacts
    <3> QED BY <1>3, <3>1 DEF Shape
  <2>2. root # NULL
    BY <1>1 DEF Shape
  <2>3. ASSUME NEW k \in 0 .. LEVELS - 2, NEW g \in Blocks, NEW j \in Index,
               g \in T2[k], tab2[g][j] # NULL
        PROVE  tab2[g][j] \in T2[k + 1]
    <3>1. CASE k = l /\ tab2[g][j] = f
      BY <1>3, <3>1
    <3>2. CASE g \in T[k] /\ tab2[g][j] = tab[g][j]
      <4>1. tab[g][j] \in T[k + 1] /\ k + 1 \in 0 .. LEVELS - 1 /\ T[k + 1] \subseteq Blocks
        BY <1>1, <2>3, <3>2, LevelFacts DEF Shape
      <4> QED BY <1>4, <3>2, <4>1
    <3> QED BY <1>6, <2>3, <3>1, <3>2
  <2>4. ASSUME NEW k \in 0 .. LEVELS - 2, NEW g \in T2[k + 1]
        PROVE  \E h \in T2[k], j \in Index : tab2[h][j] = g
    <3>1. k \in 0 .. LEVELS - 1 /\ k + 1 \in 0 .. LEVELS - 1 /\ g \in Blocks
      BY <1>3, LevelFacts
    <3>2. CASE k = l /\ g = f
      BY <1>1, <1>2, <1>3, <3>2
    <3>3. CASE g \in T[k + 1]
      <4>1. PICK h \in T[k], j \in Index : tab[h][j] = g
        BY <3>3 DEF Shape
      <4>2. h \in Blocks /\ h \in T2[k] /\ h # f
        BY <1>1, <1>4, <3>1, <4>1
      <4>3. g # NULL
        BY <3>1, LevelFacts
      <4>4. tab2[h][j] = tab[h][j]
        BY <1>2, <4>1, <4>2, <4>3
      <4> QED BY <4>1, <4>2, <4>4
    <3> QED BY <1>1, <1>4, <3>1, <3>2, <3>3
  <2>5. ASSUME NEW j \in 0 .. LEVELS - 1, NEW k \in 0 .. LEVELS - 1, j # k
        PROVE  T2[j] \cap T2[k] = {}
    <3>1. T[j] \cap T[k] = {}
      BY <2>5 DEF Shape
    <3> QED BY <1>3, <1>4, <2>5, <3>1
  <2>6. ASSUME NEW k \in 0 .. LEVELS - 2, NEW g \in Blocks, NEW h \in Blocks,
               NEW j \in Index, NEW m \in Index,
               g \in T2[k], h \in T2[k], tab2[g][j] # NULL, tab2[g][j] = tab2[h][m]
        PROVE  g = h /\ j = m
    <3>0. k \in 0 .. LEVELS - 1 /\ k + 1 \in 0 .. LEVELS - 1 /\ tab2[h][m] # NULL
      BY <2>6, LevelFacts
    <3>1. \A x \in Blocks, y \in Index : x \in T[k] /\ tab[x][y] # NULL => tab[x][y] # f
      BY <3>0 DEF Shape
    <3>2. CASE tab2[g][j] = f
      <4>1. ~(g \in T[k] /\ ~(g = c /\ j = i) /\ tab2[g][j] = tab[g][j])
        BY <2>6, <3>1, <3>2
      <4>2. ~(h \in T[k] /\ ~(h = c /\ m = i) /\ tab2[h][m] = tab[h][m])
        BY <2>6, <3>0, <3>1, <3>2
      <4>3. g = c /\ j = i
        BY <1>6, <2>6, <4>1
      <4>4. h = c /\ m = i
        BY <1>6, <2>6, <3>0, <4>2
      <4> QED BY <4>3, <4>4
    <3>3. CASE tab2[g][j] # f
      <4>1. g \in T[k] /\ tab2[g][j] = tab[g][j]
        BY <1>6, <2>6, <3>3
      <4>2. h \in T[k] /\ tab2[h][m] = tab[h][m]
        BY <1>6, <2>6, <3>0, <3>3
      <4>3. tab[g][j] # NULL /\ tab[g][j] = tab[h][m]
        BY <2>6, <4>1, <4>2
      <4> QED BY <4>1, <4>2, <4>3 DEF Shape
    <3> QED BY <3>2, <3>3
  <2> QED BY <1>3, <2>1, <2>2, <2>3, <2>4, <2>5, <2>6 DEF Shape
<1>8. ASSUME NEW v \in Nat, NEW at, IsWay(at, tab, root, v)
      PROVE  \E to : /\ IsWay(to, tab2, root, v) /\ to[l] = at[l] /\ to[LEVELS] = at[LEVELS]
                     /\ at[l] = c /\ IndexAt(v, l) = i => to[l + 1] = f
  <2>1. /\ at \in [0 .. LEVELS -> Place] /\ at[0] = root
        /\ \A k \in 1 .. LEVELS : at[k] = Step(tab, at[k - 1], v, k - 1)
    BY <1>8 DEF IsWay
  <2>2. \A k \in 0 .. LEVELS - 1 : at[k] = NULL \/ at[k] \in T[k]
    BY <1>8, WayInTree
  <2>3. \A k \in 0 .. LEVELS - 1 : IndexAt(v, k) \in Index
    BY IndexFacts
  <2>4. ASSUME NEW k \in 0 .. LEVELS - 1, ~(k = l /\ at[l] = c /\ IndexAt(v, l) = i)
        PROVE  Step(tab2, at[k], v, k) = Step(tab, at[k], v, k)
    <3>1. CASE at[k] = NULL
      BY <3>1 DEF Step
    <3>2. CASE at[k] # NULL
      <4>1. at[k] \in T[k] /\ at[k] \in Blocks /\ at[k] # f /\ (at[k] = c => k = l)
        BY <1>1, <1>5, <2>2, <3>2
      <4>2. tab2[at[k]][IndexAt(v, k)] = tab[at[k]][IndexAt(v, k)]
        BY <1>2, <2>3, <2>4, <4>1
      <4> QED BY <4>2 DEF Step
    <3> QED BY <3>1, <3>2
  <2>5. CASE ~(at[l] = c /\ IndexAt(v, l) = i)
    <3>1. IsWay(at, tab2, root, v)
      <4>1. ASSUME NEW k \in 1 .. LEVELS PROVE at[k] = Step(tab2, at[k - 1], v, k - 1)
        BY <2>1, <2>4, <2>5, LevelFacts
      <4> QED BY <2>1, <4>1 DEF IsWay
    <3> QED BY <2>5, <3>1
  <2>6. CASE at[l] = c /\ IndexAt(v, l) = i
    <3> DEFINE to == [at EXCEPT ![l + 1] = f]
    <3>0. /\ l + 1 \in 1 .. LEVELS /\ (l + 1) - 1 = l /\ l + 1 \in 0 .. LEVELS
          /\ l + 2 \in 1 .. LEVELS /\ (l + 2) - 1 = l + 1 /\ l \in 0 .. LEVELS
          /\ l + 1 # 0 /\ l + 1 # LEVELS /\ LEVELS \in 0 .. LEVELS
      BY LevelFacts
    <3>1. /\ to \in [0 .. LEVELS -> Place] /\ to[l + 1] = f
          /\ \A k \in 0 .. LEVELS : k # l + 1 => to[k] = at[k]
      BY <2>1, <3>0, LevelFacts DEF Place
    <3> HIDE DEF to
    <3>2. at[l + 1] = NULL
      <4>1. at[l + 1] = Step(tab, at[l], v, l)
        BY <2>1, <3>0
      <4>2. c # NULL
        BY <1>1, LevelFacts
      <4> QED BY <2>6, <4>1, <4>2 DEF Step
    <3>3. at[l + 2] = NULL
      BY <2>1, <3>0, <3>2 DEF Step
    <3>4. ASSUME NEW k \in 1 .. LEVELS PROVE to[k] = Step(tab2, to[k - 1], v, k - 1)
      <4>1. CASE k = l + 1
        <5>1. k - 1 = l /\ to[l] = c /\ to[k] = f /\ c # NULL
          BY <1>1, <2>6, <3>0, <3>1, <4>1, LevelFacts
        <5> QED BY <1>2, <2>6, <5>1 DEF Step
      <4>2. CASE k = l + 2
        <5>1. k - 1 = l + 1 /\ to[k - 1] = f /\ to[k] = NULL
          BY <3>0, <3>1, <3>3, <4>2, LevelFacts
        <5>2. IndexAt(v, k - 1) \in Index
          BY <2>3, LevelFacts
        <5> QED BY <1>1, <1>2, <5>1, <5>2 DEF Step
      <4>3. CASE k # l + 1 /\ k # l + 2
        <5>1. k - 1 # l /\ k - 1 # l + 1 /\ k - 1 \in 0 .. LEVELS - 1
              /\ k - 1 \in 0 .. LEVELS /\ k \in 0 .. LEVELS
          BY <4>3, LevelFacts
        <5>2. to[k] = at[k] /\ to[k - 1] = at[k - 1]
          BY <3>1, <4>3, <5>1
        <5> QED BY <2>1, <2>4, <5>1, <5>2
      <4> QED BY <4>1, <4>2, <4>3
    <3>5. IsWay(to, tab2, root, v)
      <4>1. to[0] = root
        BY <2>1, <3>0, <3>1, LevelFacts
      <4> QED BY <3>1, <3>4, <4>1 DEF IsWay
    <3>6. to[l] = at[l] /\ to[LEVELS] = at[LEVELS]
      BY <1>1, <3>0, <3>1
    <3> QED BY <3>1, <3>5, <3>6
  <2> QED BY <2>5, <2>6
<1> QED BY <1>3, <1>7, <1>8 DEF Added

(* An entry for a frame, and the tables with it.                            *)
CanWrite(T, tab, root, v, c, i, p) ==
  /\ tab \in [Blocks -> [Index -> Place]] /\ root \in Blocks \cup {NULL} /\ Shape(T, tab, root)
  /\ v \in Pages /\ i = IndexAt(v, LEVELS - 1) /\ p \in Nat
  /\ c # NULL /\ \E at : IsWay(at, tab, root, v) /\ at[LEVELS - 1] = c

Written(T, tab, tab2, root, v, p) ==
  /\ tab2 \in [Blocks -> [Index -> Place]]
  /\ Shape(T, tab2, root)
  /\ FrameOf(tab2, root, v) = p
  /\ \A w \in Pages : w # v => FrameOf(tab2, root, w) = FrameOf(tab, root, w)

(* map_page's last write: the frame of this page, and of no other.          *)
LEMMA WriteEntryShape ==
  ASSUME NEW T, NEW tab, NEW root, NEW v, NEW c, NEW i, NEW p, CanWrite(T, tab, root, v, c, i, p),
         NEW tab2, tab2 = WithFrame(tab, c, i, p)
  PROVE  Written(T, tab, tab2, root, v, p)
<1>0. /\ tab \in [Blocks -> [Index -> Place]] /\ root \in Blocks \cup {NULL}
      /\ Shape(T, tab, root) /\ v \in Pages /\ i = IndexAt(v, LEVELS - 1) /\ p \in Nat /\ c # NULL
  BY DEF CanWrite
<1>a. PICK at : IsWay(at, tab, root, v) /\ at[LEVELS - 1] = c
  BY DEF CanWrite
<1> USE <1>0, <1>a
<1> DEFINE N == LEVELS - 1
<1>1. N \in 0 .. LEVELS - 1 /\ N \in 0 .. LEVELS /\ (\A k \in 0 .. LEVELS - 2 : k # N)
      /\ LEVELS \in 1 .. LEVELS /\ LEVELS - 1 = N
  BY LevelFacts
<1>2. v \in Nat /\ \A w \in Pages : w \in Nat
  BY SpanFacts DEF Pages
<1>3. i \in Index
  BY <1>1, <1>2, IndexFacts
<1>4. c \in T[N] /\ c \in Blocks
  <2>1. at[N] \in T[N] \cup {NULL}
    BY <1>1, <1>2, WayInTree
  <2>2. T[N] \subseteq Blocks
    BY <1>1 DEF Shape
  <2> QED BY <2>1, <2>2
<1>5. /\ tab2 \in [Blocks -> [Index -> Place]]
      /\ tab2[c][i] = p
      /\ \A j \in Index : j # i => tab2[c][j] = tab[c][j]
      /\ \A g \in Blocks : g # c => tab2[g] = tab[g]
  <2> DEFINE u == [tab EXCEPT ![c][i] = p]
  <2>1. p \in Place
    BY DEF Place
  <2>2. /\ u \in [Blocks -> [Index -> Place]] /\ u[c][i] = p
        /\ \A j \in Index : j # i => u[c][j] = tab[c][j]
        /\ \A g \in Blocks : g # c => u[g] = tab[g]
    BY <1>3, <1>4, <2>1, EntryFacts
  <2>3. tab2 = u
    BY DEF WithFrame
  <2> HIDE DEF u
  <2> QED BY <2>2, <2>3
<1>6. \A k \in 0 .. LEVELS - 2 : c \notin T[k]
  BY <1>1, <1>4, LevelFacts DEF Shape
<1>7. Shape(T, tab2, root)
  <2>1. \A k \in 0 .. LEVELS - 2, g \in Blocks : g \in T[k] => tab2[g] = tab[g]
    BY <1>5, <1>6
  <2>2. \A k \in 0 .. LEVELS - 2 : T[k] \subseteq Blocks
    BY LevelFacts DEF Shape
  <2>3. ASSUME NEW k \in 0 .. LEVELS - 2, NEW g \in T[k + 1]
        PROVE  \E f \in T[k], j \in Index : tab2[f][j] = g
    <3>1. PICK f \in T[k], j \in Index : tab[f][j] = g
      BY DEF Shape
    <3>2. tab2[f] = tab[f]
      BY <2>1, <2>2, <3>1
    <3> QED BY <3>1, <3>2
  <2>4. ASSUME NEW k \in 0 .. LEVELS - 2, NEW f \in Blocks, NEW j \in Index,
               f \in T[k], tab2[f][j] # NULL
        PROVE  tab2[f][j] \in T[k + 1]
    <3>1. tab2[f] = tab[f]
      BY <2>1, <2>4
    <3> QED BY <2>4, <3>1 DEF Shape
  <2>5. ASSUME NEW k \in 0 .. LEVELS - 2, NEW f \in Blocks, NEW g \in Blocks,
               NEW j \in Index, NEW m \in Index,
               f \in T[k], g \in T[k], tab2[f][j] # NULL, tab2[f][j] = tab2[g][m]
        PROVE  f = g /\ j = m
    <3>1. tab2[f] = tab[f] /\ tab2[g] = tab[g]
      BY <2>1, <2>5
    <3>2. tab[f][j] # NULL /\ tab[f][j] = tab[g][m]
      BY <2>5, <3>1
    <3> QED BY <2>5, <3>2 DEF Shape
  <2> QED BY <2>3, <2>4, <2>5 DEF Shape
<1>8. at[0] = root /\ at \in [0 .. LEVELS -> Place]
      /\ \A k \in 1 .. LEVELS : at[k] = Step(tab, at[k - 1], v, k - 1)
  BY DEF IsWay
<1>9. FrameOf(tab2, root, v) = p
  <2>1. PICK to : IsWay(to, tab2, root, v)
    BY <1>2, <1>5, <1>7, WayExists
  <2> DEFINE S == {k \in 0 .. N : to[k] = at[k]}
  <2>2. 0 \in S
    BY <1>1, <1>8, <2>1, LevelFacts DEF IsWay
  <2>3. ASSUME NEW k \in 0 .. N - 1, k \in S PROVE k + 1 \in S
    <3>1. k \in 0 .. LEVELS - 2 /\ k + 1 \in 0 .. N
      BY LevelFacts
    <3>2. /\ at[k + 1] = Step(tab, at[k], v, k) /\ to[k + 1] = Step(tab2, at[k], v, k)
          /\ k \in 0 .. LEVELS - 1
      <4>1. k + 1 \in 1 .. LEVELS /\ (k + 1) - 1 = k /\ k \in 0 .. LEVELS - 1
        BY <3>1, LevelFacts
      <4>2. to[k + 1] = Step(tab2, to[k], v, k)
        BY <2>1, <4>1 DEF IsWay
      <4>3. at[k + 1] = Step(tab, at[k], v, k)
        BY <1>8, <4>1
      <4>4. to[k] = at[k]
        BY <2>3
      <4> QED BY <4>1, <4>2, <4>3, <4>4
    <3>3. at[k] = NULL \/ at[k] \in T[k]
      BY <1>2, <3>2, WayInTree
    <3>4. CASE at[k] = NULL
      BY <3>1, <3>2, <3>4 DEF Step
    <3>5. CASE at[k] \in T[k]
      <4>1. at[k] \in Blocks /\ at[k] # c
        BY <1>6, <3>1, <3>2, <3>5 DEF Shape
      <4> QED BY <1>5, <3>1, <3>2, <4>1 DEF Step
    <3> QED BY <3>3, <3>4, <3>5
  <2> HIDE DEF S
  <2>4. N \in S
    <3>1. 0 .. N \subseteq S
      BY <2>2, <2>3, LevelFacts, BoundedInduction
    <3> QED BY <3>1, LevelFacts
  <2>5. to[N] = c /\ to[LEVELS] = Step(tab2, to[N], v, N)
    BY <1>1, <2>1, <2>4 DEF S, IsWay
  <2>6. to[LEVELS] = p
    BY <1>4, <1>5, <2>5, LevelFacts DEF Step
  <2> QED BY <2>1, <2>6, WayIs
<1>10. ASSUME NEW w \in Pages, w # v
       PROVE  FrameOf(tab2, root, w) = FrameOf(tab, root, w)
  <2>1. PICK to : IsWay(to, tab, root, w)
    BY <1>2, WayExists
  <2>2. /\ to \in [0 .. LEVELS -> Place] /\ to[0] = root
        /\ \A k \in 1 .. LEVELS : to[k] = Step(tab, to[k - 1], w, k - 1)
    BY <2>1 DEF IsWay
  <2>3. ASSUME to[N] = c, IndexAt(w, N) = i PROVE FALSE
    <3>1. c # NULL
      BY <1>4, LevelFacts
    <3>2. \A k \in 0 .. N - 1 : IndexAt(w, k) = IndexAt(v, k)
      BY <1>1, <1>2, <2>1, <2>3, <3>1, SameWay
    <3>3. \A k \in 0 .. LEVELS - 1 : IndexAt(w, k) = IndexAt(v, k)
      <4>1. \A k \in 0 .. LEVELS - 1 : k = N \/ k \in 0 .. N - 1
        BY LevelFacts
      <4> QED BY <1>1, <2>3, <3>2, <4>1
    <3> QED BY <1>10, <3>3, SamePage
  <2>4. ASSUME NEW k \in 1 .. LEVELS PROVE to[k] = Step(tab2, to[k - 1], w, k - 1)
    <3> DEFINE m == k - 1
               x == to[m]
    <3>0. m \in 0 .. LEVELS - 1 /\ (m = N \/ m \in 0 .. LEVELS - 2)
      BY LevelFacts
    <3>1. IndexAt(w, m) \in Index /\ (x = NULL \/ x \in T[m]) /\ to[k] = Step(tab, x, w, m)
      <4>1. IndexAt(w, m) \in Index
        BY <1>2, <3>0, IndexFacts
      <4>2. to[m] \in T[m] \cup {NULL}
        BY <1>2, <2>1, <3>0, WayInTree
      <4>3. to[k] = Step(tab, to[m], w, m)
        BY <2>2
      <4> QED BY <4>1, <4>2, <4>3
    <3> HIDE DEF x
    <3>2. CASE x = NULL
      BY <3>1, <3>2 DEF Step, x
    <3>3. CASE x # NULL
      <4>1. x \in T[m] /\ x \in Blocks
        BY <3>0, <3>1, <3>3 DEF Shape
      <4>2. ~(x = c /\ IndexAt(w, m) = i)
        <5>1. CASE m = N
          BY <2>3, <5>1 DEF x
        <5>2. CASE m \in 0 .. LEVELS - 2
          BY <1>6, <4>1, <5>2
        <5> QED BY <3>0, <5>1, <5>2
      <4>3. tab2[x][IndexAt(w, m)] = tab[x][IndexAt(w, m)]
        BY <1>5, <3>1, <4>1, <4>2
      <4> QED BY <3>1, <4>3 DEF Step, x
    <3> QED BY <3>2, <3>3
  <2>5. IsWay(to, tab2, root, w)
    BY <2>2, <2>4 DEF IsWay
  <2> QED BY <2>1, <2>5, WayIs
<1> QED BY <1>5, <1>7, <1>9, <1>10 DEF Written

(* The levels of the tree are TablesAt's.                                   *)
LEMMA LevelsAre ==
  ASSUME NEW T, Shape(T, table, kernel_pml4), NEW k \in 0 .. LEVELS - 1
  PROVE  TablesAt[k] = T[k]
<1> DEFINE N == LEVELS - 1
           Below(S) == {table[e[1]][e[2]] : e \in Entries(S)}
           Rec(g) == g = [n \in 0 .. N |-> IF n = 0 THEN {kernel_pml4} \ {NULL}
                                           ELSE Below(g[n - 1])]
           ta == CHOOSE g : Rec(g)
<1>1. TablesAt = ta
  BY DEF TablesAt
<1>2. N \in Nat
  BY LevelFacts
<1>3. ASSUME NEW n \in 0 .. N, n # 0 PROVE T[n] = Below(T[n - 1])
  <2>1. n - 1 \in 0 .. LEVELS - 2 /\ (n - 1) + 1 = n /\ n - 1 \in 0 .. LEVELS - 1
    BY <1>3, LevelFacts
  <2>2. T[n] \subseteq Blocks /\ T[n - 1] \subseteq Blocks
    BY <2>1 DEF Shape
  <2>3. ASSUME NEW g \in T[n] PROVE g \in Below(T[n - 1])
    <3>1. PICK f \in T[n - 1], i \in Index : table[f][i] = g
      BY <2>1 DEF Shape
    <3>2. g # NULL
      BY <2>2, LevelFacts
    <3>3. <<f, i>> \in Entries(T[n - 1]) /\ <<f, i>>[1] = f /\ <<f, i>>[2] = i
      BY <3>1, <3>2 DEF Entries
    <3> QED BY <3>1, <3>3
  <2>4. ASSUME NEW g \in Below(T[n - 1]) PROVE g \in T[n]
    <3>1. PICK e \in Entries(T[n - 1]) : g = table[e[1]][e[2]]
      OBVIOUS
    <3>2. e[1] \in T[n - 1] /\ e[2] \in Index /\ table[e[1]][e[2]] # NULL
      BY DEF Entries
    <3>3. e[1] \in Blocks
      BY <2>2, <3>2
    <3> QED BY <2>1, <3>1, <3>2, <3>3 DEF Shape
  <2> HIDE DEF Below
  <2> QED BY <2>3, <2>4
<1> HIDE DEF Below
<1>4. Rec(T)
  <2>1. T = [n \in 0 .. N |-> T[n]]
    BY DEF Shape
  <2>2. ASSUME NEW n \in 0 .. N
        PROVE  T[n] = IF n = 0 THEN {kernel_pml4} \ {NULL} ELSE Below(T[n - 1])
    BY <1>3 DEF Shape
  <2> QED BY <2>1, <2>2
<1>5. Rec(ta)
  <2> HIDE DEF Rec
  <2> QED BY <1>4
<1> HIDE DEF ta
<1> DEFINE S == {n \in 0 .. N : ta[n] = T[n]}
<1>6. 0 \in S
  BY <1>2, <1>5 DEF Shape
<1>7. ASSUME NEW n \in 0 .. N - 1, n \in S PROVE n + 1 \in S
  <2>1. n + 1 \in 0 .. N /\ (n + 1) - 1 = n /\ n + 1 # 0
    BY <1>2
  <2>2. ta[n + 1] = Below(ta[n])
    BY <1>5, <2>1
  <2> HIDE DEF Rec
  <2>3. T[n + 1] = Below(T[n])
    BY <1>3, <2>1
  <2> QED BY <1>7, <2>1, <2>2, <2>3
<1> HIDE DEF S
<1>8. 0 .. N \subseteq S
  BY <1>2, <1>6, <1>7, BoundedInduction
<1> QED BY <1>1, <1>8 DEF S

-----------------------------------------------------------------------------
(* The inductive invariant *)

Loading == {"pmm_init", "kernel", "low", "mbi_parse"}
Heaping == {"heap", "done"}

(* The frame of a page once the call under way is over.                     *)
Will(v) == IF request # <<>> /\ request[1] = v THEN request[2] ELSE Translate(v)

(* A block that may be given away.                                          *)
Taken(f) == f \in used /\ ~Skips(f) /\ f \in Available

(* Where the loops are.                                                     *)
LoopInv ==
  /\ phase \in {"pmm_init", "mbi_parse"} => mmap[entry][1] <= a
  /\ phase \in {"kernel", "low"} => entry = 1
  /\ phase \in Loading => kernel_pml4 = NULL
  /\ phase \notin Loading \cup {"direct"} => kernel_pml4 # NULL
  /\ kernel_pml4 = NULL => request = <<>>
  /\ phase = "direct" => a <= DIRECT
  /\ phase = "identity" => a <= IDENTITY
  /\ phase = "framebuffer" => a <= 2 * fb.size
  /\ phase \in Heaping => a <= HEAP_PAGES
  /\ cr3 => phase \in Heaping

(* What they have mapped.                                                   *)
DirectTo == IF phase \in Loading THEN 0 ELSE IF phase = "direct" THEN a ELSE DIRECT
IdentityTo == IF phase \in Loading \cup {"direct"} THEN 0
              ELSE IF phase = "identity" THEN a ELSE IDENTITY
HeapTo == IF phase \in Heaping THEN a ELSE 0

MapInv ==
  /\ \A i \in 0 .. DIRECT - 1 : i < DirectTo => Will(OFFSET + i) = i
  /\ \A i \in 0 .. IDENTITY - 1 : i < IdentityTo => Will(i) = i
  /\ \A i \in 0 .. HEAP_PAGES - 1 :
       IF i < HeapTo THEN Will(HEAP_START + i) \in Blocks /\ Taken(Will(HEAP_START + i))
       ELSE Will(HEAP_START + i) = NULL
  /\ \A i, j \in 0 .. HEAP_PAGES - 1 :
       i < HeapTo /\ j < HeapTo /\ i # j => Will(HEAP_START + i) # Will(HEAP_START + j)
  /\ phase \in Heaping /\ request # <<>> =>
       /\ a > 0 /\ request[1] = HEAP_START + (a - 1)
       /\ \A v \in Pages : v = request[1] => Translate(v) = NULL

(* The tables are a tree of blocks that were free, the walk under way has   *)
(* come down it, and no table is a frame of the heap.                       *)
Tree(T) ==
  /\ Shape(T, table, kernel_pml4)
  /\ \A k \in 0 .. LEVELS - 1 : \A f \in T[k] : Taken(f)
  /\ request # <<>> =>
       /\ current \in T[level]
       /\ \E at : IsWay(at, table, kernel_pml4, request[1]) /\ at[level] = current
  /\ \A i \in 0 .. HEAP_PAGES - 1, k \in 0 .. LEVELS - 1 :
       i < HeapTo => Will(HEAP_START + i) \notin T[k]

(* The rest, which the trees stand on.                                      *)
Base ==
  /\ TypeOK
  /\ mmap \in MemoryMaps /\ fb \in Framebuffers /\ mbi \in MbiAddresses
  /\ CounterInv
  /\ ReservedInv
  /\ Blocks \ used \subseteq Available
  /\ LoopInv

IInv == Base /\ MapInv /\ \E T : Tree(T)

-----------------------------------------------------------------------------
(* The loops *)

(* Where the pages lie that the loops map.                                  *)
LEMMA LayoutFacts ==
  /\ Span[LEVELS] \in Nat \ {0} /\ OFFSET \in Nat /\ DIRECT \in Nat /\ IDENTITY \in Nat
  /\ HEAP_START \in Nat /\ HEAP_PAGES \in Nat /\ BLOCKS \in Nat /\ BLOCKS <= DIRECT
  /\ IDENTITY <= OFFSET /\ OFFSET + DIRECT <= HEAP_START
  /\ OFFSET < Span[LEVELS] /\ HEAP_START + HEAP_PAGES <= Span[LEVELS]
  /\ Pages = 0 .. Span[LEVELS] - 1
  BY SizesAssumption, LayoutAssumption, SpanFacts, LevelFacts DEF Pages

LEMMA SmallMod ==
  ASSUME NEW n \in Nat, NEW d \in Nat \ {0}
  PROVE  /\ n < d => n % d = n
         /\ d <= n /\ n < 2 * d => n % d = n - d
<1>1. n \div d \in Nat /\ n % d \in Nat /\ n % d < d /\ n = d * (n \div d) + (n % d)
  BY DivMod
<1> DEFINE q == n \div d
           r == n % d
<1> HIDE DEF q, r
<1>2. q \in Nat /\ r \in Nat /\ r < d /\ n = d * q + r
  BY <1>1 DEF q, r
<1>3. q = 0 \/ q = 1 \/ q >= 2
  BY <1>2
<1>4. q >= 2 => d * q >= 2 * d
  <2> SUFFICES ASSUME q >= 2 PROVE d * q >= 2 * d
    OBVIOUS
  <2>1. q - 2 \in Nat /\ q = 2 + (q - 2)
    BY <1>2
  <2>2. d * (q - 2) \in Nat
    BY <2>1
  <2>3. d * q = d * 2 + d * (q - 2)
    BY <1>2
  <2> QED BY <2>2, <2>3
<1>5. q = 0 => n = r
  BY <1>2
<1>6. q = 1 => n = d + r
  BY <1>2
<1> QED BY <1>2, <1>3, <1>4, <1>5, <1>6 DEF r

(* The number of a block in 32 bits is that of its address: the loader's    *)
(* regions end below 2^32 pages.                                            *)
LEMMA BlockIs ==
  ASSUME NEW x \in Nat
  PROVE  /\ Block(x) \in Nat
         /\ x < UINT32 * PAGE => Block(x) * PAGE <= x /\ x < (Block(x) + 1) * PAGE
<1>1. PAGE \in Nat \ {0} /\ BLOCKS \in Nat /\ UINT32 \in Nat \ {0} /\ BLOCKS <= UINT32
  BY SizesAssumption
<1> DEFINE q == x \div PAGE
           r == x % PAGE
<1>2. q \in Nat /\ r \in Nat /\ r < PAGE /\ x = PAGE * q + r
  BY <1>1, DivMod
<1>3. Block(x) = q % UINT32
  BY DEF Block
<1> HIDE DEF q, r
<1> QED BY <1>1, <1>2, <1>3

(* What the steps of the loading loops, and of the calls of map_page that   *)
(* begin, have in common: the tables stay as they are.                      *)
LEMMA LoaderFacts ==
  ASSUME LoaderPasses, Base
  PROVE  /\ mmap \in Seq(Nat \X Nat) /\ mmap # <<>> /\ Len(mmap) \in Nat \ {0}
         /\ DOMAIN mmap = 1 .. Len(mmap)
         /\ \A e \in DOMAIN mmap : /\ mmap[e][1] \in Nat /\ End(e) \in Nat
                                   /\ End(e) <= UINT32 * PAGE
         /\ fb.addr \in Nat /\ fb.size \in Nat
         /\ \A i \in Nat : i < fb.size =>
              /\ fb.addr + i < OFFSET
              /\ Upper(fb.addr + i) \notin (0 .. IDENTITY - 1) \cup HeapRange
         /\ mbi \in Nat
<1>1. mmap \in MemoryMaps /\ fb \in Framebuffers /\ mbi \in MbiAddresses
  BY DEF Base
<1>2. mmap \in Seq(Nat \X Nat) /\ mmap # <<>>
  BY <1>1 DEF LoaderPasses
<1>3. Len(mmap) \in Nat \ {0} /\ DOMAIN mmap = 1 .. Len(mmap)
  BY <1>2
<1>4. \A e \in DOMAIN mmap : mmap[e] \in Nat \X Nat
  BY <1>2
<1>5. \A e \in DOMAIN mmap : mmap[e][1] \in Nat /\ mmap[e][2] \in Nat
  BY <1>4
<1>6. \A e \in DOMAIN mmap : mmap[e][1] + mmap[e][2] <= UINT32 * PAGE
  BY <1>1 DEF LoaderPasses
<1>7. fb.addr \in Nat /\ fb.size \in Nat
  BY <1>1 DEF LoaderPasses
<1>8. \A i \in Nat : i < fb.size =>
        /\ fb.addr + i < OFFSET
        /\ Upper(fb.addr + i) \notin (0 .. IDENTITY - 1) \cup HeapRange
  BY <1>1 DEF LoaderPasses
<1>9. mbi \in Nat
  BY <1>1 DEF LoaderPasses
<1> QED BY <1>2, <1>3, <1>5, <1>6, <1>7, <1>8, <1>9 DEF End

(* No step but those of the freeing loops clears a bit.                     *)
LEMMA UsedGrows ==
  ASSUME Next, ~PmmInit, ~MbiParse
  PROVE  used \subseteq used'
<1>1. CASE MarkKernel
  BY <1>1, MarkUsedGrows DEF MarkKernel, pmm
<1>2. CASE MarkLow
  BY <1>2, MarkUsedGrows DEF MarkLow
<1>3. CASE SkipBlock \/ NewRoot \/ NewTable
  BY <1>3, MarkUsedGrows DEF SkipBlock, NewRoot, NewTable
<1>4. CASE MapDirect \/ MapIdentity \/ MapFramebuffer \/ Descend \/ WriteEntry
  BY <1>4 DEF MapDirect, MapIdentity, MapFramebuffer, MapPages, Descend, WriteEntry, pmm
<1>5. CASE MapHeap
  BY <1>5, MarkUsedGrows DEF MapHeap, pmm
<1> QED BY <1>1, <1>2, <1>3, <1>4, <1>5 DEF Next

LEMMA LoaderKept ==
  ASSUME Next PROVE mmap' = mmap /\ fb' = fb /\ mbi' = mbi
<1>1. CASE PmmInit \/ MbiParse \/ MarkKernel \/ MarkLow
  BY <1>1 DEF PmmInit, MbiParse, MarkKernel, MarkLow, FreeRegions, loader
<1>2. CASE SkipBlock \/ NewRoot \/ NewTable \/ Descend \/ WriteEntry
  BY <1>2 DEF SkipBlock, NewRoot, NewTable, Descend, WriteEntry, loader
<1>3. CASE MapDirect \/ MapIdentity \/ MapFramebuffer \/ MapHeap
  BY <1>3 DEF MapDirect, MapIdentity, MapFramebuffer, MapHeap, MapPages, loader
<1> QED BY <1>1, <1>2, <1>3 DEF Next

(* What the loops free is available, in whole or in part.                   *)
LEMMA AvailableStep ==
  ASSUME LoaderPasses, Base, Next
  PROVE  (Blocks \ used \subseteq Available)'
<1>1. mmap' = mmap
  BY LoaderKept
<1>2. Available' = Available
  BY <1>1 DEF Available, End
<1>3. Blocks \ used \subseteq Available
  BY DEF Base
<1>4. CASE used \subseteq used'
  BY <1>2, <1>3, <1>4
<1>5. CASE ~(used \subseteq used')
  <2>1. PmmInit \/ MbiParse
    BY <1>5, UsedGrows
  <2>2. PICK next, start : FreeRegions(next, start)
    BY <1>5, <2>1 DEF PmmInit, MbiParse, pmm
  <2>3. a < End(entry) /\ MarkFree(Block(a))
    BY <1>5, <2>2 DEF FreeRegions, pmm
  <2>4. used' = used \ {Block(a)}
    BY <1>5, <2>3 DEF MarkFree, pmm
  <2>5. entry \in DOMAIN mmap /\ a \in Nat
    BY DEF Base, TypeOK
  <2>6. mmap[entry][1] \in Nat /\ End(entry) \in Nat /\ End(entry) <= UINT32 * PAGE
    BY <2>5, LoaderFacts
  <2>7. phase \in {"pmm_init", "mbi_parse"}
    BY <2>1 DEF PmmInit, MbiParse
  <2>8. mmap[entry][1] <= a
    BY <2>7 DEF Base, LoopInv
  <2>9. UINT32 * PAGE \in Nat
    BY SizesAssumption
  <2>10. a < UINT32 * PAGE
    BY <2>3, <2>5, <2>6, <2>9
  <2> DEFINE b == Block(a)
  <2>11. b \in Nat /\ b * PAGE <= a /\ a < (b + 1) * PAGE
    BY <2>5, <2>10, BlockIs
  <2>12. b * PAGE \in Nat /\ (b + 1) * PAGE \in Nat
    BY <2>11, SizesAssumption
  <2> HIDE DEF b
  <2>13. mmap[entry][1] < (b + 1) * PAGE /\ b * PAGE < End(entry)
    BY <2>3, <2>5, <2>6, <2>8, <2>11, <2>12
  <2>14. b \in Blocks => b \in Available
    BY <2>5, <2>13 DEF Available
  <2> QED BY <1>2, <1>3, <2>4, <2>14 DEF b
<1> QED BY <1>4, <1>5

LEMMA MarkUsedType ==
  ASSUME used \subseteq Blocks, NEW b \in Nat, MarkUsed(b)
  PROVE  used' \subseteq Blocks
<1>1. b < BLOCKS => b \in Blocks
  BY SizesAssumption DEF Blocks
<1> QED BY <1>1 DEF MarkUsed, pmm

(* The loops before paging_init.                                            *)
LEMMA LoadingStep ==
  ASSUME LoaderPasses, Base, PmmInit \/ MarkKernel \/ MarkLow \/ MbiParse
  PROVE  /\ TypeOK' /\ LoopInv'
         /\ kernel_pml4 = NULL /\ request = <<>> /\ phase \in Loading
         /\ table' = table /\ kernel_pml4' = NULL /\ request' = <<>>
         /\ phase' \in Loading \/ (phase' = "direct" /\ a' = 0)
<1>1. /\ kernel_pml4 = NULL /\ request = <<>> /\ phase \in Loading /\ ~cr3
  BY DEF PmmInit, MarkKernel, MarkLow, MbiParse, Loading, Heaping, Base, LoopInv
<1>2. /\ table' = table /\ kernel_pml4' = NULL /\ cr3' = cr3
      /\ request' = <<>> /\ current' = current /\ level' = level /\ heap_start' = heap_start
  BY <1>1 DEF PmmInit, MarkKernel, MarkLow, MbiParse, FreeRegions, tree, walk
<1>3. TypeOK /\ CounterInv /\ LoopInv
  BY DEF Base
<1>4. Next /\ [Next]_vars
  BY DEF Next
<1>5. used_blocks' \in Nat
  <2>1. CounterInv'
    BY <1>3, <1>4, CounterStep
  <2> QED BY <2>1, FS_CardinalityType DEF CounterInv
<1>6. mmap' = mmap /\ fb' = fb
  BY <1>4, LoaderKept
<1>7. /\ PAGE \in Nat \ {0} /\ KERNEL_START \in Nat /\ BLOCKS \in Nat
      /\ DIRECT \in Nat
  BY SizesAssumption, LayoutAssumption
<1>8. used \subseteq Blocks /\ a \in Nat /\ entry \in DOMAIN mmap
  BY <1>3 DEF TypeOK
<1>9. used' \subseteq Blocks
  <2>1. Block(a) \in Nat /\ Block(mbi) \in Nat
    BY <1>8, BlockIs, LoaderFacts
  <2>2. CASE PmmInit \/ MbiParse
    BY <1>8, <2>2 DEF PmmInit, MbiParse, FreeRegions, MarkFree, pmm
  <2>3. CASE MarkKernel
    BY <1>8, <2>1, <2>3, MarkUsedType DEF MarkKernel, pmm
  <2>4. CASE MarkLow
    BY <1>8, <2>1, <2>4, MarkUsedType DEF MarkLow
  <2> QED BY <2>2, <2>3, <2>4
<1>10. \A e \in DOMAIN mmap : mmap[e][1] \in Nat
  BY LoaderFacts
<1>11. DOMAIN mmap = 1 .. Len(mmap) /\ Len(mmap) \in Nat \ {0}
  BY LoaderFacts
<1>12. 1 \in DOMAIN mmap
  BY <1>11
<1>13. /\ entry' \in DOMAIN mmap /\ a' \in Nat
       /\ \/ phase' \in {"pmm_init", "mbi_parse"} /\ mmap[entry'][1] <= a'
          \/ phase' \in {"kernel", "low"} /\ entry' = 1
          \/ phase' = "direct" /\ a' = 0
  <2> DEFINE Result == /\ entry' \in DOMAIN mmap /\ a' \in Nat
                       /\ \/ phase' \in {"pmm_init", "mbi_parse"} /\ mmap[entry'][1] <= a'
                          \/ phase' \in {"kernel", "low"} /\ entry' = 1
                          \/ phase' = "direct" /\ a' = 0
  <2>1. ASSUME phase \in {"pmm_init", "mbi_parse"}, a' = a + PAGE, UNCHANGED <<phase, entry>>
        PROVE  Result
    <3>1. mmap[entry][1] <= a
      BY <1>3, <2>1 DEF LoopInv
    <3> QED BY <1>7, <1>8, <1>10, <2>1, <3>1
  <2>2. ASSUME phase \in {"pmm_init", "mbi_parse"}, NEW next, NEW start \in Nat,
               next = "kernel" \/ (next = "direct" /\ start = 0),
               Enter(entry + 1, next, start)
        PROVE  Result
    <3>1. CASE entry + 1 <= Len(mmap)
      <4>1. entry + 1 \in DOMAIN mmap
        BY <1>8, <1>11, <3>1
      <4>2. entry' = entry + 1 /\ a' = mmap[entry + 1][1] /\ phase' = phase
        BY <2>2, <3>1 DEF Enter
      <4>3. mmap[entry + 1][1] \in Nat
        BY <1>10, <4>1
      <4> QED BY <2>2, <4>1, <4>2, <4>3
    <3>2. CASE ~(entry + 1 <= Len(mmap))
      BY <1>12, <2>2, <3>2 DEF Enter
    <3> QED BY <3>1, <3>2
  <2> HIDE DEF Result
  <2>3. ASSUME phase \in {"pmm_init", "mbi_parse"}, NEW next, NEW start \in Nat,
               next = "kernel" \/ (next = "direct" /\ start = 0),
               FreeRegions(next, start)
        PROVE  Result
    <3> QED BY <2>1, <2>2, <2>3 DEF FreeRegions
  <2>4. ASSUME PmmInit PROVE Result
    <3>1. phase \in {"pmm_init", "mbi_parse"}
      BY <2>4 DEF PmmInit
    <3>2. CASE FreeRegions("kernel", KERNEL_START)
      BY <1>7, <2>3, <3>1, <3>2
    <3>3. CASE ~FreeRegions("kernel", KERNEL_START)
      <4>1. a' = a + PAGE /\ UNCHANGED <<phase, entry>>
        BY <2>4, <3>3 DEF PmmInit
      <4> QED BY <2>1, <3>1, <4>1
    <3> QED BY <3>2, <3>3
  <2>5. ASSUME MbiParse PROVE Result
    <3>1. phase \in {"pmm_init", "mbi_parse"}
      BY <2>5 DEF MbiParse
    <3>2. FreeRegions("direct", 0)
      BY <2>5 DEF MbiParse
    <3> QED BY <2>3, <3>1, <3>2
  <2>6. ASSUME MarkKernel PROVE Result
    <3>1. entry = 1 /\ entry' = entry
      BY <1>3, <2>6 DEF MarkKernel, LoopInv
    <3> QED BY <1>7, <1>8, <2>6, <3>1 DEF MarkKernel, Result
  <2>7. ASSUME MarkLow PROVE Result
    <3>1. entry = 1 /\ entry' = entry
      BY <1>3, <2>7 DEF MarkLow, LoopInv
    <3>2. mmap[1][1] \in Nat
      BY <1>10, <1>12
    <3>3. \/ phase' = "low" /\ a' = a + PAGE
          \/ phase' = "mbi_parse" /\ a' = mmap[1][1]
      BY <2>7 DEF MarkLow
    <3> QED BY <1>7, <1>8, <3>1, <3>2, <3>3 DEF Result
  <2> QED BY <2>4, <2>5, <2>6, <2>7 DEF Result
<1>14. phase' \in Loading \/ (phase' = "direct" /\ a' = 0)
  BY <1>13 DEF Loading
<1>15. TypeOK'
  <2>1. phase' \in {"pmm_init", "kernel", "low", "mbi_parse", "direct", "identity",
                    "framebuffer", "heap", "done"}
    BY <1>13
  <2> QED BY <1>1, <1>2, <1>3, <1>5, <1>6, <1>9, <1>13, <2>1 DEF TypeOK
<1>16. LoopInv'
  BY <1>1, <1>2, <1>6, <1>7, <1>13 DEF LoopInv, Loading, Heaping
<1> QED BY <1>1, <1>2, <1>14, <1>15, <1>16

(* What a step does to the flat address space: nothing, begin a call, or    *)
(* end one.                                                                 *)
Stays == request' = request /\ \A v \in Pages : Translate(v)' = Translate(v)
Asks(v, p) ==
  /\ request = <<>> /\ v \in Pages /\ p \in Pages /\ request' = <<v, p>>
  /\ \A w \in Pages : Translate(w)' = Translate(w)
Answers ==
  /\ request # <<>> /\ request' = <<>>
  /\ \A v \in Pages : Translate(v)' = IF v = request[1] THEN request[2] ELSE Translate(v)

LEMMA StaysWill == ASSUME Stays, NEW v \in Pages PROVE Will(v)' = Will(v)
  BY DEF Stays, Will

LEMMA AnswersWill == ASSUME Answers, NEW v \in Pages PROVE Will(v)' = Will(v)
  BY DEF Answers, Will

LEMMA AsksWill ==
  ASSUME NEW v, NEW p, Asks(v, p), NEW w \in Pages
  PROVE  Will(w)' = IF w = v THEN p ELSE Will(w)
  BY DEF Asks, Will

LEMMA TranslateKept ==
  ASSUME table' = table, kernel_pml4' = kernel_pml4, NEW v
  PROVE  Translate(v)' = Translate(v)
<1>1. FrameOf(table', kernel_pml4', v) = FrameOf(table, kernel_pml4, v)
  OBVIOUS
<1> QED BY <1>1, TranslateIs

(* The loops of paging_init.                                                *)
Calls(n, v, p) == a < n /\ Asks(v, p) /\ a' = a + 1 /\ phase' = phase
Moves(n, next) == ~(a < n) /\ Stays /\ a' = 0 /\ phase' = next

LEMMA MapPagesIs ==
  ASSUME Base, NEW n \in Nat, NEW v \in Nat, NEW p, NEW next,
         a < n => p \in Pages, MapPages(n, v, p, next)
  PROVE  /\ table' = table /\ kernel_pml4' = kernel_pml4 /\ kernel_pml4 # NULL
         /\ used' = used /\ used_blocks' = used_blocks /\ entry' = entry
         /\ heap_start' = heap_start
         /\ \/ /\ Calls(n, v % Span[LEVELS], p)
               /\ current' = kernel_pml4 /\ level' = 0
            \/ Moves(n, next) /\ current' = current /\ level' = level
<1>1. /\ table' = table /\ kernel_pml4' = kernel_pml4 /\ kernel_pml4 # NULL
      /\ used' = used /\ used_blocks' = used_blocks /\ entry' = entry
      /\ heap_start' = heap_start /\ request = <<>>
  BY DEF MapPages, pmm
<1>2. \A w \in Pages : Translate(w)' = Translate(w)
  BY <1>1, TranslateKept
<1>3. CASE a < n
  <2>1. v % Span[LEVELS] \in Pages
    <3> DEFINE s == Span[LEVELS]
               w == v % s
    <3>1. s \in Nat \ {0} /\ Pages = 0 .. s - 1
      BY LayoutFacts
    <3> HIDE DEF s
    <3>2. w \in Nat /\ w < s
      BY <3>1, DivMod
    <3> HIDE DEF w
    <3>3. w \in 0 .. s - 1
      BY <3>1, <3>2
    <3> QED BY <3>1, <3>3 DEF w, s
  <2>2. /\ request' = <<v % Span[LEVELS], p>> /\ current' = kernel_pml4 /\ level' = 0
        /\ a' = a + 1 /\ phase' = phase
    BY <1>3 DEF MapPages
  <2> QED BY <1>1, <1>2, <1>3, <2>1, <2>2 DEF Calls, Asks
<1>4. CASE ~(a < n)
  <2>1. request' = request /\ current' = current /\ level' = level /\ phase' = next /\ a' = 0
    BY <1>4 DEF MapPages, walk
  <2> QED BY <1>1, <1>2, <1>4, <2>1 DEF Moves, Stays
<1> QED BY <1>1, <1>3, <1>4

(* The root, where a call begins, is where its way begins.                  *)
LEMMA MapType ==
  ASSUME Base, mmap' = mmap, table' = table, kernel_pml4' = kernel_pml4, kernel_pml4 # NULL,
         used' \subseteq Blocks, used_blocks' \in Nat, entry' = entry, a' \in Nat,
         cr3' \in BOOLEAN, heap_start' \in {heap_start, HEAP_START},
         phase' \in Mapping,
         \/ Stays /\ current' = current /\ level' = level
         \/ (\E v, p : Asks(v, p)) /\ current' = kernel_pml4 /\ level' = 0
  PROVE  TypeOK'
<1>1. TypeOK
  BY DEF Base
<1>2. phase' \in {"pmm_init", "kernel", "low", "mbi_parse", "direct", "identity",
                  "framebuffer", "heap", "done"}
  BY DEF Mapping
<1>3. /\ request' \in (Pages \X Nat) \cup {<<>>}
      /\ current' \in Blocks \cup {NULL} /\ (request' = <<>>) = (current' = NULL)
      /\ level' \in 0 .. LEVELS - 1
  <2>1. CASE Stays /\ current' = current /\ level' = level
    BY <1>1, <2>1 DEF TypeOK, Stays
  <2>2. CASE (\E v, p : Asks(v, p)) /\ current' = kernel_pml4 /\ level' = 0
    <3>1. PICK v, p : Asks(v, p)
      BY <2>2
    <3>2. request' = <<v, p>> /\ v \in Pages /\ p \in Nat
      BY <3>1, LayoutFacts DEF Asks
    <3>3. request' \in Pages \X Nat /\ request' # <<>>
      BY <3>2
    <3>4. 0 \in 0 .. LEVELS - 1
      BY LevelFacts
    <3> QED BY <1>1, <2>2, <3>3, <3>4 DEF TypeOK
  <2> QED BY <2>1, <2>2
<1>4. entry' \in DOMAIN mmap' /\ table' \in [Blocks -> [Index -> Nat \cup {NULL}]]
      /\ kernel_pml4' \in Blocks \cup {NULL} /\ heap_start' \in {NULL, HEAP_START}
  BY <1>1 DEF TypeOK
<1> QED BY <1>2, <1>3, <1>4 DEF TypeOK

LEMMA LayoutPages ==
  /\ \A i \in 0 .. DIRECT - 1 : OFFSET + i \in Pages /\ i \in Pages
  /\ \A i \in 0 .. IDENTITY - 1 : i \in Pages
  /\ \A i \in 0 .. HEAP_PAGES - 1 : HEAP_START + i \in Pages /\ HEAP_START + i \in HeapRange
  /\ \A v \in HeapRange : v \in Pages /\ v - HEAP_START \in 0 .. HEAP_PAGES - 1
                          /\ v = HEAP_START + (v - HEAP_START)
  BY LayoutFacts DEF HeapRange

LEMMA BeforeHeap ==
  ASSUME MapInv, HeapTo = 0, HeapTo' = 0, phase' \in Heaping => request' = <<>>,
         Stays \/ \E v, p : Asks(v, p) /\ v \notin HeapRange,
         \A i \in 0 .. DIRECT - 1 : i < DirectTo' => Will(OFFSET + i)' = i,
         \A i \in 0 .. IDENTITY - 1 : i < IdentityTo' => Will(i)' = i
  PROVE  MapInv'
<1>1. ASSUME NEW i \in 0 .. HEAP_PAGES - 1 PROVE ~(i < HeapTo') /\ Will(HEAP_START + i)' = NULL
  <2>1. ~(i < HeapTo) /\ ~(i < HeapTo')
    BY LayoutFacts
  <2>2. Will(HEAP_START + i) = NULL
    BY <2>1 DEF MapInv
  <2>3. HEAP_START + i \in Pages /\ HEAP_START + i \in HeapRange
    BY LayoutPages
  <2>4. CASE Stays
    BY <2>1, <2>2, <2>3, <2>4, StaysWill
  <2>5. CASE \E v, p : Asks(v, p) /\ v \notin HeapRange
    <3>1. PICK v, p : Asks(v, p) /\ v \notin HeapRange
      BY <2>5
    <3>2. Will(HEAP_START + i)' = IF HEAP_START + i = v THEN p ELSE Will(HEAP_START + i)
      BY <2>3, <3>1, AsksWill
    <3> QED BY <2>1, <2>2, <2>3, <3>1, <3>2
  <2> QED BY <2>4, <2>5
<1>2. ~(phase' \in Heaping /\ request' # <<>>)
  OBVIOUS
<1> QED BY <1>1, <1>2 DEF MapInv

(* The direct map.                                                          *)
LEMMA DirectStep ==
  ASSUME LoaderPasses, Base, MapInv, MapDirect
  PROVE  /\ TypeOK' /\ LoopInv' /\ MapInv'
         /\ table' = table /\ kernel_pml4' = kernel_pml4 /\ kernel_pml4 # NULL
         /\ HeapTo' = 0
         /\ \/ Stays /\ current' = current /\ level' = level
            \/ (\E v, p : Asks(v, p)) /\ current' = kernel_pml4 /\ level' = 0
<1> USE LayoutFacts
<1>1. phase = "direct" /\ MapPages(DIRECT, OFFSET + a, a, "identity") /\ cr3' = cr3
  BY DEF MapDirect
<1>2. a \in Nat /\ a <= DIRECT /\ used \subseteq Blocks /\ used_blocks \in Nat
      /\ cr3 = FALSE /\ heap_start \in {NULL, HEAP_START}
  BY <1>1 DEF Base, TypeOK, LoopInv, Heaping
<1>3. OFFSET + a \in Nat /\ (a < DIRECT => a \in Pages)
      /\ (a < DIRECT => (OFFSET + a) % Span[LEVELS] = OFFSET + a)
  <2>1. OFFSET + a \in Nat /\ (a < DIRECT => a \in Pages /\ OFFSET + a < Span[LEVELS])
    BY <1>2
  <2> QED BY <2>1, SmallMod
<1>4. /\ table' = table /\ kernel_pml4' = kernel_pml4 /\ kernel_pml4 # NULL
      /\ used' = used /\ used_blocks' = used_blocks /\ entry' = entry
      /\ heap_start' = heap_start
      /\ \/ /\ Calls(DIRECT, OFFSET + a, a)
            /\ current' = kernel_pml4 /\ level' = 0
         \/ Moves(DIRECT, "identity") /\ current' = current /\ level' = level
  <2>1. \/ /\ Calls(DIRECT, (OFFSET + a) % Span[LEVELS], a)
           /\ current' = kernel_pml4 /\ level' = 0
        \/ Moves(DIRECT, "identity") /\ current' = current /\ level' = level
    BY <1>1, <1>3, MapPagesIs
  <2>2. /\ table' = table /\ kernel_pml4' = kernel_pml4 /\ kernel_pml4 # NULL
        /\ used' = used /\ used_blocks' = used_blocks /\ entry' = entry
        /\ heap_start' = heap_start
    BY <1>1, <1>3, MapPagesIs
  <2>3. Calls(DIRECT, (OFFSET + a) % Span[LEVELS], a) => Calls(DIRECT, OFFSET + a, a)
    BY <1>3 DEF Calls
  <2> QED BY <2>1, <2>2, <2>3
<1>5. mmap' = mmap /\ fb' = fb
  BY LoaderKept DEF Next
<1>6. /\ a' \in Nat /\ HeapTo' = 0
      /\ \/ phase' = "direct" /\ a' = a + 1 /\ a' <= DIRECT
         \/ phase' = "identity" /\ a' = 0 /\ a = DIRECT
  BY <1>1, <1>2, <1>4 DEF Calls, Moves, HeapTo, Heaping
<1>7. \/ Stays /\ current' = current /\ level' = level
      \/ (\E v, p : Asks(v, p)) /\ current' = kernel_pml4 /\ level' = 0
  BY <1>4 DEF Calls, Moves
<1>8. TypeOK'
  BY <1>2, <1>4, <1>1, <1>5, <1>6, <1>7, MapType DEF Mapping
<1>9. LoopInv'
  BY <1>1, <1>2, <1>4, <1>6 DEF LoopInv, Loading, Heaping
<1>10. MapInv'
  <2>1. HeapTo = 0 /\ ~(phase' \in Heaping)
    BY <1>1, <1>6 DEF HeapTo, Heaping
  <2>2. DirectTo = a /\ IdentityTo' = 0
    BY <1>1, <1>6 DEF DirectTo, IdentityTo, Loading
  <2>3. ASSUME NEW i \in 0 .. IDENTITY - 1 PROVE ~(i < IdentityTo')
    BY <2>2
  <2>4. CASE Calls(DIRECT, OFFSET + a, a)
    <3>1. DirectTo' = a + 1 /\ a < DIRECT /\ Asks(OFFSET + a, a)
      BY <1>1, <2>4 DEF Calls, DirectTo, Loading
    <3>2. OFFSET + a \notin HeapRange
      BY <1>2, <3>1 DEF HeapRange
    <3>3. ASSUME NEW i \in 0 .. DIRECT - 1, i < DirectTo' PROVE Will(OFFSET + i)' = i
      <4>1. OFFSET + i \in Pages
        BY LayoutPages
      <4>2. Will(OFFSET + i)' = IF OFFSET + i = OFFSET + a THEN a ELSE Will(OFFSET + i)
        BY <3>1, <4>1, AsksWill
      <4>3. CASE i = a
        BY <4>2, <4>3
      <4>4. CASE i # a
        <5>1. i < a /\ OFFSET + i # OFFSET + a
          BY <1>2, <3>1, <3>3, <4>4
        <5>2. Will(OFFSET + i) = i
          BY <2>2, <5>1 DEF MapInv
        <5> QED BY <4>2, <5>1, <5>2
      <4> QED BY <4>3, <4>4
    <3> QED BY <2>1, <1>6, <3>1, <3>2, <3>3, <2>3, BeforeHeap
  <2>5. CASE Moves(DIRECT, "identity")
    <3>1. Stays /\ DirectTo' = DIRECT /\ a = DIRECT
      BY <1>2, <2>5 DEF Moves, DirectTo, Loading
    <3>2. ASSUME NEW i \in 0 .. DIRECT - 1, i < DirectTo' PROVE Will(OFFSET + i)' = i
      <4>1. OFFSET + i \in Pages
        BY LayoutPages
      <4>2. Will(OFFSET + i) = i
        BY <2>2, <3>1 DEF MapInv
      <4> QED BY <3>1, <4>1, <4>2, StaysWill
    <3> QED BY <2>1, <1>6, <3>1, <3>2, <2>3, BeforeHeap
  <2> QED BY <1>4, <2>4, <2>5
<1> QED BY <1>4, <1>6, <1>7, <1>8, <1>9, <1>10

(* The identity map.                                                        *)
LEMMA IdentityStep ==
  ASSUME LoaderPasses, Base, MapInv, MapIdentity
  PROVE  /\ TypeOK' /\ LoopInv' /\ MapInv'
         /\ table' = table /\ kernel_pml4' = kernel_pml4 /\ kernel_pml4 # NULL
         /\ HeapTo' = 0
         /\ \/ Stays /\ current' = current /\ level' = level
            \/ (\E v, p : Asks(v, p)) /\ current' = kernel_pml4 /\ level' = 0
<1> USE LayoutFacts
<1>1. phase = "identity" /\ MapPages(IDENTITY, a, a, "framebuffer") /\ cr3' = cr3
  BY DEF MapIdentity
<1>2. a \in Nat /\ a <= IDENTITY /\ used \subseteq Blocks /\ used_blocks \in Nat
      /\ cr3 = FALSE /\ heap_start \in {NULL, HEAP_START}
  BY <1>1 DEF Base, TypeOK, LoopInv, Heaping
<1>3. a < IDENTITY => a \in Pages /\ a % Span[LEVELS] = a
  <2>1. a < IDENTITY => a \in Pages /\ a < Span[LEVELS]
    BY <1>2
  <2> QED BY <1>2, <2>1, SmallMod
<1>4. /\ table' = table /\ kernel_pml4' = kernel_pml4 /\ kernel_pml4 # NULL
      /\ used' = used /\ used_blocks' = used_blocks /\ entry' = entry
      /\ heap_start' = heap_start
      /\ \/ /\ Calls(IDENTITY, a, a)
            /\ current' = kernel_pml4 /\ level' = 0
         \/ Moves(IDENTITY, "framebuffer") /\ current' = current /\ level' = level
  <2>1. \/ /\ Calls(IDENTITY, a % Span[LEVELS], a)
           /\ current' = kernel_pml4 /\ level' = 0
        \/ Moves(IDENTITY, "framebuffer") /\ current' = current /\ level' = level
    BY <1>1, <1>2, <1>3, MapPagesIs
  <2>2. /\ table' = table /\ kernel_pml4' = kernel_pml4 /\ kernel_pml4 # NULL
        /\ used' = used /\ used_blocks' = used_blocks /\ entry' = entry
        /\ heap_start' = heap_start
    BY <1>1, <1>2, <1>3, MapPagesIs
  <2>3. Calls(IDENTITY, a % Span[LEVELS], a) => Calls(IDENTITY, a, a)
    BY <1>3 DEF Calls
  <2> QED BY <2>1, <2>2, <2>3
<1>5. mmap' = mmap /\ fb' = fb
  BY LoaderKept DEF Next
<1>11. fb.size \in Nat
  BY LoaderFacts
<1>6. /\ a' \in Nat /\ HeapTo' = 0
      /\ \/ phase' = "identity" /\ a' = a + 1 /\ a' <= IDENTITY
         \/ phase' = "framebuffer" /\ a' = 0 /\ a = IDENTITY
  BY <1>1, <1>2, <1>4 DEF Calls, Moves, HeapTo, Heaping
<1>7. \/ Stays /\ current' = current /\ level' = level
      \/ (\E v, p : Asks(v, p)) /\ current' = kernel_pml4 /\ level' = 0
  BY <1>4 DEF Calls, Moves
<1>8. TypeOK'
  BY <1>2, <1>4, <1>1, <1>5, <1>6, <1>7, MapType DEF Mapping
<1>9. LoopInv'
  BY <1>1, <1>2, <1>4, <1>5, <1>6, <1>11 DEF LoopInv, Loading, Heaping
<1>10. MapInv'
  <2>1. HeapTo = 0 /\ ~(phase' \in Heaping)
    BY <1>1, <1>6 DEF HeapTo, Heaping
  <2>2. DirectTo = DIRECT /\ IdentityTo = a /\ DirectTo' = DIRECT
    BY <1>1, <1>6 DEF DirectTo, IdentityTo, Loading
  <2>3. CASE Calls(IDENTITY, a, a)
    <3>1. IdentityTo' = a + 1 /\ a < IDENTITY /\ Asks(a, a)
      BY <1>1, <2>3 DEF Calls, IdentityTo, Loading
    <3>2. a \notin HeapRange
      BY <1>2, <3>1 DEF HeapRange
    <3>3. ASSUME NEW i \in 0 .. DIRECT - 1 PROVE Will(OFFSET + i)' = i
      <4>1. OFFSET + i \in Pages /\ OFFSET + i # a
        BY <1>2, <3>1, LayoutPages
      <4>2. Will(OFFSET + i) = i
        BY <2>2 DEF MapInv
      <4> QED BY <3>1, <4>1, <4>2, AsksWill
    <3>4. ASSUME NEW i \in 0 .. IDENTITY - 1, i < IdentityTo' PROVE Will(i)' = i
      <4>1. Will(i)' = IF i = a THEN a ELSE Will(i)
        BY <3>1, LayoutPages, AsksWill
      <4>2. CASE i # a
        <5>1. i < a
          BY <1>2, <3>1, <3>4, <4>2
        <5>2. Will(i) = i
          BY <2>2, <5>1 DEF MapInv
        <5> QED BY <4>1, <4>2, <5>2
      <4> QED BY <4>1, <4>2
    <3> QED BY <2>1, <1>6, <3>1, <3>2, <3>3, <3>4, BeforeHeap
  <2>4. CASE Moves(IDENTITY, "framebuffer")
    <3>1. Stays /\ IdentityTo' = IDENTITY /\ a = IDENTITY
      BY <1>2, <2>4 DEF Moves, IdentityTo, Loading
    <3>2. ASSUME NEW i \in 0 .. DIRECT - 1 PROVE Will(OFFSET + i)' = i
      BY <2>2, <3>1, LayoutPages, StaysWill DEF MapInv
    <3>3. ASSUME NEW i \in 0 .. IDENTITY - 1 PROVE Will(i)' = i
      BY <2>2, <3>1, LayoutPages, StaysWill DEF MapInv
    <3> QED BY <2>1, <1>6, <3>1, <3>2, <3>3, BeforeHeap
  <2> QED BY <1>4, <2>3, <2>4
<1> QED BY <1>4, <1>6, <1>7, <1>8, <1>9, <1>10

(* Where paging_init's calls for the framebuffer go: to the page itself,    *)
(* and to its place in the direct map, or beyond, or round the end.         *)
LEMMA UpperIs ==
  ASSUME NEW phys \in Nat, phys < OFFSET
  PROVE  /\ phys \in Pages /\ phys % Span[LEVELS] = phys /\ Upper(phys) \in Pages
         /\ Upper(phys) = OFFSET + phys
            \/ (Upper(phys) = (OFFSET + phys) - Span[LEVELS] /\ Span[LEVELS] <= OFFSET + phys)
<1> DEFINE S == Span[LEVELS]
           n == OFFSET + phys
<1>1. /\ S \in Nat \ {0} /\ phys < S /\ n \in Nat /\ n < 2 * S
      /\ Pages = 0 .. S - 1
  BY LayoutFacts
<1>2. Upper(phys) = n % S
  BY DEF Upper
<1> HIDE DEF S, n
<1>3. phys % S = phys
  BY <1>1, SmallMod
<1>4. phys \in Pages
  BY <1>1
<1>5. (n < S => n % S = n) /\ (S <= n => n % S = n - S)
  BY <1>1, SmallMod
<1>6. n % S \in Nat /\ n % S < S
  BY <1>1, DivMod
<1> DEFINE u == n % S
<1> HIDE DEF u
<1>7. (n < S => u = n) /\ (S <= n => u = n - S) /\ u \in Nat /\ u < S
  BY <1>5, <1>6 DEF u
<1>8. Upper(phys) = u
  BY <1>2 DEF u
<1>9. Upper(phys) \in Pages /\ (Upper(phys) = n \/ (Upper(phys) = n - S /\ S <= n))
  BY <1>1, <1>7, <1>8
<1>10. phys % Span[LEVELS] = phys
  BY <1>3 DEF S
<1>11. n = OFFSET + phys
  BY DEF n
<1>12. Upper(phys) \in Pages /\ (Upper(phys) = OFFSET + phys
          \/ (Upper(phys) = (OFFSET + phys) - Span[LEVELS] /\ Span[LEVELS] <= OFFSET + phys))
  <2>1. S = Span[LEVELS]
    BY DEF S
  <2> QED BY <1>9, <1>11, <2>1, Zenon
<1> QED BY <1>4, <1>10, <1>12, Zenon

LEMMA FramebufferPlaces ==
  ASSUME LoaderPasses, Base, NEW h \in Nat, h < fb.size,
         NEW phys, phys = fb.addr + h, NEW v, v = phys \/ v = Upper(phys)
  PROVE  /\ phys \in Nat /\ phys < OFFSET
         /\ v \in Pages /\ v \notin HeapRange
         /\ \A i \in 0 .. DIRECT - 1 : OFFSET + i = v => phys = i
         /\ \A i \in 0 .. IDENTITY - 1 : i = v => phys = i
<1> USE LayoutFacts
<1>1. fb.size \in Nat /\ fb.addr \in Nat
  BY LoaderFacts
<1>2. phys \in Nat /\ phys < OFFSET
  BY <1>1, LoaderFacts, SMTT(30)
<1>3. Upper(phys) \notin (0 .. IDENTITY - 1) \cup HeapRange
  BY LoaderFacts
<1>4. CASE v = phys
  BY <1>2, <1>4 DEF HeapRange
<1>5. CASE v = Upper(phys)
  <2>1. v \in Pages /\ v \notin HeapRange /\ v \notin 0 .. IDENTITY - 1
    BY <1>2, <1>3, <1>5, UpperIs
  <2>2. v = OFFSET + phys \/ (v = (OFFSET + phys) - Span[LEVELS] /\ Span[LEVELS] <= OFFSET + phys)
    BY <1>2, <1>5, UpperIs
  <2>3. ASSUME NEW i \in 0 .. DIRECT - 1, OFFSET + i = v PROVE phys = i
    BY <1>2, <2>2, <2>3, SMTT(30)
  <2> QED BY <1>2, <2>1, <2>3
<1> QED BY <1>4, <1>5

LEMMA FramebufferStep ==
  ASSUME LoaderPasses, Base, MapInv, MapFramebuffer
  PROVE  /\ TypeOK' /\ LoopInv' /\ MapInv'
         /\ table' = table /\ kernel_pml4' = kernel_pml4 /\ kernel_pml4 # NULL
         /\ HeapTo' = 0
         /\ \/ Stays /\ current' = current /\ level' = level
            \/ (\E v, p : Asks(v, p)) /\ current' = kernel_pml4 /\ level' = 0
<1> DEFINE h == a \div 2
           phys == fb.addr + h
           n == 2 * fb.size
           v == IF a % 2 = 0 THEN phys ELSE OFFSET + phys
<1>1. phase = "framebuffer" /\ MapPages(n, v, phys, "heap") /\ cr3' = (phase' = "heap")
  BY DEF MapFramebuffer
<1>2. a \in Nat /\ a <= n /\ used \subseteq Blocks /\ used_blocks \in Nat
      /\ heap_start \in {NULL, HEAP_START}
  BY <1>1 DEF Base, TypeOK, LoopInv
<1>3. fb.size \in Nat /\ fb.addr \in Nat /\ n \in Nat
  BY LoaderFacts
<1>4. h \in Nat /\ (a < n => h < fb.size)
  BY <1>2, <1>3
<1>5. v = phys \/ v = OFFSET + phys
  OBVIOUS
<1> HIDE DEF h, v
<1>6. phys \in Nat /\ v \in Nat
  BY <1>3, <1>4, <1>5, LayoutFacts, SMTT(30)
<1> HIDE DEF phys, n
<1>7. a < n => /\ phys \in Nat /\ phys < OFFSET
               /\ v % Span[LEVELS] = phys \/ v % Span[LEVELS] = Upper(phys)
  <2> SUFFICES ASSUME a < n
               PROVE  /\ phys \in Nat /\ phys < OFFSET
                      /\ v % Span[LEVELS] = phys \/ v % Span[LEVELS] = Upper(phys)
    OBVIOUS
  <2>1. phys \in Nat /\ phys < OFFSET
    BY <1>4, FramebufferPlaces DEF phys
  <2>2. CASE v = phys
    BY <2>1, <2>2, UpperIs
  <2>3. CASE v = OFFSET + phys
    BY <2>1, <2>3 DEF Upper
  <2> QED BY <1>5, <2>1, <2>2, <2>3
<1> DEFINE w == v % Span[LEVELS]
<1>8. /\ table' = table /\ kernel_pml4' = kernel_pml4 /\ kernel_pml4 # NULL
      /\ used' = used /\ used_blocks' = used_blocks /\ entry' = entry
      /\ heap_start' = heap_start
      /\ \/ /\ Calls(n, w, phys)
            /\ current' = kernel_pml4 /\ level' = 0
         \/ Moves(n, "heap") /\ current' = current /\ level' = level
  <2>1. a < n => phys \in Pages
    BY <1>7, UpperIs
  <2> QED BY <1>1, <1>3, <1>6, <2>1, MapPagesIs
<1>9. a < n => /\ w \in Pages /\ w \notin HeapRange
               /\ \A i \in 0 .. DIRECT - 1 : OFFSET + i = w => phys = i
               /\ \A i \in 0 .. IDENTITY - 1 : i = w => phys = i
  <2> HIDE DEF w
  <2>1. a < n => w = phys \/ w = Upper(phys)
    BY <1>7 DEF w
  <2> QED BY <1>4, <2>1, FramebufferPlaces DEF phys
<1> HIDE DEF w
<1>10. mmap' = mmap /\ fb' = fb
  BY LoaderKept DEF Next
<1>11. /\ a' \in Nat /\ HeapTo' = 0
       /\ \/ phase' = "framebuffer" /\ a' = a + 1 /\ a' <= n
          \/ phase' = "heap" /\ a' = 0 /\ request' = request
  BY <1>1, <1>2, <1>3, <1>8 DEF Calls, Moves, Stays, HeapTo, Heaping
<1>12. \/ Stays /\ current' = current /\ level' = level
       \/ (\E x, p : Asks(x, p)) /\ current' = kernel_pml4 /\ level' = 0
  BY <1>8 DEF Calls, Moves
<1>13. TypeOK'
  <2>1. cr3' \in BOOLEAN
    BY <1>1
  <2>2. phase' \in Mapping
    BY <1>11 DEF Mapping
  <2> QED BY <1>2, <1>8, <1>10, <1>11, <1>12, <2>1, <2>2, MapType
<1>14. LoopInv'
  <2>1. phase' = "framebuffer" => a' <= 2 * fb'.size
    BY <1>10, <1>11 DEF n
  <2>2. cr3' => phase' = "heap"
    BY <1>1
  <2> QED BY <1>8, <1>11, <2>1, <2>2, LayoutFacts DEF LoopInv, Loading, Heaping
<1>15. MapInv'
  <2>1. HeapTo = 0 /\ (phase' \in Heaping => request' = <<>>)
    <3>1. request = <<>>
      BY <1>1 DEF MapPages
    <3> QED BY <1>1, <1>11, <3>1 DEF HeapTo, Heaping
  <2>2. DirectTo = DIRECT /\ IdentityTo = IDENTITY /\ DirectTo' = DIRECT /\ IdentityTo' = IDENTITY
    BY <1>1, <1>11 DEF DirectTo, IdentityTo, Loading
  <2>3. ASSUME NEW i \in 0 .. DIRECT - 1
        PROVE  OFFSET + i \in Pages /\ Will(OFFSET + i) = i
    BY <2>2, LayoutPages, LayoutFacts DEF MapInv
  <2>4. ASSUME NEW i \in 0 .. IDENTITY - 1
        PROVE  i \in Pages /\ Will(i) = i
    BY <2>2, LayoutPages, LayoutFacts DEF MapInv
  <2>5. CASE Calls(n, w, phys)
    <3>1. Asks(w, phys) /\ a < n
      BY <2>5 DEF Calls
    <3>2. ASSUME NEW i \in 0 .. DIRECT - 1 PROVE Will(OFFSET + i)' = i
      <4>1. Will(OFFSET + i)' = IF OFFSET + i = w THEN phys ELSE Will(OFFSET + i)
        BY <2>3, <3>1, AsksWill
      <4> QED BY <1>9, <2>3, <3>1, <4>1
    <3>3. ASSUME NEW i \in 0 .. IDENTITY - 1 PROVE Will(i)' = i
      <4>1. Will(i)' = IF i = w THEN phys ELSE Will(i)
        BY <2>4, <3>1, AsksWill
      <4> QED BY <1>9, <2>4, <3>1, <4>1
    <3> QED BY <1>9, <1>11, <2>1, <3>1, <3>2, <3>3, BeforeHeap
  <2>6. CASE Moves(n, "heap")
    <3>1. Stays
      BY <2>6 DEF Moves
    <3>2. ASSUME NEW i \in 0 .. DIRECT - 1 PROVE Will(OFFSET + i)' = i
      BY <2>3, <3>1, StaysWill
    <3>3. ASSUME NEW i \in 0 .. IDENTITY - 1 PROVE Will(i)' = i
      BY <2>4, <3>1, StaysWill
    <3> QED BY <1>11, <2>1, <3>1, <3>2, <3>3, BeforeHeap
  <2> QED BY <1>8, <2>5, <2>6
<1> QED BY <1>8, <1>11, <1>12, <1>13, <1>14, <1>15

(* What was given away stays given away.                                    *)
LEMMA TakenKept ==
  ASSUME used \subseteq used', mmap' = mmap, NEW f, Taken(f)
  PROVE  Taken(f)'
<1>1. Available' = Available
  BY DEF Available, End
<1> QED BY <1>1 DEF Taken, Skips

LEMMA MapKept ==
  ASSUME MapInv, \A v \in Pages : Will(v)' = Will(v), used \subseteq used', mmap' = mmap,
         DirectTo' = DirectTo, IdentityTo' = IdentityTo, HeapTo' = HeapTo,
         phase' \in Heaping /\ request' # <<>> =>
           /\ phase \in Heaping /\ request' = request /\ a' = a
           /\ \A v \in Pages : Translate(v)' = Translate(v)
  PROVE  MapInv'
<1>1. ASSUME NEW i \in 0 .. DIRECT - 1, i < DirectTo' PROVE Will(OFFSET + i)' = i
  BY <1>1, LayoutPages DEF MapInv
<1>2. ASSUME NEW i \in 0 .. IDENTITY - 1, i < IdentityTo' PROVE Will(i)' = i
  BY <1>2, LayoutPages DEF MapInv
<1>3. ASSUME NEW i \in 0 .. HEAP_PAGES - 1
      PROVE  IF i < HeapTo'
             THEN Will(HEAP_START + i)' \in Blocks /\ Taken(Will(HEAP_START + i))'
             ELSE Will(HEAP_START + i)' = NULL
  <2> DEFINE f == Will(HEAP_START + i)
  <2>1. f' = f
    BY LayoutPages
  <2>2. IF i < HeapTo THEN f \in Blocks /\ Taken(f) ELSE f = NULL
    BY DEF MapInv
  <2>3. CASE i < HeapTo
    <3>1. used \subseteq used' /\ f \in used /\ ~Skips(f) /\ f \in Available
      BY <2>2, <2>3 DEF Taken
    <3>2. Available' = Available
      BY DEF Available, End
    <3>3. f' \in used' /\ ~Skips(f') /\ f' \in Available'
      BY <2>1, <3>1, <3>2
    <3>4. Taken(f)'
      BY <3>3 DEF Taken, Skips
    <3> QED BY <2>1, <2>2, <2>3, <3>4
  <2>4. CASE ~(i < HeapTo)
    BY <2>1, <2>2, <2>4
  <2> QED BY <2>3, <2>4
<1>4. ASSUME NEW i \in 0 .. HEAP_PAGES - 1, NEW j \in 0 .. HEAP_PAGES - 1,
             i < HeapTo', j < HeapTo', i # j
      PROVE  Will(HEAP_START + i)' # Will(HEAP_START + j)'
  <2>1. Will(HEAP_START + i)' = Will(HEAP_START + i) /\ Will(HEAP_START + j)' = Will(HEAP_START + j)
    BY LayoutPages
  <2> QED BY <1>4, <2>1 DEF MapInv
<1>5. phase' \in Heaping /\ request' # <<>> =>
        /\ a' > 0 /\ request'[1] = HEAP_START + (a' - 1)
        /\ \A v \in Pages : v = request'[1] => Translate(v)' = NULL
  BY DEF MapInv
<1> QED BY <1>1, <1>2, <1>3, <1>4, <1>5 DEF MapInv

LEMMA TreeKept ==
  ASSUME Base, NEW T, Tree(T), table' = table, kernel_pml4' = kernel_pml4, kernel_pml4 # NULL,
         used \subseteq used', mmap' = mmap,
         \/ Stays /\ current' = current /\ level' = level
         \/ (\E v, p : Asks(v, p)) /\ current' = kernel_pml4 /\ level' = 0,
         \A i \in 0 .. HEAP_PAGES - 1, k \in 0 .. LEVELS - 1 :
           i < HeapTo' => Will(HEAP_START + i)' \notin T[k]
  PROVE  Tree(T)'
<1>1. Shape(T, table, kernel_pml4)'
  BY DEF Tree, Shape
<1>2. \A k \in 0 .. LEVELS - 1 : \A f \in T[k] : Taken(f)'
  BY TakenKept DEF Tree
<1>3. request' # <<>> =>
        /\ current' \in T[level']
        /\ \E at : IsWay(at, table', kernel_pml4', request'[1]) /\ at[level'] = current'
  <2>1. CASE Stays /\ current' = current /\ level' = level
    BY <2>1 DEF Stays, Tree
  <2>2. CASE (\E v, p : Asks(v, p)) /\ current' = kernel_pml4 /\ level' = 0
    <3>1. PICK v, p : Asks(v, p)
      BY <2>2
    <3>2. v \in Nat /\ request'[1] = v
      BY <3>1, LayoutFacts DEF Asks
    <3>3. table \in [Blocks -> [Index -> Place]] /\ kernel_pml4 \in Blocks \cup {NULL}
      BY DEF Base, TypeOK, Place
    <3>4. Shape(T, table, kernel_pml4)
      BY DEF Tree
    <3>5. PICK at : IsWay(at, table, kernel_pml4, v)
      BY <3>2, <3>3, <3>4, WayExists
    <3>6. at[0] = kernel_pml4 /\ kernel_pml4 \in T[0]
      BY <3>4, <3>5 DEF IsWay, Shape
    <3> QED BY <2>2, <3>2, <3>5, <3>6
  <2> QED BY <2>1, <2>2
<1> QED BY <1>1, <1>2, <1>3 DEF Tree

LEMMA LowestIs ==
  ASSUME ~Exhausted
  PROVE  Lowest \in Blocks /\ Lowest \notin used /\ Lowest \in Nat
<1> DEFINE S == Blocks \ used
<1>1. BLOCKS \in Nat
  BY SizesAssumption
<1>2. S \subseteq 0 .. BLOCKS /\ S # {}
  BY <1>1 DEF Blocks, Exhausted
<1>3. \E x \in S : \A y \in S : x <= y
  BY <1>1, <1>2, LeastElement
<1>4. Lowest \in S
  BY <1>3 DEF Lowest
<1> QED BY <1>1, <1>4 DEF Blocks

LEMMA MarkLowest ==
  ASSUME ~Exhausted, MarkUsed(Lowest) PROVE used' = used \cup {Lowest}
<1>1. Lowest < BLOCKS /\ Lowest \notin used
  BY LowestIs, SizesAssumption DEF Blocks
<1> QED BY <1>1 DEF MarkUsed

(* heap_init's blocks come from pmm_alloc_block itself; safe_pmm_alloc has  *)
(* left only good ones.                                                     *)
LEMMA HeapStep ==
  ASSUME LoaderPasses, Base, MapInv, NEW T, Tree(T), MapHeap
  PROVE  /\ TypeOK' /\ LoopInv' /\ MapInv' /\ Tree(T)'
         /\ table' = table /\ kernel_pml4' = kernel_pml4
         /\ Stays \/ \E v, p : Asks(v, p)
<1>0. PICK f, v : f = Lowest /\ v = HEAP_START + a
  OBVIOUS
<1>1. /\ phase = "heap" /\ request = <<>> /\ mmap' = mmap /\ fb' = fb /\ entry' = entry
      /\ table' = table /\ kernel_pml4' = kernel_pml4 /\ cr3' = cr3
  BY DEF MapHeap, loader, tree
<1>2. /\ a \in Nat /\ a <= HEAP_PAGES /\ used \subseteq Blocks /\ cr3 \in BOOLEAN
      /\ heap_start \in {NULL, HEAP_START} /\ kernel_pml4 # NULL
  BY <1>1 DEF Base, TypeOK, LoopInv, Loading, Heaping
<1>3. Next /\ [Next]_vars
  BY DEF Next
<1>4. used_blocks' \in Nat
  <2>1. CounterInv'
    BY <1>3, CounterStep DEF Base
  <2> QED BY <2>1, FS_CardinalityType DEF CounterInv
<1>5. used \subseteq used'
  BY <1>1, <1>3, UsedGrows DEF PmmInit, MbiParse
<1>6. used' \subseteq Blocks
  <2>1. CASE UNCHANGED pmm
    BY <1>2, <2>1 DEF pmm
  <2>2. CASE ~Exhausted /\ MarkUsed(Lowest)
    BY <1>2, <2>2, LowestIs, MarkUsedType
  <2> QED BY <2>1, <2>2 DEF MapHeap
<1>7. \A x \in Pages : Translate(x)' = Translate(x)
  BY <1>1, TranslateKept
<1>8. HeapTo = a /\ DirectTo = DIRECT /\ IdentityTo = IDENTITY
  BY <1>1 DEF HeapTo, DirectTo, IdentityTo, Heaping, Loading
<1>9. CASE phase' = "done"
  <2>1. a' = a /\ request' = request /\ current' = current /\ level' = level
        /\ heap_start' \in {heap_start, HEAP_START}
    BY <1>9, <1>1 DEF MapHeap, walk
  <2>2. Stays
    BY <1>7, <2>1 DEF Stays
  <2>3. HeapTo' = HeapTo /\ DirectTo' = DirectTo /\ IdentityTo' = IdentityTo
    BY <1>8, <1>9, <2>1 DEF HeapTo, DirectTo, IdentityTo, Heaping, Loading
  <2>4. \A x \in Pages : Will(x)' = Will(x)
    BY <2>2, StaysWill
  <2>5. TypeOK'
    BY <1>1, <1>2, <1>4, <1>6, <1>9, <2>1, <2>2, MapType DEF Mapping
  <2>6. LoopInv'
    BY <1>1, <1>2, <1>9, <2>1 DEF LoopInv, Loading, Heaping
  <2>7. MapInv'
    BY <1>1, <1>5, <2>1, <2>3, <2>4, MapKept
  <2>8. Tree(T)'
    <3>1. ASSUME NEW i \in 0 .. HEAP_PAGES - 1, NEW k \in 0 .. LEVELS - 1, i < HeapTo'
          PROVE  Will(HEAP_START + i)' \notin T[k]
      <4>1. Will(HEAP_START + i)' = Will(HEAP_START + i)
        BY <2>4, LayoutPages
      <4> QED BY <2>3, <3>1, <4>1 DEF Tree
    <3> QED BY <1>1, <1>2, <1>5, <2>1, <2>2, <3>1, TreeKept
  <2> QED BY <1>1, <2>2, <2>5, <2>6, <2>7, <2>8
<1>10. CASE phase' # "done"
  <2>1. /\ a < HEAP_PAGES /\ ~Exhausted /\ MarkUsed(f)
        /\ request' = <<v, f>> /\ current' = kernel_pml4 /\ level' = 0
        /\ a' = a + 1 /\ phase' = "heap" /\ heap_start' = heap_start
    <3>1. a # HEAP_PAGES /\ AllocBlock # 0
      BY <1>10 DEF MapHeap
    <3>2. ~Exhausted /\ AllocBlock = f
      BY <1>0, <3>1 DEF AllocBlock
    <3> QED BY <1>0, <1>1, <1>2, <3>1, <3>2, LayoutFacts DEF MapHeap
  <2>2. f \in Blocks /\ f \notin used /\ used' = used \cup {f}
    BY <1>0, <2>1, LowestIs, MarkLowest
  <2>3. ~Skips(f) /\ f \in Available
    BY <1>2, <2>2 DEF Base, ReservedInv
  <2>4. Taken(f)'
    <3>1. Available' = Available
      BY <1>1 DEF Available, End
    <3> QED BY <2>2, <2>3, <3>1 DEF Taken, Skips
  <2>5. f \in Pages
    BY <2>2, LayoutFacts DEF Blocks
  <2>6. v \in Pages /\ a \in 0 .. HEAP_PAGES - 1
    BY <1>0, <1>2, <2>1, LayoutFacts
  <2>7. Asks(v, f)
    BY <1>1, <1>7, <2>1, <2>5, <2>6 DEF Asks
  <2>8. HeapTo' = a + 1 /\ DirectTo' = DIRECT /\ IdentityTo' = IDENTITY
    BY <2>1 DEF HeapTo, DirectTo, IdentityTo, Heaping, Loading
  <2>9. TypeOK'
    BY <1>1, <1>2, <1>4, <1>6, <2>1, <2>7, MapType DEF Mapping
  <2>10. LoopInv'
    <3>1. a' <= HEAP_PAGES
      BY <1>0, <1>2, <2>1, LayoutFacts
    <3> QED BY <1>1, <1>2, <2>1, <3>1 DEF LoopInv, Loading, Heaping
  <2>11. \A x \in Pages : Will(x)' = IF x = v THEN f ELSE Will(x)
    BY <2>7, AsksWill
  <2>12. ASSUME NEW i \in 0 .. HEAP_PAGES - 1
         PROVE  Will(HEAP_START + i)' = IF i = a THEN f ELSE Will(HEAP_START + i)
    <3>1. HEAP_START + i \in Pages /\ (HEAP_START + i = v <=> i = a)
      BY <1>0, <1>2, LayoutPages, LayoutFacts
    <3> QED BY <2>11, <3>1
  <2>13. ASSUME NEW i \in 0 .. HEAP_PAGES - 1, i < a
         PROVE  /\ Will(HEAP_START + i) \in Blocks /\ Taken(Will(HEAP_START + i))
                /\ Will(HEAP_START + i) # f /\ Taken(Will(HEAP_START + i))'
    <3>1. Will(HEAP_START + i) \in Blocks /\ Taken(Will(HEAP_START + i))
      BY <1>8, <2>13 DEF MapInv
    <3>2. Available' = Available
      BY <1>1 DEF Available, End
    <3>3. Will(HEAP_START + i)' = Will(HEAP_START + i)
      BY <1>2, <2>12, <2>13
    <3>4. Taken(Will(HEAP_START + i))'
      BY <1>5, <3>1, <3>2, <3>3 DEF Taken, Skips
    <3> QED BY <2>2, <3>1, <3>4 DEF Taken
  <2>14. MapInv'
    <3>1. ASSUME NEW i \in 0 .. DIRECT - 1 PROVE Will(OFFSET + i)' = i
      <4>1. OFFSET + i \in Pages /\ OFFSET + i # v
        BY <1>0, <1>2, LayoutPages, LayoutFacts
      <4>2. Will(OFFSET + i) = i
        BY <1>8, LayoutFacts DEF MapInv
      <4> QED BY <2>11, <4>1, <4>2
    <3>2. ASSUME NEW i \in 0 .. IDENTITY - 1 PROVE Will(i)' = i
      <4>1. i \in Pages /\ i # v
        BY <1>0, <1>2, LayoutPages, LayoutFacts
      <4>2. Will(i) = i
        BY <1>8, LayoutFacts DEF MapInv
      <4> QED BY <2>11, <4>1, <4>2
    <3>3. ASSUME NEW i \in 0 .. HEAP_PAGES - 1
          PROVE  IF i < HeapTo'
                 THEN Will(HEAP_START + i)' \in Blocks /\ Taken(Will(HEAP_START + i))'
                 ELSE Will(HEAP_START + i)' = NULL
      <4>1. CASE i = a
        <5>1. Will(HEAP_START + i)' = f
          BY <2>12, <4>1
        <5>2. Taken(Will(HEAP_START + i))'
          BY <2>4, <5>1 DEF Taken, Skips
        <5> QED BY <1>2, <2>2, <2>8, <4>1, <5>1, <5>2
      <4>2. CASE i < a
        BY <1>2, <2>8, <2>12, <2>13, <4>2
      <4>3. CASE a < i
        <5>1. Will(HEAP_START + i) = NULL
          BY <1>2, <1>8, <4>3 DEF MapInv
        <5> QED BY <1>2, <2>8, <2>12, <4>3, <5>1
      <4> QED BY <1>2, <4>1, <4>2, <4>3
    <3>4. ASSUME NEW i \in 0 .. HEAP_PAGES - 1, NEW j \in 0 .. HEAP_PAGES - 1,
                 i < HeapTo', j < HeapTo', i # j
          PROVE  Will(HEAP_START + i)' # Will(HEAP_START + j)'
      <4>1. i <= a /\ j <= a
        BY <1>2, <2>8, <3>4
      <4>2. CASE i = a
        BY <1>2, <2>12, <2>13, <3>4, <4>1, <4>2
      <4>3. CASE j = a
        BY <1>2, <2>12, <2>13, <3>4, <4>1, <4>3
      <4>4. CASE i < a /\ j < a
        <5>1. Will(HEAP_START + i) # Will(HEAP_START + j)
          BY <1>8, <3>4, <4>4 DEF MapInv
        <5> QED BY <1>2, <2>12, <4>4, <5>1
      <4> QED BY <1>2, <4>1, <4>2, <4>3, <4>4
    <3>5. a' > 0 /\ request'[1] = HEAP_START + (a' - 1) 
          /\ \A x \in Pages : x = request'[1] => Translate(x)' = NULL
      <4>1. a' > 0 /\ a' - 1 = a /\ request'[1] = v
        BY <1>2, <2>1
      <4>2. Translate(v) = NULL
        <5>1. Will(v) = NULL
          BY <1>0, <1>2, <1>8, <2>6 DEF MapInv
        <5> QED BY <1>1, <5>1 DEF Will
      <4>3. ASSUME NEW x \in Pages, x = request'[1] PROVE Translate(x)' = NULL
        <5>1. x = v /\ Translate(x)' = Translate(x)
          BY <1>7, <4>1, <4>3
        <5>2. Translate(x) = NULL
          BY <4>2, <5>1
        <5> QED BY <5>1, <5>2
      <4> QED BY <1>0, <4>1, <4>3
    <3> QED BY <2>8, <3>1, <3>2, <3>3, <3>4, <3>5 DEF MapInv
  <2>15. Tree(T)'
    <3>1. ASSUME NEW i \in 0 .. HEAP_PAGES - 1, NEW k \in 0 .. LEVELS - 1, i < HeapTo'
          PROVE  Will(HEAP_START + i)' \notin T[k]
      <4>1. \A g \in T[k] : g \in used
        BY DEF Tree, Taken
      <4>2. CASE i = a
        BY <2>2, <2>12, <4>1, <4>2
      <4>3. CASE i # a
        BY <1>2, <1>8, <2>8, <2>12, <3>1, <4>3 DEF Tree
      <4> QED BY <4>2, <4>3
    <3> QED BY <1>1, <1>2, <1>5, <2>1, <2>7, <3>1, TreeKept
  <2> QED BY <1>1, <2>7, <2>9, <2>10, <2>14, <2>15
<1> QED BY <1>9, <1>10

-----------------------------------------------------------------------------
(* The steps of a walk *)

LEMMA TreeFacts ==
  ASSUME Base, NEW T, Tree(T)
  PROVE  /\ Shape(T, table, kernel_pml4)
         /\ table \in [Blocks -> [Index -> Place]] /\ kernel_pml4 \in Blocks \cup {NULL}
         /\ T \in [0 .. LEVELS - 1 -> SUBSET Blocks]
         /\ \A k \in 0 .. LEVELS - 1 : \A f \in T[k] : f \in Blocks /\ Taken(f)
         /\ request # <<>> =>
              /\ request[1] \in Pages /\ request[1] \in Nat /\ request[2] \in Nat
              /\ level \in 0 .. LEVELS - 1
              /\ current \in T[level] /\ current \in Blocks /\ current # NULL
              /\ IndexAt(request[1], level) \in Index
<1>1. Shape(T, table, kernel_pml4)
  BY DEF Tree
<1>2. table \in [Blocks -> [Index -> Place]] /\ kernel_pml4 \in Blocks \cup {NULL}
  BY DEF Base, TypeOK, Place
<1>3. T \in [0 .. LEVELS - 1 -> SUBSET Blocks]
  BY <1>1 DEF Shape
<1>4. \A k \in 0 .. LEVELS - 1 : \A f \in T[k] : f \in Blocks /\ Taken(f)
  BY <1>3 DEF Tree
<1>5. ASSUME request # <<>>
      PROVE  /\ request[1] \in Pages /\ request[1] \in Nat /\ request[2] \in Nat
             /\ level \in 0 .. LEVELS - 1
             /\ current \in T[level] /\ current \in Blocks /\ current # NULL
             /\ IndexAt(request[1], level) \in Index
  <2>1. request \in Pages \X Nat /\ level \in 0 .. LEVELS - 1
    BY <1>5 DEF Base, TypeOK
  <2>2. request[1] \in Pages /\ request[1] \in Nat /\ request[2] \in Nat
    BY <2>1, LayoutFacts
  <2>3. current \in T[level]
    BY <1>5 DEF Tree
  <2>4. current \in Blocks /\ current # NULL
    BY <1>3, <2>1, <2>3, LevelFacts
  <2> QED BY <2>1, <2>2, <2>3, <2>4, IndexFacts
<1> QED BY <1>1, <1>2, <1>3, <1>4, <1>5

(* What these steps leave alone, and the trees they may leave behind.       *)
Walks(T2) ==
  /\ used \subseteq used' /\ mmap' = mmap /\ fb' = fb
  /\ phase' = phase /\ entry' = entry /\ a' = a /\ cr3' = cr3 /\ heap_start' = heap_start
  /\ kernel_pml4' = kernel_pml4 \/ (phase = "direct" /\ request' = <<>> /\ kernel_pml4' # NULL)
  /\ Stays \/ Answers
  /\ Shape(T2, table', kernel_pml4')
  /\ \A k \in 0 .. LEVELS - 1 : \A f \in T2[k] :
       f \in Blocks /\ f \in used' /\ ~Skips(f) /\ f \in Available
  /\ request' # <<>> =>
       /\ current' \in T2[level']
       /\ \E at : IsWay(at, table', kernel_pml4', request'[1]) /\ at[level'] = current'
  /\ \A i \in 0 .. HEAP_PAGES - 1, k \in 0 .. LEVELS - 1 :
       i < HeapTo => Will(HEAP_START + i) \notin T2[k]

LEMMA WalksKeep ==
  ASSUME Base, MapInv, NEW T2, Walks(T2), TypeOK'
  PROVE  LoopInv' /\ MapInv' /\ Tree(T2)'
<1>1. \A v \in Pages : Will(v)' = Will(v)
  BY StaysWill, AnswersWill DEF Walks
<1>2. DirectTo' = DirectTo /\ IdentityTo' = IdentityTo /\ HeapTo' = HeapTo
  BY DEF Walks, DirectTo, IdentityTo, HeapTo
<1>3. Available' = Available
  BY DEF Walks, Available, End
<1>5. LoopInv'
  <2>1. LoopInv
    BY DEF Base
  <2>2. kernel_pml4' = kernel_pml4 \/ (phase = "direct" /\ request' = <<>> /\ kernel_pml4' # NULL)
    BY DEF Walks
  <2>3. request = <<>> => request' = <<>>
    BY DEF Walks, Stays, Answers
  <2>4. mmap' = mmap /\ fb' = fb /\ phase' = phase /\ entry' = entry /\ a' = a /\ cr3' = cr3
    BY DEF Walks
  <2> QED BY <2>1, <2>2, <2>3, <2>4 DEF LoopInv, Loading, Heaping
<1>6. MapInv'
  <2>1. phase' \in Heaping /\ request' # <<>> =>
           /\ phase \in Heaping /\ request' = request /\ a' = a
           /\ \A v \in Pages : Translate(v)' = Translate(v)
    BY DEF Walks, Stays, Answers
  <2>2. used \subseteq used' /\ mmap' = mmap
    BY DEF Walks
  <2> QED BY <1>1, <1>2, <2>1, <2>2, MapKept
<1>7. Tree(T2)'
  <2>1. Shape(T2, table, kernel_pml4)'
    BY DEF Walks, Shape
  <2>2. \A k \in 0 .. LEVELS - 1 : \A f \in T2[k] : Taken(f)'
    BY <1>3 DEF Walks, Taken, Skips
  <2>3. ASSUME NEW i \in 0 .. HEAP_PAGES - 1, NEW k \in 0 .. LEVELS - 1, i < HeapTo'
        PROVE  Will(HEAP_START + i)' \notin T2[k]
    <3>1. Will(HEAP_START + i)' = Will(HEAP_START + i)
      BY <1>1, LayoutPages
    <3> QED BY <1>2, <2>3, <3>1 DEF Walks
  <2>4. request' # <<>> =>
          /\ current' \in T2[level']
          /\ \E at : IsWay(at, table', kernel_pml4', request'[1]) /\ at[level'] = current'
    BY DEF Walks
  <2> QED BY <2>1, <2>2, <2>3, <2>4 DEF Tree
<1> QED BY <1>5, <1>6, <1>7

LEMMA WalkCounts ==
  ASSUME Base, Next PROVE used_blocks' \in Nat
<1>1. CounterInv'
  BY CounterStep DEF Base
<1> QED BY <1>1, FS_CardinalityType DEF CounterInv

(* The tables that were there are as good as before, when used grows.       *)
LEMMA OldTables ==
  ASSUME Base, NEW T, Tree(T), used \subseteq used', NEW k \in 0 .. LEVELS - 1, NEW f \in T[k]
  PROVE  f \in Blocks /\ f \in used' /\ ~Skips(f) /\ f \in Available
  BY TreeFacts DEF Taken

LEMMA SkipStep ==
  ASSUME Base, NEW T, Tree(T), SkipBlock
  PROVE  Walks(T) /\ TypeOK'
<1>1. /\ ~Exhausted /\ MarkUsed(Lowest)
      /\ mmap' = mmap /\ fb' = fb /\ phase' = phase /\ entry' = entry /\ a' = a
      /\ table' = table /\ kernel_pml4' = kernel_pml4 /\ cr3' = cr3 /\ heap_start' = heap_start
      /\ request' = request /\ current' = current /\ level' = level
  BY DEF SkipBlock, loader, loop, tree, walk
<1>2. used' = used \cup {Lowest} /\ Lowest \in Blocks
  BY <1>1, MarkLowest, LowestIs
<1>3. used_blocks' \in Nat
  BY WalkCounts DEF Next
<1>4. TypeOK'
  BY <1>1, <1>2, <1>3 DEF Base, TypeOK
<1>5. Stays
  BY <1>1, TranslateKept DEF Stays
<1>6. \A k \in 0 .. LEVELS - 1 : \A f \in T[k] :
        f \in Blocks /\ f \in used' /\ ~Skips(f) /\ f \in Available
  BY <1>2, OldTables
<1> QED BY <1>1, <1>2, <1>4, <1>5, <1>6 DEF Walks, Tree

(* One table down.                                                          *)
LEMMA DescendStep ==
  ASSUME Base, NEW T, Tree(T), Descend
  PROVE  Walks(T) /\ TypeOK'
<1>1. PICK next, v, l : /\ next = table[current][IndexAt(request[1], level)]
                        /\ v = request[1] /\ l = level
  OBVIOUS
<1>2. /\ request # <<>> /\ l < LEVELS - 1 /\ next # NULL
      /\ current' = next /\ level' = l + 1
      /\ mmap' = mmap /\ fb' = fb /\ phase' = phase /\ entry' = entry /\ a' = a
      /\ used' = used /\ used_blocks' = used_blocks
      /\ table' = table /\ kernel_pml4' = kernel_pml4 /\ cr3' = cr3 /\ heap_start' = heap_start
      /\ request' = request
  BY <1>1 DEF Descend, loader, loop, tree, pmm
<1>3. l \in 0 .. LEVELS - 2 /\ l + 1 \in 0 .. LEVELS - 1 /\ l + 1 \in 1 .. LEVELS
      /\ (l + 1) - 1 = l /\ current \in T[l] /\ current \in Blocks /\ current # NULL
      /\ IndexAt(v, l) \in Index
  <2>1. l \in 0 .. LEVELS - 1 /\ current \in T[l] /\ current \in Blocks /\ current # NULL
        /\ IndexAt(v, l) \in Index
    BY <1>1, <1>2, TreeFacts
  <2> QED BY <1>2, <2>1, LevelFacts
<1>4. next = table[current][IndexAt(v, l)]
  BY <1>1
<1>5. next \in T[l + 1] /\ next \in Blocks
  <2>1. next \in T[l + 1]
    BY <1>2, <1>3, <1>4, TreeFacts DEF Shape
  <2> QED BY <1>3, <2>1, TreeFacts
<1>6. TypeOK'
  BY <1>2, <1>3, <1>5, NullAssumption DEF Base, TypeOK
<1>7. Stays
  BY <1>2, TranslateKept DEF Stays
<1>8. \A k \in 0 .. LEVELS - 1 : \A f \in T[k] :
        f \in Blocks /\ f \in used' /\ ~Skips(f) /\ f \in Available
  BY <1>2, OldTables
<1>9. \E at : IsWay(at, table', kernel_pml4', request'[1]) /\ at[level'] = current'
  <2>1. PICK at : IsWay(at, table, kernel_pml4, v) /\ at[l] = current
    BY <1>1, <1>2 DEF Tree
  <2>2. at[l + 1] = Step(table, at[l], v, l)
    BY <1>3, <2>1 DEF IsWay
  <2>3. at[l + 1] = next
    BY <1>3, <1>4, <2>1, <2>2 DEF Step
  <2> QED BY <1>1, <1>2, <2>1, <2>3
<1>10. Shape(T, table', kernel_pml4')
  BY <1>2, TreeFacts
<1>11. \A i \in 0 .. HEAP_PAGES - 1, k \in 0 .. LEVELS - 1 :
         i < HeapTo => Will(HEAP_START + i) \notin T[k]
  BY DEF Tree
<1> QED BY <1>2, <1>5, <1>6, <1>7, <1>8, <1>9, <1>10, <1>11 DEF Walks

LEMMA RootStep ==
  ASSUME Base, NEW T, Tree(T), NewRoot
  PROVE  (\E T2 : Walks(T2)) /\ TypeOK'
<1>0. PICK f : f = Lowest
  OBVIOUS
<1>1. /\ phase = "direct" /\ kernel_pml4 = NULL
      /\ ~Exhausted /\ ~Skips(f) /\ MarkUsed(Lowest)
      /\ mmap' = mmap /\ fb' = fb /\ phase' = phase /\ entry' = entry /\ a' = a
      /\ table' = Cleared(table, f) /\ kernel_pml4' = f /\ cr3' = cr3 /\ heap_start' = heap_start
      /\ request' = request /\ current' = current /\ level' = level
  BY <1>0 DEF NewRoot, loader, loop, walk, Zeroed, Cleared
<1>2. used' = used \cup {f} /\ f \in Blocks /\ f \notin used
  BY <1>0, <1>1, MarkLowest, LowestIs
<1>3. f \in Available /\ request = <<>> /\ f # NULL
  BY <1>1, <1>2, LevelFacts DEF Base, LoopInv
<1>4. used_blocks' \in Nat
  BY WalkCounts DEF Next
<1>5. TypeOK'
  <2>1. table' \in [Blocks -> [Index -> Nat \cup {NULL}]]
    BY <1>1, <1>2, TreeFacts, ClearedFacts DEF Place
  <2> QED BY <1>1, <1>2, <1>4, <2>1 DEF Base, TypeOK
<1>6. Shape(T, table, NULL) /\ table \in [Blocks -> [Index -> Place]]
  BY <1>1, TreeFacts
<1>7. PICK T2 : Shape(T2, Cleared(table, f), f) /\ T2[0] = {f}
                /\ \A k \in 1 .. LEVELS - 1 : T2[k] = {}
  BY <1>2, <1>6, NewRootShape
<1>8. \A v \in Nat : FrameOf(Cleared(table, f), f, v) = FrameOf(table, NULL, v)
  BY <1>2, <1>6, NewRootShape
<1>9. Stays
  <2>1. ASSUME NEW v \in Pages PROVE Translate(v)' = Translate(v)
    <3>1. v \in Nat
      BY LayoutFacts
    <3>2. FrameOf(table', kernel_pml4', v) = FrameOf(table, kernel_pml4, v)
      BY <1>1, <1>8, <3>1
    <3> QED BY <3>2, TranslateIs
  <2> QED BY <1>1, <2>1 DEF Stays
<1>10. \A k \in 0 .. LEVELS - 1 : \A g \in T2[k] : g = f
  BY <1>7, LevelFacts
<1>11. HeapTo = 0
  BY <1>1 DEF HeapTo, Heaping
<1>12. \A i \in 0 .. HEAP_PAGES - 1 : ~(i < HeapTo)
  BY <1>11, LayoutFacts
<1>13. Walks(T2)
  BY <1>1, <1>2, <1>3, <1>7, <1>9, <1>10, <1>12 DEF Walks
<1> QED BY <1>5, <1>13

(* A table more, empty, in an entry that was empty: nobody's translation    *)
(* changes.                                                                 *)
LEMMA TableStep ==
  ASSUME Base, MapInv, NEW T, Tree(T), NewTable
  PROVE  (\E T2 : Walks(T2)) /\ TypeOK'
<1>0. PICK f, c, v, l, i, tab2 :
        /\ f = Lowest /\ c = current /\ v = request[1] /\ l = level /\ i = IndexAt(v, l)
        /\ tab2 = WithTable(table, f, c, i)
  OBVIOUS
<1>1. /\ request # <<>> /\ Wanted /\ ~Exhausted /\ ~Skips(f) /\ MarkUsed(Lowest)
      /\ mmap' = mmap /\ fb' = fb /\ phase' = phase /\ entry' = entry /\ a' = a
      /\ kernel_pml4' = kernel_pml4 /\ cr3' = cr3 /\ heap_start' = heap_start
      /\ request' = request /\ current' = f /\ level' = l + 1
  BY <1>0 DEF NewTable, loader, loop
<1>2. table' = tab2
  BY <1>0 DEF NewTable, Zeroed, Cleared, WithTable
<1>3. used' = used \cup {f} /\ f \in Blocks /\ f \notin used
  BY <1>0, <1>1, MarkLowest, LowestIs
<1>4. f \in Available /\ f # NULL
  BY <1>3, LevelFacts DEF Base
<1>5. kernel_pml4 # NULL
  BY <1>1 DEF Base, LoopInv
<1>6. l < LEVELS - 1 /\ table[c][i] = NULL
  BY <1>0, <1>1, <1>5 DEF Wanted
<1>7. /\ l \in 0 .. LEVELS - 2 /\ l \in 0 .. LEVELS - 1 /\ l + 1 \in 0 .. LEVELS - 1
      /\ c \in T[l] /\ c \in Blocks /\ i \in Index /\ v \in Pages /\ v \in Nat
  <2>1. l \in 0 .. LEVELS - 1 /\ c \in T[l] /\ c \in Blocks /\ i \in Index /\ v \in Pages /\ v \in Nat
    BY <1>0, <1>1, TreeFacts
  <2> QED BY <1>6, <2>1, LevelFacts
<1>8. \A k \in 0 .. LEVELS - 1 : f \notin T[k]
  BY <1>3, TreeFacts DEF Taken
<1>9. /\ table \in [Blocks -> [Index -> Place]] /\ Shape(T, table, kernel_pml4)
      /\ kernel_pml4 \in Blocks \cup {NULL} /\ T \in [0 .. LEVELS - 1 -> SUBSET Blocks]
  BY TreeFacts
<1>10. tab2 = WithTable(table, f, c, i)
  BY <1>0
<1>11. Added(T, table, tab2, kernel_pml4, l, c, i, f)
  <2>1. CanAdd(T, table, kernel_pml4, l, c, i, f)
    BY <1>3, <1>6, <1>7, <1>8, <1>9 DEF CanAdd
  <2> QED BY <1>10, <2>1, NewTableShape
<1>11a. PICK T2 : /\ Shape(T2, tab2, kernel_pml4) /\ T2[l + 1] = T[l + 1] \cup {f}
                 /\ \A k \in 0 .. LEVELS - 1 : k # l + 1 => T2[k] = T[k]
  BY <1>11 DEF Added
<1>12. \A x \in Nat : \A at : IsWay(at, table, kernel_pml4, x) =>
          \E to : /\ IsWay(to, tab2, kernel_pml4, x) /\ to[l] = at[l] /\ to[LEVELS] = at[LEVELS]
                  /\ at[l] = c /\ IndexAt(x, l) = i => to[l + 1] = f
  BY <1>11 DEF Added
<1>13. used_blocks' \in Nat
  BY WalkCounts DEF Next
<1>14. tab2 \in [Blocks -> [Index -> Place]]
  <2> DEFINE t1 == Cleared(table, f)
  <2>1. t1 \in [Blocks -> [Index -> Place]]
    BY <1>3, <1>9, ClearedFacts
  <2>2. f \in Place
    BY <1>3, LevelFacts DEF Place
  <2> HIDE DEF t1
  <2>3. [t1 EXCEPT ![c][i] = f] \in [Blocks -> [Index -> Place]]
    BY <1>7, <2>1, <2>2, EntryFacts
  <2> QED BY <1>10, <2>3 DEF t1, WithTable
<1>15. TypeOK'
  BY <1>1, <1>2, <1>3, <1>4, <1>7, <1>13, <1>14 DEF Base, TypeOK, Place
<1>16. Stays
  <2>1. ASSUME NEW x \in Pages PROVE Translate(x)' = Translate(x)
    <3>1. x \in Nat
      BY LayoutFacts
    <3>2. PICK at : IsWay(at, table, kernel_pml4, x)
      BY <1>9, <3>1, WayExists
    <3>3. PICK to : IsWay(to, tab2, kernel_pml4, x) /\ to[LEVELS] = at[LEVELS]
      BY <1>12, <3>1, <3>2
    <3>4. FrameOf(tab2, kernel_pml4, x) = FrameOf(table, kernel_pml4, x)
      BY <3>2, <3>3, WayIs
    <3>5. FrameOf(table', kernel_pml4', x) = FrameOf(table, kernel_pml4, x)
      BY <1>1, <1>2, <3>4
    <3> QED BY <3>5, TranslateIs
  <2> QED BY <1>1, <2>1 DEF Stays
<1>17. ASSUME NEW k \in 0 .. LEVELS - 1, NEW g \in T2[k]
       PROVE  g \in Blocks /\ g \in used' /\ ~Skips(g) /\ g \in Available
  <2>1. g \in T[k] \/ g = f
    BY <1>11a
  <2>2. CASE g = f
    BY <1>1, <1>3, <1>4, <2>2
  <2>3. CASE g \in T[k]
    BY <1>3, <2>3, OldTables
  <2> QED BY <2>1, <2>2, <2>3
<1>18. current' \in T2[level'] /\ \E at : IsWay(at, table', kernel_pml4', request'[1]) /\ at[level'] = current'
  <2>1. PICK at : IsWay(at, table, kernel_pml4, v) /\ at[l] = c
    BY <1>0, <1>1 DEF Tree
  <2>2. PICK to : IsWay(to, tab2, kernel_pml4, v) /\ to[l + 1] = f
    <3>1. IndexAt(v, l) = i
      BY <1>0
    <3> QED BY <1>7, <1>12, <2>1, <3>1
  <2>3. f \in T2[l + 1]
    BY <1>11a
  <2> QED BY <1>0, <1>1, <1>2, <2>2, <2>3
<1>19. ASSUME NEW n \in 0 .. HEAP_PAGES - 1, NEW k \in 0 .. LEVELS - 1, n < HeapTo
       PROVE  Will(HEAP_START + n) \notin T2[k]
  <2>1. Will(HEAP_START + n) \notin T[k]
    BY <1>19 DEF Tree
  <2>2. Will(HEAP_START + n) # f
    BY <1>3, <1>19 DEF MapInv, Taken
  <2> QED BY <1>11a, <2>1, <2>2
<1>20. Shape(T2, table', kernel_pml4')
  BY <1>1, <1>2, <1>11a
<1>21. Walks(T2)
  BY <1>1, <1>3, <1>16, <1>17, <1>18, <1>19, <1>20 DEF Walks
<1> QED BY <1>15, <1>21

(* The end of a call.                                                       *)
LEMMA EntryStep ==
  ASSUME Base, NEW T, Tree(T), WriteEntry
  PROVE  Walks(T) /\ TypeOK' /\ Answers
<1>0. PICK c, v, p, l, i, tab2 :
        /\ c = current /\ v = request[1] /\ p = request[2] /\ l = LEVELS - 1 /\ i = IndexAt(v, l)
        /\ tab2 = WithFrame(table, c, i, p)
  OBVIOUS
<1>1. /\ request # <<>> /\ level = l /\ table' = tab2
      /\ mmap' = mmap /\ fb' = fb /\ phase' = phase /\ entry' = entry /\ a' = a
      /\ used' = used /\ used_blocks' = used_blocks
      /\ kernel_pml4' = kernel_pml4 /\ cr3' = cr3 /\ heap_start' = heap_start
      /\ request' = <<>> /\ current' = NULL /\ level' = 0
  BY <1>0 DEF WriteEntry, loader, loop, pmm, WithFrame
<1>2. l \in 0 .. LEVELS - 1 /\ c \in T[l] /\ c \in Blocks /\ c # NULL /\ v \in Pages /\ v \in Nat
      /\ p \in Nat
  BY <1>0, <1>1, TreeFacts
<1>3. /\ table \in [Blocks -> [Index -> Place]] /\ Shape(T, table, kernel_pml4)
      /\ kernel_pml4 \in Blocks \cup {NULL}
  BY TreeFacts
<1>4. \E at : IsWay(at, table, kernel_pml4, v) /\ at[l] = c
  BY <1>0, <1>1 DEF Tree
<1>5. Written(T, table, tab2, kernel_pml4, v, p)
  <2>1. l = LEVELS - 1 /\ i = IndexAt(v, LEVELS - 1) /\ tab2 = WithFrame(table, c, i, p)
    BY <1>0
  <2>2. CanWrite(T, table, kernel_pml4, v, c, i, p)
    BY <1>2, <1>3, <1>4, <2>1 DEF CanWrite
  <2> QED BY <2>1, <2>2, WriteEntryShape
<1>6. /\ tab2 \in [Blocks -> [Index -> Place]]
      /\ Shape(T, tab2, kernel_pml4)
      /\ FrameOf(tab2, kernel_pml4, v) = p
      /\ \A w \in Pages : w # v => FrameOf(tab2, kernel_pml4, w) = FrameOf(table, kernel_pml4, w)
  BY <1>5 DEF Written
<1>7. Answers
  <2>1. ASSUME NEW w \in Pages
        PROVE  Translate(w)' = IF w = request[1] THEN request[2] ELSE Translate(w)
    <3>1. FrameOf(table', kernel_pml4', w) = IF w = v THEN p ELSE FrameOf(table, kernel_pml4, w)
      BY <1>1, <1>6
    <3> QED BY <1>0, <3>1, TranslateIs
  <2> QED BY <1>1, <2>1 DEF Answers
<1>8. TypeOK'
  BY <1>1, <1>6, LevelFacts DEF Base, TypeOK, Place
<1>9. \A k \in 0 .. LEVELS - 1 : \A f \in T[k] :
        f \in Blocks /\ f \in used' /\ ~Skips(f) /\ f \in Available
  BY <1>1, OldTables
<1>10. \A n \in 0 .. HEAP_PAGES - 1, k \in 0 .. LEVELS - 1 :
         n < HeapTo => Will(HEAP_START + n) \notin T[k]
  BY DEF Tree
<1>11. Shape(T, table', kernel_pml4')
  BY <1>1, <1>6
<1>12. Walks(T)
  BY <1>1, <1>7, <1>9, <1>10, <1>11 DEF Walks
<1> QED BY <1>7, <1>8, <1>12

-----------------------------------------------------------------------------
(* The invariant *)

(* Without a root nothing is mapped.                                        *)
LEMMA NothingMapped ==
  ASSUME NEW T, NEW tab \in [Blocks -> [Index -> Place]], Shape(T, tab, NULL), NEW v \in Nat
  PROVE  FrameOf(tab, NULL, v) = NULL
<1>1. PICK at : IsWay(at, tab, NULL, v)
  BY WayExists
<1>2. at[LEVELS - 1] \in T[LEVELS - 1] \cup {NULL}
  BY <1>1, LevelFacts, WayInTree
<1>3. T[LEVELS - 1] = {}
  BY LevelFacts DEF Shape
<1>4. at[LEVELS] = Step(tab, at[LEVELS - 1], v, LEVELS - 1)
  BY <1>1, SizesAssumption DEF IsWay
<1>5. at[LEVELS] = NULL
  BY <1>2, <1>3, <1>4 DEF Step
<1> QED BY <1>1, <1>5, WayIs

NoTables == [k \in 0 .. LEVELS - 1 |-> {}]

LEMMA NoTablesShape ==
  ASSUME NEW tab PROVE Shape(NoTables, tab, NULL)
<1>1. NoTables \in [0 .. LEVELS - 1 -> SUBSET Blocks] /\ \A k \in 0 .. LEVELS - 1 : NoTables[k] = {}
  BY DEF NoTables
<1>2. \A k \in 0 .. LEVELS - 2 : NoTables[k] = {} /\ NoTables[k + 1] = {}
  BY <1>1, LevelFacts
<1>3. NoTables[0] = {}
  BY <1>1, LevelFacts
<1> HIDE DEF NoTables
<1> QED BY <1>1, <1>2, <1>3 DEF Shape

LEMMA InvInit == LoaderPasses /\ Init => IInv
<1> SUFFICES ASSUME LoaderPasses, Init PROVE IInv
  OBVIOUS
<1>1. /\ mmap \in MemoryMaps /\ fb \in Framebuffers /\ mbi \in MbiAddresses
      /\ phase = "pmm_init" /\ entry = 1 /\ a = mmap[1][1]
      /\ used = Blocks /\ used_blocks = BLOCKS
      /\ table = [f \in Blocks |-> [i \in Index |-> 0]]
      /\ kernel_pml4 = NULL /\ cr3 = FALSE
      /\ request = <<>> /\ current = NULL /\ level = 0
      /\ heap_start = NULL
  BY DEF Init
<1>2. 1 \in DOMAIN mmap /\ mmap[1][1] \in Nat
  <2>1. mmap \in Seq(Nat \X Nat) /\ mmap # <<>>
    BY <1>1 DEF LoaderPasses
  <2>2. 1 \in DOMAIN mmap
    BY <2>1
  <2>3. mmap[1] \in Nat \X Nat
    BY <2>1, <2>2
  <2> QED BY <2>2, <2>3
<1>3. table \in [Blocks -> [Index -> Nat \cup {NULL}]]
  BY <1>1
<1>4. TypeOK
  BY <1>1, <1>2, <1>3, LevelFacts, SizesAssumption DEF TypeOK
<1>5. CounterInv /\ ReservedInv
  BY <1>1, CounterInit DEF ReservedInv
<1>6. LoopInv
  BY <1>1, <1>2 DEF LoopInv, Loading, Heaping
<1>7. Base
  BY <1>1, <1>4, <1>5, <1>6 DEF Base
<1>8. Shape(NoTables, table, NULL)
  BY NoTablesShape
<1>9. \A v \in Pages : Will(v) = NULL
  <2>1. ASSUME NEW v \in Pages PROVE Translate(v) = NULL
    <3>1. v \in Nat /\ table \in [Blocks -> [Index -> Place]]
      BY <1>3, LayoutFacts DEF Place
    <3>2. FrameOf(table, kernel_pml4, v) = NULL
      BY <1>1, <1>8, <3>1, NothingMapped
    <3> QED BY <3>2, TranslateIs
  <2> QED BY <1>1, <2>1 DEF Will
<1>10. HeapTo = 0 /\ DirectTo = 0 /\ IdentityTo = 0
  BY <1>1 DEF HeapTo, DirectTo, IdentityTo, Heaping, Loading
<1>11. /\ \A i \in 0 .. DIRECT - 1 : ~(i < DirectTo)
       /\ \A i \in 0 .. IDENTITY - 1 : ~(i < IdentityTo)
       /\ \A i \in 0 .. HEAP_PAGES - 1 : ~(i < HeapTo)
  BY <1>10, LayoutFacts
<1>12. \A i \in 0 .. HEAP_PAGES - 1 : Will(HEAP_START + i) = NULL
  BY <1>9, LayoutPages
<1>13. MapInv
  BY <1>1, <1>11, <1>12 DEF MapInv
<1>14. \A k \in 0 .. LEVELS - 1 : NoTables[k] = {}
  BY DEF NoTables
<1>15. Tree(NoTables)
  BY <1>1, <1>8, <1>11, <1>14 DEF Tree
<1> QED BY <1>7, <1>13, <1>15 DEF IInv

(* Loading: no table yet.                                                   *)
LEMMA LoadingTree ==
  ASSUME LoaderPasses, Base, MapInv, NEW T, Tree(T), PmmInit \/ MarkKernel \/ MarkLow \/ MbiParse
  PROVE  MapInv' /\ Tree(T)' /\ Stays
<1>1. /\ kernel_pml4 = NULL /\ request = <<>> /\ phase \in Loading
      /\ table' = table /\ kernel_pml4' = NULL /\ request' = <<>>
      /\ phase' \in Loading \/ (phase' = "direct" /\ a' = 0)
  BY LoadingStep
<1>2. Stays
  BY <1>1, TranslateKept DEF Stays
<1>3. HeapTo = 0 /\ HeapTo' = 0 /\ DirectTo' = 0 /\ IdentityTo' = 0 /\ ~(phase' \in Heaping)
  BY <1>1 DEF HeapTo, DirectTo, IdentityTo, Heaping, Loading
<1>4. /\ \A i \in 0 .. DIRECT - 1 : ~(i < DirectTo')
      /\ \A i \in 0 .. IDENTITY - 1 : ~(i < IdentityTo')
      /\ \A i \in 0 .. HEAP_PAGES - 1 : ~(i < HeapTo')
  BY <1>3, LayoutFacts
<1>5. MapInv'
  BY <1>1, <1>2, <1>3, <1>4, BeforeHeap
<1>6. Shape(T, table, kernel_pml4)' /\ \A k \in 0 .. LEVELS - 1 : T[k] = {}
  BY <1>1 DEF Tree, Shape
<1>7. Tree(T)'
  BY <1>1, <1>4, <1>6 DEF Tree
<1> QED BY <1>2, <1>5, <1>7

(* Every step, and what it does to the flat address space.                  *)
LEMMA InvNext ==
  ASSUME LoaderPasses, IInv, Next
  PROVE  /\ IInv'
         /\ Stays \/ (WriteEntry /\ Answers) \/ \E v, p : Asks(v, p)
<1>1. Base /\ MapInv
  BY DEF IInv
<1>2. PICK T : Tree(T)
  BY DEF IInv
<1> DEFINE Flatly == Stays \/ (WriteEntry /\ Answers) \/ \E v, p : Asks(v, p)
           After == TypeOK' /\ LoopInv' /\ MapInv' /\ (\E T2 : Tree(T2)') /\ Flatly
<1>3. ASSUME PmmInit \/ MarkKernel \/ MarkLow \/ MbiParse PROVE After
  <2>1. TypeOK' /\ LoopInv'
    BY <1>1, <1>3, LoadingStep
  <2>2. MapInv' /\ Tree(T)' /\ Stays
    BY <1>1, <1>2, <1>3, LoadingTree
  <2> QED BY <2>1, <2>2
<1>4. ASSUME MapDirect \/ MapIdentity \/ MapFramebuffer PROVE After
  <2>1. /\ TypeOK' /\ LoopInv' /\ MapInv'
        /\ table' = table /\ kernel_pml4' = kernel_pml4 /\ kernel_pml4 # NULL
        /\ HeapTo' = 0
        /\ \/ Stays /\ current' = current /\ level' = level
           \/ (\E v, p : Asks(v, p)) /\ current' = kernel_pml4 /\ level' = 0
    BY <1>1, <1>4, DirectStep, IdentityStep, FramebufferStep
  <2>2. used' = used /\ mmap' = mmap
    BY <1>4 DEF MapDirect, MapIdentity, MapFramebuffer, MapPages, pmm, loader
  <2>3. \A i \in 0 .. HEAP_PAGES - 1 : ~(i < HeapTo')
    BY <2>1, LayoutFacts
  <2>4. Tree(T)'
    BY <1>1, <1>2, <2>1, <2>2, <2>3, TreeKept
  <2> QED BY <2>1, <2>4
<1>5. ASSUME MapHeap PROVE After
  BY <1>1, <1>2, <1>5, HeapStep
<1>6. ASSUME NEW T2, Walks(T2), TypeOK', Stays \/ (WriteEntry /\ Answers) PROVE After
  BY <1>1, <1>6, WalksKeep
<1>7. ASSUME SkipBlock \/ Descend \/ NewRoot \/ NewTable PROVE After
  <2>1. (\E T2 : Walks(T2)) /\ TypeOK'
    BY <1>1, <1>2, <1>7, SkipStep, DescendStep, RootStep, TableStep
  <2>2. PICK T2 : Walks(T2)
    BY <2>1
  <2>3. request' = request
    BY <1>7 DEF SkipBlock, Descend, NewRoot, NewTable, walk
  <2>4. Stays
    BY <2>2, <2>3 DEF Walks, Answers
  <2> QED BY <1>6, <2>1, <2>2, <2>4
<1>8. ASSUME WriteEntry PROVE After
  <2>1. Walks(T) /\ TypeOK' /\ Answers
    BY <1>1, <1>2, <1>8, EntryStep
  <2> QED BY <1>6, <1>8, <2>1
<1>9. After
  <2> HIDE DEF After
  <2> QED BY <1>3, <1>4, <1>5, <1>7, <1>8 DEF Next
<1>10. CounterInv' /\ ReservedInv'
  BY <1>1, CounterStep, ReservedStep DEF Base
<1>11. mmap' \in MemoryMaps /\ fb' \in Framebuffers /\ mbi' \in MbiAddresses
  BY <1>1, LoaderKept DEF Base
<1>12. (Blocks \ used \subseteq Available)'
  BY <1>1, AvailableStep
<1>13. Base'
  BY <1>9, <1>10, <1>11, <1>12 DEF Base
<1> QED BY <1>9, <1>13 DEF IInv

LEMMA InvStutter ==
  ASSUME IInv, UNCHANGED vars
  PROVE  IInv' /\ Stays
<1>1. /\ mmap' = mmap /\ fb' = fb /\ mbi' = mbi /\ phase' = phase /\ entry' = entry /\ a' = a
      /\ used' = used /\ used_blocks' = used_blocks /\ table' = table /\ kernel_pml4' = kernel_pml4
      /\ cr3' = cr3 /\ request' = request /\ current' = current /\ level' = level
      /\ heap_start' = heap_start
  BY DEF vars
<1>2. Stays
  BY <1>1, TranslateKept DEF Stays
<1>3. Base'
  <2>1. Available' = Available
    BY <1>1 DEF Available, End
  <2>2. TypeOK'
    BY <1>1 DEF IInv, Base, TypeOK
  <2>3. CounterInv' /\ ReservedInv'
    BY <1>1 DEF IInv, Base, CounterInv, ReservedInv, Skips
  <2>4. LoopInv'
    BY <1>1 DEF IInv, Base, LoopInv
  <2> QED BY <1>1, <2>1, <2>2, <2>3, <2>4 DEF IInv, Base
<1>4. DirectTo' = DirectTo /\ IdentityTo' = IdentityTo /\ HeapTo' = HeapTo
  BY <1>1 DEF DirectTo, IdentityTo, HeapTo
<1>5. \A v \in Pages : Will(v)' = Will(v)
  BY <1>2, StaysWill
<1>6. MapInv'
  <2>1. \A v \in Pages : Translate(v)' = Translate(v)
    BY <1>2 DEF Stays
  <2> QED BY <1>1, <1>4, <1>5, <2>1, MapKept DEF IInv
<1>7. ASSUME NEW T, Tree(T) PROVE Tree(T)'
  <2>1. Shape(T, table, kernel_pml4)'
    BY <1>1, <1>7 DEF Tree, Shape
  <2>2. \A k \in 0 .. LEVELS - 1 : \A f \in T[k] : Taken(f)'
    BY <1>1, <1>7, TakenKept DEF Tree
  <2>3. request' # <<>> =>
          /\ current' \in T[level']
          /\ \E at : IsWay(at, table', kernel_pml4', request'[1]) /\ at[level'] = current'
    BY <1>1, <1>7 DEF Tree
  <2>4. ASSUME NEW i \in 0 .. HEAP_PAGES - 1, NEW k \in 0 .. LEVELS - 1, i < HeapTo'
        PROVE  Will(HEAP_START + i)' \notin T[k]
    <3>1. Will(HEAP_START + i)' = Will(HEAP_START + i)
      BY <1>5, LayoutPages
    <3> QED BY <1>4, <1>7, <2>4, <3>1 DEF Tree
  <2> QED BY <2>1, <2>2, <2>3, <2>4 DEF Tree
<1> QED BY <1>2, <1>3, <1>6, <1>7 DEF IInv

-----------------------------------------------------------------------------
(* What follows *)

(* The state of the set-up stays well formed: positions inside the memory   *)
(* map, tables of entries, walks from the root down.                        *)
THEOREM TypeCorrect == LoaderPasses => (Spec => []TypeOK)
<1> SUFFICES ASSUME LoaderPasses PROVE Spec => []TypeOK
  OBVIOUS
<1>1. Init => IInv
  BY InvInit
<1>2. IInv /\ [Next]_vars => IInv'
  BY InvNext, InvStutter
<1>3. IInv => TypeOK
  BY DEF IInv, Base
<1> QED BY <1>1, <1>2, <1>3, PTL DEF Spec

(* Pages outside the heap are as they will be, once paging_init is over.    *)
LEMMA MappedPages ==
  ASSUME IInv, phase \in Heaping, NEW v \in Pages, v \notin HeapRange
  PROVE  Translate(v) = Will(v)
<1>1. a \in Nat /\ a <= HEAP_PAGES
  BY DEF IInv, Base, TypeOK, LoopInv
<1>2. request # <<>> => request[1] \in HeapRange
  BY <1>1, LayoutFacts DEF IInv, MapInv, HeapRange
<1> QED BY <1>2 DEF Will

LEMMA KernelMappedInv == ASSUME IInv PROVE KernelMapped
<1> SUFFICES ASSUME cr3
             PROVE  /\ \A f \in Tables : Translate(OFFSET + f) = f
                    /\ \A f \in Blocks : f * PAGE < KERNEL_END => Translate(OFFSET + f) = f
                    /\ \A v \in 0 .. IDENTITY - 1 : Translate(v) = v
  BY DEF KernelMapped
<1>1. phase \in Heaping
  BY DEF IInv, Base, LoopInv
<1>2. DirectTo = DIRECT /\ IdentityTo = IDENTITY
  BY <1>1 DEF DirectTo, IdentityTo, Heaping, Loading
<1>3. ASSUME NEW f \in Blocks PROVE Translate(OFFSET + f) = f
  <2>1. f \in 0 .. DIRECT - 1 /\ f < DIRECT /\ OFFSET + f \notin HeapRange
    BY LayoutFacts DEF Blocks, HeapRange
  <2>2. OFFSET + f \in Pages
    BY <2>1, LayoutPages
  <2>3. Will(OFFSET + f) = f
    BY <1>2, <2>1 DEF IInv, MapInv
  <2> QED BY <1>1, <2>1, <2>2, <2>3, MappedPages
<1>4. ASSUME NEW v \in 0 .. IDENTITY - 1 PROVE Translate(v) = v
  <2>1. v < IDENTITY /\ v \notin HeapRange /\ v \in Pages
    BY LayoutFacts, LayoutPages DEF HeapRange
  <2>2. Will(v) = v
    BY <1>2, <2>1 DEF IInv, MapInv
  <2> QED BY <1>1, <2>1, <2>2, MappedPages
<1>5. Tables \subseteq Blocks
  <2>1. PICK T : Tree(T)
    BY DEF IInv
  <2>2. Base
    BY DEF IInv
  <2>3. \A k \in 0 .. LEVELS - 1 : TablesAt[k] \subseteq Blocks
    BY <2>1, <2>2, TreeFacts, LevelsAre
  <2> QED BY <2>3 DEF Tables
<1> QED BY <1>3, <1>4, <1>5

(* From the moment the processor uses the new tables, every table is where  *)
(* map_page writes to it, and the image and the low memory are where the    *)
(* kernel runs, for every layout and memory map that LoaderPasses allows.   *)
THEOREM KernelMappedHolds == LoaderPasses => (Spec => []KernelMapped)
<1> SUFFICES ASSUME LoaderPasses PROVE Spec => []KernelMapped
  OBVIOUS
<1>1. Init => IInv
  BY InvInit
<1>2. IInv /\ [Next]_vars => IInv'
  BY InvNext, InvStutter
<1>3. IInv => KernelMapped
  BY KernelMappedInv
<1> QED BY <1>1, <1>2, <1>3, PTL DEF Spec

(* The frames of the heap are those its pages will have, up to HeapTo.      *)
LEMMA HeapPagesAre ==
  ASSUME IInv, NEW v \in HeapPages
  PROVE  \E i \in 0 .. HEAP_PAGES - 1 :
           i < HeapTo /\ v = HEAP_START + i /\ Translate(v) = Will(HEAP_START + i)
<1>1. v \in HeapRange /\ Translate(v) # NULL
  BY DEF HeapPages, HeapRange
<1>2. PICK i \in 0 .. HEAP_PAGES - 1 : v = HEAP_START + i
  BY <1>1, LayoutPages
<1>3. v \in Pages
  BY <1>1, LayoutPages
<1>4. MapInv /\ Base
  BY DEF IInv
<1>5. phase \in Heaping \/ ~(i < HeapTo)
  BY LayoutFacts DEF HeapTo
<1>6. ~(i < HeapTo) => Will(v) = NULL
  BY <1>2, <1>4 DEF MapInv
<1>7. Will(v) = Translate(v)
  <2> SUFFICES ASSUME request # <<>>, request[1] = v PROVE FALSE
    BY DEF Will
  <2>1. request[2] \in Nat
    BY <1>4 DEF Base, TypeOK
  <2>2. Will(v) # NULL
    BY <2>1, LevelFacts DEF Will
  <2>3. phase \in Heaping
    BY <1>5, <1>6, <2>2
  <2>4. Translate(v) = NULL
    BY <1>3, <1>4, <2>3 DEF MapInv
  <2> QED BY <1>1, <2>4
<1> QED BY <1>1, <1>2, <1>6, <1>7

LEMMA HeapFramesAre ==
  ASSUME IInv, NEW f \in HeapFrames
  PROVE  \E i \in 0 .. HEAP_PAGES - 1 : i < HeapTo /\ f = Will(HEAP_START + i)
<1>1. CASE \E v \in HeapPages : f = Translate(v)
  BY <1>1, HeapPagesAre
<1>2. CASE phase \in Heaping /\ request # <<>> /\ f = request[2]
  <2>1. a \in Nat /\ a <= HEAP_PAGES /\ a > 0 /\ request[1] = HEAP_START + (a - 1)
    BY <1>2 DEF IInv, Base, TypeOK, LoopInv, MapInv
  <2>2. a - 1 \in 0 .. HEAP_PAGES - 1 /\ a - 1 < HeapTo
    BY <1>2, <2>1, LayoutFacts DEF HeapTo
  <2>3. f = Will(HEAP_START + (a - 1))
    BY <1>2, <2>1 DEF Will
  <2> QED BY <2>2, <2>3
<1> QED BY <1>1, <1>2 DEF HeapFrames, Heaping

(* As many entries as tables below, since each is entered once.             *)
LEMMA EntriesCounted ==
  ASSUME IInv, NEW k \in 1 .. LEVELS - 1
  PROVE  Cardinality(Entries(TablesAt[k - 1])) = Cardinality(TablesAt[k])
<1>1. PICK T : Tree(T)
  BY DEF IInv
<1>2. /\ Shape(T, table, kernel_pml4) /\ T \in [0 .. LEVELS - 1 -> SUBSET Blocks]
  BY <1>1, TreeFacts DEF IInv
<1>3. k - 1 \in 0 .. LEVELS - 2 /\ (k - 1) + 1 = k /\ k - 1 \in 0 .. LEVELS - 1 /\ k \in 0 .. LEVELS - 1
  BY LevelFacts
<1>4. PICK S : S = T[k] /\ TablesAt[k] = S /\ S \subseteq Blocks
  BY <1>2, <1>3, LevelsAre
<1>5. PICK R : R = T[k - 1] /\ TablesAt[k - 1] = R /\ R \subseteq Blocks
  BY <1>2, <1>3, LevelsAre
<1> DEFINE E == Entries(R)
           h == [e \in E |-> table[e[1]][e[2]]]
<1>6. ASSUME NEW e \in E
      PROVE  e \in R \X Index /\ e[1] \in R /\ e[1] \in Blocks /\ e[2] \in Index
             /\ table[e[1]][e[2]] # NULL
  BY <1>5 DEF Entries
<1>7. ASSUME NEW f \in Blocks, NEW i \in Index, f \in R, table[f][i] # NULL
      PROVE  table[f][i] \in S
  BY <1>2, <1>3, <1>4, <1>5, <1>7 DEF Shape
<1>8. ASSUME NEW g \in S PROVE \E f \in R, i \in Index : table[f][i] = g
  BY <1>2, <1>3, <1>4, <1>5 DEF Shape
<1>9. ASSUME NEW f \in Blocks, NEW g \in Blocks, NEW i \in Index, NEW j \in Index,
             f \in R, g \in R, table[f][i] # NULL, table[f][i] = table[g][j]
      PROVE  f = g /\ i = j
  BY <1>2, <1>3, <1>5, <1>9 DEF Shape
<1>10. NULL \notin S
  BY <1>4, LevelFacts
<1>11. h \in [E -> S]
  <2>1. \A e \in E : table[e[1]][e[2]] \in S
    BY <1>6, <1>7
  <2> QED BY <2>1
<1>12. \A e, d \in E : h[e] = h[d] => e = d
  <2> SUFFICES ASSUME NEW e \in E, NEW d \in E, h[e] = h[d] PROVE e = d
    OBVIOUS
  <2>1. table[e[1]][e[2]] = table[d[1]][d[2]]
    OBVIOUS
  <2> HIDE DEF h, E
  <2>2. e[1] = d[1] /\ e[2] = d[2]
    BY <1>6, <1>9, <2>1
  <2> QED BY <1>6, <2>2
<1>13. \A g \in S : \E e \in E : h[e] = g
  <2> SUFFICES ASSUME NEW g \in S PROVE \E e \in E : h[e] = g
    OBVIOUS
  <2>1. PICK f \in R, i \in Index : table[f][i] = g
    BY <1>8
  <2>2. <<f, i>> \in E
    BY <1>10, <2>1 DEF Entries
  <2>3. h[<<f, i>>] = g
    BY <2>1, <2>2
  <2> QED BY <2>2, <2>3
<1>14. IsFiniteSet(S)
  <2>1. IsFiniteSet(Blocks)
    BY SizesAssumption, FS_Interval DEF Blocks
  <2> QED BY <1>4, <2>1, FS_Subset
<1> HIDE DEF h, E
<1>15. h \in Injection(E, S) /\ h \in Surjection(E, S)
  BY <1>11, <1>12, <1>13 DEF Injection, Surjection, IsInjective
<1>16. Cardinality(E) = Cardinality(S)
  BY <1>14, <1>15, FS_Injection
<1> QED BY <1>4, <1>5, <1>16 DEF E

LEMMA ExclusiveInv == ASSUME IInv PROVE Exclusive
<1>1. PICK T : Tree(T)
  BY DEF IInv
<1>2. /\ Shape(T, table, kernel_pml4) /\ T \in [0 .. LEVELS - 1 -> SUBSET Blocks]
      /\ \A k \in 0 .. LEVELS - 1 : \A f \in T[k] : f \in Blocks /\ Taken(f)
  BY <1>1, TreeFacts DEF IInv
<1>3. \A k \in 0 .. LEVELS - 1 : TablesAt[k] = T[k]
  BY <1>2, LevelsAre
<1>4. ASSUME NEW f \in Tables PROVE \E k \in 0 .. LEVELS - 1 : f \in T[k]
  BY <1>3 DEF Tables
<1>5. \A f \in HeapFrames : f \in Blocks /\ Taken(f)
  BY HeapFramesAre DEF IInv, MapInv
<1>6. ASSUME NEW f \in Tables \cup HeapFrames
      PROVE  f \in used /\ f * PAGE > KERNEL_END /\ f \in Available
  <2>1. f \in Blocks /\ Taken(f)
    BY <1>2, <1>4, <1>5
  <2>2. f * PAGE \in Nat /\ KERNEL_END \in Nat
    BY <2>1, SizesAssumption DEF Blocks
  <2> QED BY <2>1, <2>2 DEF Taken, Skips
<1>7. \A k \in 1 .. LEVELS - 1 :
        Cardinality(Entries(TablesAt[k - 1])) = Cardinality(TablesAt[k])
  BY EntriesCounted
<1>8. \A j, k \in 0 .. LEVELS - 1 : j # k => TablesAt[j] \cap TablesAt[k] = {}
  BY <1>2, <1>3 DEF Shape
<1>9. HeapFrames \cap Tables = {}
  BY <1>1, <1>4, HeapFramesAre DEF Tree
<1>10. \A v, w \in HeapPages : v # w => Translate(v) # Translate(w)
  <2> SUFFICES ASSUME NEW v \in HeapPages, NEW w \in HeapPages, v # w
               PROVE  Translate(v) # Translate(w)
    OBVIOUS
  <2>1. PICK i \in 0 .. HEAP_PAGES - 1 :
           i < HeapTo /\ v = HEAP_START + i /\ Translate(v) = Will(HEAP_START + i)
    BY HeapPagesAre
  <2>2. PICK j \in 0 .. HEAP_PAGES - 1 :
           j < HeapTo /\ w = HEAP_START + j /\ Translate(w) = Will(HEAP_START + j)
    BY HeapPagesAre
  <2>3. i # j
    BY <2>1, <2>2
  <2> QED BY <2>1, <2>2, <2>3 DEF IInv, MapInv
<1> QED BY <1>6, <1>7, <1>8, <1>9, <1>10 DEF Exclusive

(* Every block that holds a table or backs a heap page has that one use, in *)
(* every state of the set-up, for every bitmap, memory map and layout that  *)
(* LoaderPasses allows.                                                     *)
THEOREM ExclusiveHolds == LoaderPasses => (Spec => []Exclusive)
<1> SUFFICES ASSUME LoaderPasses PROVE Spec => []Exclusive
  OBVIOUS
<1>1. Init => IInv
  BY InvInit
<1>2. IInv /\ [Next]_vars => IInv'
  BY InvNext, InvStutter
<1>3. IInv => Exclusive
  BY ExclusiveInv
<1> QED BY <1>1, <1>2, <1>3, PTL DEF Spec

(* The steps of the flat address space.                                     *)
LEMMA FlatStep ==
  ASSUME LoaderPasses, IInv, [Next]_vars
  PROVE  [Flat!Next]_(Flat!vars)
<1>1. Stays \/ (WriteEntry /\ Answers) \/ \E v, p : Asks(v, p)
  BY InvNext, InvStutter
<1> DEFINE m == [v \in Pages |-> Translate(v)]
<1>2. m' = [v \in Pages |-> Translate(v)']
  OBVIOUS
<1>3. CASE Stays
  <2>1. m' = m /\ request' = request
    BY <1>2, <1>3 DEF Stays
  <2> QED BY <2>1 DEF Flat!vars
<1>4. CASE Answers
  <2>1. m' = [m EXCEPT ![request[1]] = request[2]]
    BY <1>2, <1>4 DEF Answers
  <2> QED BY <1>4, <2>1 DEF Answers, Flat!Next, Flat!Answer
<1>5. ASSUME NEW v, NEW p, Asks(v, p) PROVE [Flat!Next]_(Flat!vars)
  <2>1. m' = m
    BY <1>2, <1>5 DEF Asks
  <2>2. Flat!Ask(v, p)
    BY <1>5, <2>1 DEF Asks, Flat!Ask
  <2> QED BY <1>5, <2>2 DEF Asks, Flat!Next
<1> QED BY <1>1, <1>3, <1>4, <1>5

LEMMA FlatInit == ASSUME LoaderPasses, Init PROVE Flat!Init
<1>1. IInv
  BY InvInit
<1>2. PICK T : Tree(T)
  BY <1>1 DEF IInv
<1>3. /\ Shape(T, table, kernel_pml4) /\ table \in [Blocks -> [Index -> Place]]
      /\ kernel_pml4 = NULL /\ request = <<>>
  BY <1>1, <1>2, TreeFacts DEF IInv, Init
<1>4. ASSUME NEW v \in Pages PROVE Translate(v) = NULL
  <2>1. v \in Nat
    BY LayoutFacts
  <2>2. FrameOf(table, kernel_pml4, v) = NULL
    BY <1>3, <2>1, NothingMapped
  <2> QED BY <2>2, TranslateIs
<1> QED BY <1>3, <1>4 DEF Flat!Init

(* The tables implement a flat address space: map_page changes the frame of *)
(* the page it was given and of no other, whatever tables it adds on the    *)
(* way, for every number of levels and of entries.                          *)
THEOREM ImplementsHolds == LoaderPasses => (Spec => Implements)
<1> SUFFICES ASSUME LoaderPasses PROVE Spec => Implements
  OBVIOUS
<1>1. Init => IInv /\ Flat!Init
  BY InvInit, FlatInit
<1>2. IInv /\ [Next]_vars => IInv' /\ [Flat!Next]_(Flat!vars)
  BY InvNext, InvStutter, FlatStep
<1> QED BY <1>1, <1>2, PTL DEF Spec, Implements, Flat!Spec

=============================================================================
