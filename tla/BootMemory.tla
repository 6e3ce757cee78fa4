----------------------------- MODULE BootMemory ------------------------------
(***************************************************************************)
(* How start_kernel sets memory up (init/init.c:32-37): pmm_init and       *)
(* mbi_parse fill the bitmap of physical blocks from the boot loader's     *)
(* memory map, paging_init builds the kernel's page tables out of blocks   *)
(* it takes from the bitmap, and heap_init maps the heap.  Interrupts are  *)
(* off until traps_init, just before heap_init, and no handler touches the *)
(* bitmap or the tables (Schedule() returns at once until sched_init has   *)
(* run): nothing runs beside it, and what matters is the order.            *)
(*                                                                         *)
(* Addresses in the memory map and of the kernel image count in units of   *)
(* which PAGE make a page; virtual pages and physical frames are numbers.  *)
(* Entry flags, and what the processor and the kernel keep in pages that   *)
(* are not tables, are left out.                                           *)
(***************************************************************************)
EXTENDS Integers, Sequences, FiniteSets

CONSTANTS
  BLOCKS,       \* MAX_BLOCKS: what the bitmap covers
  PAGE,         \* PAGE_SIZE
  UINT32,       \* 2^32: block numbers are kept modulo this
  LOW,          \* 0x100000, the end of the low megabyte
  KERNEL_START, KERNEL_END, \* the kernel image, physically
  LEVELS, FANOUT,  \* of the page tables: 4 and 512
  OFFSET,       \* the page number of KERNEL_OFFSET
  DIRECT,       \* pages mapped from OFFSET on: 512 MB
  IDENTITY,     \* pages mapped to themselves: 16 MB
  HEAP_START, HEAP_PAGES,
  MemoryMaps,   \* bound: sequences of available regions <<addr, len>>
  Framebuffers, \* bound: [addr, size] in pages, size 0 for none
  MbiAddresses, \* bound: where the boot information may be
  NULL

Blocks == 0 .. BLOCKS - 1
\* The pages below an entry that is k tables away from a frame.
Span[k \in 0 .. LEVELS] == IF k = 0 THEN 1 ELSE FANOUT * Span[k - 1]
Pages  == 0 .. Span[LEVELS] - 1
Index  == 0 .. FANOUT - 1

ASSUME SizesAssumption ==
  /\ BLOCKS \in Nat /\ PAGE \in Nat \ {0} /\ UINT32 \in Nat \ {0} /\ BLOCKS <= UINT32
  /\ FANOUT \in Nat \ {0} /\ LEVELS \in Nat \ {0}
  /\ LOW \in Nat /\ KERNEL_START \in Nat /\ KERNEL_END \in Nat
  /\ LOW <= KERNEL_START /\ KERNEL_START < KERNEL_END
(* Every frame of the bitmap is in the direct map: 256 MB of 512 MB.         *)
ASSUME LayoutAssumption ==
  /\ OFFSET \in Pages /\ DIRECT \in Nat /\ IDENTITY \in Nat
  /\ BLOCKS <= DIRECT /\ HEAP_START \in Nat /\ HEAP_PAGES \in Nat
  /\ IDENTITY <= OFFSET /\ OFFSET + DIRECT <= HEAP_START
  /\ HEAP_START + HEAP_PAGES - 1 \in Pages
ASSUME NullAssumption == NULL \notin Int

VARIABLES
  mmap, fb, mbi, \* what the boot loader passed; constant
  phase,         \* the loop start_kernel is in
  entry, a,      \* its position: in the memory map; its address or page
  used,          \* pmm_bitmap, as the set of blocks whose bit is set
  used_blocks,
  table,         \* memory, as page tables: block -> index -> frame, or NULL
  kernel_pml4,
  cr3,           \* whether the processor uses it
  request,       \* <<virtual, physical>> of the map_page under way, or <<>>
  current, level, \* its walk
  heap_start     \* heap.c's, as a page number

loader == <<mmap, fb, mbi>>
loop   == <<phase, entry, a>>
pmm    == <<used, used_blocks>>
tree   == <<table, kernel_pml4, cr3>>
walk   == <<request, current, level>>
vars   == <<mmap, fb, mbi, phase, entry, a, used, used_blocks, table, kernel_pml4,
            cr3, request, current, level, heap_start>>

-----------------------------------------------------------------------------
(* The physical allocator. *)

Block(addr) == (addr \div PAGE) % UINT32

MarkUsedAgain(b) == \* mutant: counts a block that was marked before
  /\ used' = IF b < BLOCKS THEN used \cup {b} ELSE used
  /\ used_blocks' = IF b < BLOCKS THEN used_blocks + 1 ELSE used_blocks

MarkUsed(b) ==
  IF b < BLOCKS /\ b \notin used
  THEN used' = used \cup {b} /\ used_blocks' = used_blocks + 1
  ELSE UNCHANGED pmm

MarkFree(b) ==
  IF b < BLOCKS /\ b \in used
  THEN used' = used \ {b} /\ used_blocks' = used_blocks - 1
  ELSE UNCHANGED pmm

Exhausted == Blocks \subseteq used
Lowest == CHOOSE b \in Blocks \ used : \A c \in Blocks \ used : b <= c

\* pmm_alloc_block's answer.
AllocBlock == IF Exhausted THEN 0 ELSE Lowest

-----------------------------------------------------------------------------
(* pmm_init and mbi_parse. *)

End(e) == mmap[e][1] + mmap[e][2]

\* Where a loop over the memory map is when it comes to entry e, or else at
\* the next loop.
Enter(e, next, start) ==
  IF e <= Len(mmap)
  THEN entry' = e /\ a' = mmap[e][1] /\ UNCHANGED phase
  ELSE entry' = 1 /\ a' = start /\ phase' = next

\* One round of a loop over the available regions.
FreeRegions(next, start) ==
  /\ UNCHANGED <<loader, tree, walk, heap_start>>
  /\ IF a < End(entry)
     THEN a' = a + PAGE /\ MarkFree(Block(a)) /\ UNCHANGED <<phase, entry>>
     ELSE Enter(entry + 1, next, start) /\ UNCHANGED pmm

\* pmm_init leaves out what lies beyond the bitmap.
PmmInit ==
  /\ phase = "pmm_init"
  /\ IF a < End(entry) /\ a >= BLOCKS * PAGE
     THEN a' = a + PAGE /\ UNCHANGED <<loader, phase, entry, pmm, tree, walk, heap_start>>
     ELSE FreeRegions("kernel", KERNEL_START)

MarkKernel ==
  /\ phase = "kernel"
  /\ IF a < KERNEL_END
     THEN MarkUsed(Block(a)) /\ a' = a + PAGE /\ UNCHANGED phase
     ELSE UNCHANGED pmm /\ a' = 0 /\ phase' = "low"
  /\ UNCHANGED <<loader, entry, tree, walk, heap_start>>

MarkLow ==
  /\ phase = "low"
  /\ IF a < LOW
     THEN MarkUsed(Block(a)) /\ a' = a + PAGE /\ UNCHANGED phase
     ELSE MarkUsed(Block(mbi)) /\ a' = mmap[1][1] /\ phase' = "mbi_parse"
  /\ UNCHANGED <<loader, entry, tree, walk, heap_start>>

MbiParse == phase = "mbi_parse" /\ FreeRegions("direct", 0)

-----------------------------------------------------------------------------
(* paging_init and map_page. *)

SkipsOneMore(b) == b * PAGE <= KERNEL_END + PAGE \* mutant: one page too many

SkipsNothing(b) == FALSE \* mutant: pmm_alloc_block in place of safe_pmm_alloc

\* safe_pmm_alloc's condition to go on.
Skips(b) == b * PAGE <= KERNEL_END

IndexAt(v, k) == (v \div Span[LEVELS - 1 - k]) % FANOUT

NotZeroed(f) == table \* mutant: the new table is not cleared

Zeroed(f) == [table EXCEPT ![f] = [i \in Index |-> NULL]]

\* A table is wanted: for the root, or where the walk finds no entry.
Wanted ==
  \/ phase = "direct" /\ kernel_pml4 = NULL
  \/ /\ request # <<>> /\ level < LEVELS - 1
     /\ table[current][IndexAt(request[1], level)] = NULL

\* safe_pmm_alloc takes a block and drops it.  (When none is left it goes on
\* for ever: no step.)
SkipBlock ==
  /\ Wanted /\ ~Exhausted /\ Skips(Lowest)
  /\ MarkUsed(Lowest)
  /\ UNCHANGED <<loader, loop, tree, walk, heap_start>>

NewRoot ==
  /\ phase = "direct" /\ kernel_pml4 = NULL
  /\ ~Exhausted /\ ~Skips(Lowest)
  /\ MarkUsed(Lowest)
  /\ kernel_pml4' = Lowest /\ table' = Zeroed(Lowest)
  /\ UNCHANGED <<loader, loop, cr3, walk, heap_start>>

\* The for loop of paging_init for page a, or the next one when a = n.
MapPages(n, v, p, next) ==
  /\ request = <<>> /\ kernel_pml4 # NULL
  /\ IF a < n
     THEN /\ request' = <<v % Span[LEVELS], p>> /\ current' = kernel_pml4 /\ level' = 0
          /\ a' = a + 1 /\ UNCHANGED phase
     ELSE phase' = next /\ a' = 0 /\ UNCHANGED walk
  /\ UNCHANGED <<loader, entry, pmm, table, kernel_pml4, heap_start>>

MapDirect ==
  phase = "direct" /\ MapPages(DIRECT, OFFSET + a, a, "identity") /\ UNCHANGED cr3

MapIdentityShort == \* mutant: the loop ends one page early
  phase = "identity" /\ MapPages(IDENTITY - 1, a, a, "framebuffer") /\ UNCHANGED cr3

MapIdentity ==
  phase = "identity" /\ MapPages(IDENTITY, a, a, "framebuffer") /\ UNCHANGED cr3

\* Two calls a page; after the last, cr3 is loaded and heap_init begins.
MapFramebuffer ==
  LET phys == fb.addr + a \div 2
  IN  /\ phase = "framebuffer"
      /\ MapPages(2 * fb.size, IF a % 2 = 0 THEN phys ELSE OFFSET + phys, phys, "heap")
      /\ cr3' = (phase' = "heap")

Descend ==
  LET next == table[current][IndexAt(request[1], level)]
  IN  /\ request # <<>> /\ level < LEVELS - 1 /\ next # NULL
      /\ current' = next /\ level' = level + 1
      /\ UNCHANGED <<loader, loop, pmm, tree, request, heap_start>>

NewTable ==
  /\ request # <<>> /\ Wanted /\ ~Exhausted /\ ~Skips(Lowest)
  /\ MarkUsed(Lowest)
  /\ table' = [Zeroed(Lowest) EXCEPT ![current][IndexAt(request[1], level)] = Lowest]
  /\ current' = Lowest /\ level' = level + 1
  /\ UNCHANGED <<loader, loop, kernel_pml4, cr3, request, heap_start>>

WriteEntry ==
  /\ request # <<>> /\ level = LEVELS - 1
  /\ table' = [table EXCEPT ![current][IndexAt(request[1], level)] = request[2]]
  /\ request' = <<>> /\ current' = NULL /\ level' = 0
  /\ UNCHANGED <<loader, loop, pmm, kernel_pml4, cr3, heap_start>>

-----------------------------------------------------------------------------
\* heap_init: one page, or the end, or no heap when no block is left.
MapHeap ==
  /\ phase = "heap" /\ request = <<>>
  /\ IF a = HEAP_PAGES
     THEN heap_start' = HEAP_START /\ phase' = "done" /\ UNCHANGED <<a, pmm, walk>>
     ELSE /\ IF Exhausted THEN UNCHANGED pmm ELSE MarkUsed(Lowest)
          /\ UNCHANGED heap_start
          /\ IF AllocBlock = 0
             THEN phase' = "done" /\ UNCHANGED <<a, walk>>
             ELSE /\ request' = <<HEAP_START + a, AllocBlock>>
                  /\ current' = kernel_pml4 /\ level' = 0
                  /\ a' = a + 1 /\ UNCHANGED phase
  /\ UNCHANGED <<loader, entry, tree>>

Init ==
  /\ mmap \in MemoryMaps /\ fb \in Framebuffers /\ mbi \in MbiAddresses
  /\ phase = "pmm_init" /\ entry = 1 /\ a = mmap[1][1]
  /\ used = Blocks /\ used_blocks = BLOCKS
  /\ table = [f \in Blocks |-> [i \in Index |-> 0]]
  /\ kernel_pml4 = NULL /\ cr3 = FALSE
  /\ request = <<>> /\ current = NULL /\ level = 0
  /\ heap_start = NULL

Next ==
  \/ PmmInit \/ MarkKernel \/ MarkLow \/ MbiParse
  \/ SkipBlock \/ NewRoot \/ MapDirect \/ MapIdentity \/ MapFramebuffer
  \/ Descend \/ NewTable \/ WriteEntry \/ MapHeap

Spec == Init /\ [][Next]_vars
FairSpec == Spec /\ WF_vars(Next)

-----------------------------------------------------------------------------
(* Properties. *)

HeapRange == HEAP_START .. HEAP_START + HEAP_PAGES - 1
\* Where map_framebuffer's second call maps a frame: beyond OFFSET, or round the end.
Upper(phys) == (OFFSET + phys) % Span[LEVELS]

(* What has to be true of what the boot loader passes: memory ends below the *)
(* address whose block number would wrap, and the second mapping of the     *)
(* framebuffer does not come to lie on the identity map (the framebuffer    *)
(* physically at 2 GiB) or on the heap.                                     *)
LoaderPasses ==
  /\ MemoryMaps \subseteq Seq(Nat \X Nat) \ {<<>>}
  /\ \A m \in MemoryMaps : \A e \in DOMAIN m : m[e][1] + m[e][2] <= UINT32 * PAGE
  /\ Framebuffers \subseteq [addr : Nat, size : Nat]
  /\ \A f \in Framebuffers : \A i \in 0 .. f.size - 1 :
       /\ f.addr + i < OFFSET
       /\ Upper(f.addr + i) \notin (0 .. IDENTITY - 1) \cup HeapRange
  /\ MbiAddresses \subseteq Nat

\* The frame a page is mapped to, as the processor walks the tables.
Translate(v) ==
  LET at[k \in 0 .. LEVELS] ==
        IF k = 0 THEN kernel_pml4
        ELSE IF at[k - 1] = NULL THEN NULL
        ELSE table[at[k - 1]][IndexAt(v, k - 1)]
  IN  at[LEVELS]

\* The present entries of a set of tables, and the tables of each level.
Entries(tables) == {e \in tables \X Index : table[e[1]][e[2]] # NULL}
TablesAt[k \in 0 .. LEVELS - 1] ==
  IF k = 0 THEN {kernel_pml4} \ {NULL}
  ELSE {table[e[1]][e[2]] : e \in Entries(TablesAt[k - 1])}
Tables == UNION {TablesAt[k] : k \in 0 .. LEVELS - 1}

HeapPages == {v \in HeapRange : Translate(v) # NULL}
HeapFrames == {Translate(v) : v \in HeapPages}
                \cup (IF phase \in {"heap", "done"} /\ request # <<>> THEN {request[2]} ELSE {})

\* The blocks with a byte the boot loader calls available.
Available ==
  {b \in Blocks : \E e \in DOMAIN mmap :
                    mmap[e][1] < (b + 1) * PAGE /\ b * PAGE < End(e)}

TypeOK ==
  /\ phase \in {"pmm_init", "kernel", "low", "mbi_parse", "direct", "identity",
                "framebuffer", "heap", "done"}
  /\ entry \in DOMAIN mmap /\ a \in Nat
  /\ used \subseteq Blocks /\ used_blocks \in Nat
  /\ table \in [Blocks -> [Index -> Nat \cup {NULL}]]
  /\ kernel_pml4 \in Blocks \cup {NULL} /\ cr3 \in BOOLEAN
  /\ request \in (Pages \X Nat) \cup {<<>>}
  /\ current \in Blocks \cup {NULL} /\ (request = <<>>) = (current = NULL)
  /\ level \in 0 .. LEVELS - 1
  /\ heap_start \in {NULL, HEAP_START}

(* used_blocks, which the memory statistics of ram.h are computed from, is   *)
(* the number of bits set, however often the loops of pmm_init and mbi_parse *)
(* mark one block: regions may overlap and end in the middle of a page.     *)
CounterExact == used_blocks = Cardinality(used)

(* From the moment the kernel has its root table, every block that holds a   *)
(* part of the low memory or of the image is marked used: safe_pmm_alloc has *)
(* run over them all, and nothing frees a block any more.  Only so may      *)
(* heap_init take what pmm_alloc_block gives it.                            *)
ImageReserved ==
  kernel_pml4 # NULL => \A b \in Blocks : b * PAGE <= KERNEL_END => b \in used

(* A block that holds a page table or backs a heap page has that one use: it *)
(* is entered in one place, lies in available memory beyond the kernel's    *)
(* image and is marked used, although mbi_parse frees every block that      *)
(* pmm_init had reserved, and heap_init does not go through safe_pmm_alloc. *)
Exclusive ==
  /\ \A f \in Tables \cup HeapFrames :
       f \in used /\ f * PAGE > KERNEL_END /\ f \in Available
  /\ \A k \in 1 .. LEVELS - 1 :
       Cardinality(Entries(TablesAt[k - 1])) = Cardinality(TablesAt[k])
  /\ \A j, k \in 0 .. LEVELS - 1 : j # k => TablesAt[j] \cap TablesAt[k] = {}
  /\ HeapFrames \cap Tables = {}
  /\ \A v, w \in HeapPages : v # w => Translate(v) # Translate(w)

(* Once cr3 is loaded, what the kernel goes on using is mapped: every page   *)
(* table where map_page looks for it, the image, and the low memory the     *)
(* boot stack is addressed in, whatever heap_init still maps.               *)
KernelMapped ==
  cr3 => /\ \A f \in Tables : Translate(OFFSET + f) = f
         /\ \A f \in Blocks : f * PAGE < KERNEL_END => Translate(OFFSET + f) = f
         /\ \A v \in 0 .. IDENTITY - 1 : Translate(v) = v

(* The tables implement a flat address space: map_page changes the           *)
(* translation of the page it is given, in one step, and of no other,       *)
(* however many tables it adds.                                             *)
Flat == INSTANCE FlatMap WITH
  Frames <- Pages, NONE <- NULL,
  map <- [v \in Pages |-> Translate(v)], asked <- request
Implements == Flat!Spec

\* The tables that the pages to be mapped need, one for each prefix.
Mapped ==
  {OFFSET + i : i \in 0 .. DIRECT - 1} \cup (0 .. IDENTITY - 1)
    \cup UNION {{fb.addr + i, Upper(fb.addr + i)} : i \in 0 .. fb.size - 1}
    \cup HeapRange
Prefixes == {<<k, v \div Span[LEVELS - k]>> : k \in 0 .. LEVELS - 1, v \in Mapped}

\* The blocks a loop over the memory map comes to: not the last one of a
\* region, when less of that block is in it than of the first.
Visited ==
  {b \in Blocks : \E e \in DOMAIN mmap :
                    LET x == b * PAGE + (mmap[e][1] % PAGE)
                    IN  mmap[e][1] <= x /\ x < End(e)}

Enough ==
  Cardinality({b \in Visited : b * PAGE > KERNEL_END})
    >= Cardinality(Prefixes) + HEAP_PAGES

(* With a block for every table and every heap page, and not one more, the   *)
(* set-up ends, with a heap.  With fewer, safe_pmm_alloc may search for ever. *)
Boots == Enough => <>(phase = "done" /\ heap_start # NULL)

=============================================================================
