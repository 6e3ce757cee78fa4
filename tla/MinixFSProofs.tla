--------------------------- MODULE MinixFSProofs ----------------------------
(* What is proved of the Minix driver for a disk of any size whose zone     *)
(* bitmap marks zone 0 and the root directory (Cared; the repository's      *)
(* disk.img does not), any set of names and paths and any workload in which *)
(* no reset cuts a deletion short: the numbers on the disk are numbers of   *)
(* the disk, a directory has no name twice, a zone belongs to one inode, an *)
(* entry reaches an inode that is allocated, a deleted file is gone, what   *)
(* reports success has done its job, and other paths show what they showed. *)
EXTENDS MinixFS, BoundedSets, SequenceTheorems

Deletions == {"DeleteFile", "DeleteDir"}

(* Names are told from what else the driver writes into a slot: its own two *)
(* entries, and a file's contents.                                          *)
WellNamed ==
  /\ Names \cap (Data \cup {"", ".", "..", "metadata", "untouched"}) = {}
  /\ Paths \subseteq Seq(Names) \ {<<>>}
  /\ Counts \subseteq Nat

(* The zone bitmap knows the root directory, and its bit 0 is set; and a    *)
(* deletion is not cut short.                                               *)
Cared ==
  /\ {0, ROOT_ZONE} \subseteq ZonesTaken
  /\ Resets => Operations \cap Deletions = {}

-----------------------------------------------------------------------------
(* What is on a disk *)

InodeType == [mode : {"none", "file", "dir"}, size : 0 .. SLOTS, zone : Zones]
Sector == [Slots -> SlotType]
Disk == [imap : SUBSET Bits, zmap : SUBSET Zones,
         inode : [1 .. BITS -> InodeType], zone : [Zones -> Sector]]

(* A slot a path can lead through. *)
IsEntry(slot) == slot.inode # 0 /\ slot.name \in Names

(* An entry has the number of an inode, but not the root's, and a name of   *)
(* its own in its sector.                                                   *)
Tidy(block) ==
  /\ \A i \in Slots : IsEntry(block[i]) => block[i].inode \in 2 .. BITS
  /\ \A i, j \in Slots : IsEntry(block[i]) /\ IsEntry(block[j]) /\ i # j
                           => block[i].name # block[j].name

Typed(d) ==
  /\ d \in Disk
  /\ \A z \in Zones : Tidy(d.zone[z])
  /\ d.inode[ROOT] = Inode("dir", 2, ROOT_ZONE)

(* Zones in use are marked, and each is the zone of one inode.              *)
Owned(d) ==
  /\ 0 \in d.zmap
  /\ \A n \in 1 .. BITS : d.inode[n].zone # 0 => d.inode[n].zone \in d.zmap
  /\ \A m, n \in 1 .. BITS : d.inode[m].zone # 0 /\ m # n
                               => d.inode[m].zone # d.inode[n].zone
  /\ \A n \in 1 .. BITS : d.inode[n].mode = "dir" => d.inode[n].zone # 0

IsDirectory(d, z) == \E n \in 1 .. BITS : d.inode[n].mode = "dir" /\ d.inode[n].zone = z

(* An inode that is formatted is allocated; an entry of a directory,        *)
(* reached or not, has a formatted inode of its own; and a zone that is     *)
(* free holds no entry.                                                     *)
Backed(d) ==
  /\ \A n \in 2 .. BITS : d.inode[n].mode # "none" => n - 1 \in d.imap
  /\ \A z \in Zones, i \in Slots : IsDirectory(d, z) /\ IsEntry(d.zone[z][i])
       => d.inode[d.zone[z][i].inode].mode # "none"
  /\ \A y, z \in Zones, i, j \in Slots :
       /\ IsDirectory(d, y) /\ IsEntry(d.zone[y][i])
       /\ IsDirectory(d, z) /\ IsEntry(d.zone[z][j])
       /\ d.zone[y][i].inode = d.zone[z][j].inode
       => y = z /\ i = j
  /\ \A z \in Zones \ d.zmap, i \in Slots : ~IsEntry(d.zone[z][i])

Undeleted == Operations \cap Deletions = {}

(* A disk on which no operation is half done, or none but one that leaves   *)
(* marked what it did not come to use.                                      *)
Steady(d) == Typed(d) /\ Owned(d) /\ (Undeleted => Backed(d))

-----------------------------------------------------------------------------
(* The single writes *)

LEMMA DiskParts ==
  ASSUME NEW d \in Disk
  PROVE  /\ d.imap \subseteq Bits /\ d.zmap \subseteq Zones
         /\ d.inode \in [1 .. BITS -> InodeType] /\ d.zone \in [Zones -> Sector]
         /\ \A n \in 1 .. BITS : d.inode[n] \in InodeType
         /\ \A z \in Zones : d.zone[z] \in Sector
         /\ \A z \in Zones, i \in Slots : d.zone[z][i] \in SlotType
  BY DEF Disk, Sector

LEMMA TakeInodeFacts ==
  ASSUME NEW d \in Disk, NEW n \in 1 .. BITS
  PROVE  LET w == TakeInode(d, n)
         IN  /\ w \in Disk /\ w.imap = d.imap \cup {n - 1} /\ w.zmap = d.zmap
             /\ w.inode = d.inode /\ w.zone = d.zone
<1>1. n - 1 \in Bits
  BY BitsAssumption DEF Bits
<1> QED BY <1>1 DEF TakeInode, Disk

LEMMA TakeZoneFacts ==
  ASSUME NEW d \in Disk, NEW z \in Zones
  PROVE  LET w == TakeZone(d, z)
         IN  /\ w \in Disk /\ w.imap = d.imap /\ w.zmap = d.zmap \cup {z}
             /\ w.inode = d.inode /\ w.zone = d.zone
  BY DEF TakeZone, Disk

LEMMA FreeZoneFacts ==
  ASSUME NEW d \in Disk, NEW z
  PROVE  LET w == FreeZone(d, z)
         IN  /\ w \in Disk /\ w.imap = d.imap /\ w.zmap = d.zmap \ {z}
             /\ w.inode = d.inode /\ w.zone = d.zone
  BY DEF FreeZone, Disk

LEMMA SetInodeFacts ==
  ASSUME NEW d \in Disk, NEW n \in 1 .. BITS, NEW inode \in InodeType
  PROVE  LET w == SetInode(d, n, inode)
         IN  /\ w \in Disk /\ w.imap = d.imap /\ w.zmap = d.zmap /\ w.zone = d.zone
             /\ w.inode[n] = inode
             /\ \A m \in 1 .. BITS : m # n => w.inode[m] = d.inode[m]
  BY DEF SetInode, Disk

LEMMA SetSlotFacts ==
  ASSUME NEW d \in Disk, NEW z \in Zones, NEW i \in Slots, NEW slot \in SlotType
  PROVE  LET w == SetSlot(d, z, i, slot)
         IN  /\ w \in Disk /\ w.imap = d.imap /\ w.zmap = d.zmap /\ w.inode = d.inode
             /\ w.zone[z][i] = slot
             /\ \A j \in Slots : j # i => w.zone[z][j] = d.zone[z][j]
             /\ \A y \in Zones : y # z => w.zone[y] = d.zone[y]
<1> DEFINE s == [d.zone[z] EXCEPT ![i] = slot]
           w == [d EXCEPT !.zone = [d.zone EXCEPT ![z] = s]]
<1>1. d.zone \in [Zones -> Sector] /\ d.zone[z] \in [Slots -> SlotType]
  BY DEF Disk, Sector
<1>2. /\ s \in Sector /\ s[i] = slot
      /\ \A j \in Slots : j # i => s[j] = d.zone[z][j]
  BY <1>1 DEF Sector
<1>3. SetSlot(d, z, i, slot) = w
  BY DEF SetSlot
<1> HIDE DEF s
<1>4. /\ w \in Disk /\ w.imap = d.imap /\ w.zmap = d.zmap /\ w.inode = d.inode
      /\ w.zone[z] = s /\ \A y \in Zones : y # z => w.zone[y] = d.zone[y]
  BY <1>1, <1>2 DEF Disk
<1> QED BY <1>2, <1>3, <1>4

-----------------------------------------------------------------------------
(* Looking things up *)

LEMMA FirstFacts ==
  ASSUME NEW N \in Nat, NEW S, S \subseteq 0 .. N
  PROVE  /\ S = {} => First(S) = NONE
         /\ S # {} => First(S) \in S /\ First(S) # NONE
<1>1. CASE S # {}
  <2>1. \E x \in S : \A y \in S : x <= y
    BY <1>1, LeastElement
  <2>2. First(S) \in S
    BY <1>1, <2>1 DEF First, Min
  <2>3. -1 \notin 0 .. N
    OBVIOUS
  <2> QED BY <2>2, <2>3 DEF NONE
<1> QED BY <1>1 DEF First

LEMMA SlotsBounded == Slots = 0 .. SLOTS - 1 /\ SLOTS - 1 \in Nat /\ NONE \notin Slots
  BY BitsAssumption DEF Slots, NONE

LEMMA FreeSlotFacts ==
  ASSUME NEW block
  PROVE  LET i == FreeSlot(block)
         IN  i # NONE => i \in Slots /\ block[i].inode = 0
<1> DEFINE S == {i \in Slots : block[i].inode = 0}
<1>1. S \subseteq 0 .. SLOTS - 1
  BY SlotsBounded
<1> HIDE DEF S
<1>2. /\ S = {} => First(S) = NONE
      /\ S # {} => First(S) \in S /\ First(S) # NONE
  BY <1>1, SlotsBounded, FirstFacts
<1> QED BY <1>2 DEF FreeSlot, S

LEMMA EntryOfFacts ==
  ASSUME NEW block, NEW name
  PROVE  LET i == EntryOf(block, name)
         IN  /\ i # NONE => /\ i \in Slots /\ block[i].inode # 0
                            /\ block[i].name = name
             /\ i = NONE => \A j \in Slots : block[j].inode # 0 => block[j].name # name
<1> DEFINE S == {i \in Slots : block[i].inode # 0 /\ block[i].name = name}
<1>1. S \subseteq 0 .. SLOTS - 1
  BY SlotsBounded
<1> HIDE DEF S
<1>2. /\ S = {} => First(S) = NONE
      /\ S # {} => First(S) \in S /\ First(S) # NONE
  BY <1>1, SlotsBounded, FirstFacts
<1> QED BY <1>2 DEF EntryOf, S

(* In a tidy sector a name that is found has one number, an inode's. *)
LEMMA LookupFacts ==
  ASSUME NEW block, Tidy(block), NEW name \in Names
  PROVE  LET n == Lookup(block, name)
         IN  /\ n # 0 => n \in 2 .. BITS
             /\ n # 0 => \E i \in Slots : /\ i = EntryOf(block, name)
                                          /\ IsEntry(block[i]) /\ block[i].name = name
                                          /\ block[i].inode = n
             /\ n = 0 => EntryOf(block, name) = NONE
             /\ n = 0 => \A j \in Slots : IsEntry(block[j]) => block[j].name # name
             /\ \A j \in Slots : IsEntry(block[j]) /\ block[j].name = name
                                   => block[j].inode = n
<1> DEFINE i == EntryOf(block, name)
<1>1. /\ i # NONE => i \in Slots /\ block[i].inode # 0 /\ block[i].name = name
      /\ i = NONE => \A j \in Slots : block[j].inode # 0 => block[j].name # name
  BY EntryOfFacts
<1>2. Lookup(block, name) = IF i = NONE THEN 0 ELSE block[i].inode
  BY DEF Lookup
<1> HIDE DEF i
<1>3. ASSUME NEW j \in Slots, IsEntry(block[j]), block[j].name = name
      PROVE  i # NONE /\ j = i
  BY <1>1, <1>3 DEF Tidy, IsEntry
<1>4. CASE i = NONE
  <2>1. Lookup(block, name) = 0
    BY <1>2, <1>4
  <2> QED BY <2>1, <1>3, <1>4 DEF i
<1>5. CASE i # NONE
  <2>1. IsEntry(block[i]) /\ block[i].inode \in 2 .. BITS
    BY <1>1, <1>5 DEF Tidy, IsEntry
  <2>2. Lookup(block, name) = block[i].inode /\ block[i].inode # 0
    BY <1>1, <1>2, <1>5
  <2>3. \A j \in Slots : IsEntry(block[j]) /\ block[j].name = name => j = i
    BY <1>3
  <2> QED BY <1>1, <1>5, <2>1, <2>2, <2>3 DEF i
<1> QED BY <1>4, <1>5

-----------------------------------------------------------------------------
(* Walking a path *)

TypedDisks  == {d \in Disk : Typed(d)}
SteadyDisks == {d \in Disk : Steady(d)}

(* Where a walk can be. *)
Places(d) == {NONE} \cup {z \in Zones : IsDirectory(d, z)}

LEMMA RootIsDirectory ==
  ASSUME NEW d, Typed(d)
  PROVE  ROOT \in 1 .. BITS /\ IsDirectory(d, ROOT_ZONE) /\ ROOT_ZONE \in Places(d)
<1>1. ROOT \in 1 .. BITS /\ ROOT_ZONE \in Zones
  BY BitsAssumption, ZonesAssumption DEF ROOT, Zones
<1>2. d.inode[ROOT].mode = "dir" /\ d.inode[ROOT].zone = ROOT_ZONE
  BY DEF Typed, Inode
<1> QED BY <1>1, <1>2 DEF IsDirectory, Places

LEMMA DescendFacts ==
  ASSUME NEW d, Typed(d), NEW z \in Places(d), NEW name \in Names
  PROVE  Descend(d, z, name) \in Places(d)
<1>1. CASE z = NONE
  BY <1>1 DEF Descend, Places
<1>2. CASE z # NONE
  <2>1. z \in Zones /\ Tidy(d.zone[z]) /\ d \in Disk
    BY <1>2 DEF Places, Typed
  <2> DEFINE n == Lookup(d.zone[z], name)
  <2>2. n # 0 => n \in 2 .. BITS
    BY <2>1, LookupFacts
  <2>3. Descend(d, z, name) = IF n # 0 /\ d.inode[n].mode = "dir"
                              THEN d.inode[n].zone ELSE NONE
    BY <1>2 DEF Descend
  <2> HIDE DEF n
  <2>4. CASE n # 0 /\ d.inode[n].mode = "dir"
    <3>1. n \in 1 .. BITS
      BY <2>2, <2>4
    <3>2. d.inode[n] \in InodeType
      BY <2>1, <3>1, DiskParts
    <3>3. d.inode[n].zone \in Zones
      BY <3>2 DEF InodeType
    <3>4. IsDirectory(d, d.inode[n].zone)
      BY <3>1, <2>4 DEF IsDirectory
    <3> QED BY <2>3, <2>4, <3>3, <3>4 DEF Places
  <2>5. CASE ~(n # 0 /\ d.inode[n].mode = "dir")
    BY <2>3, <2>5 DEF Places
  <2> QED BY <2>4, <2>5
<1> QED BY <1>1, <1>2

(* The zones DirZone's loop passes through. *)
IsWalk(at, d, path) ==
  /\ at \in [0 .. Len(path) - 1 -> Places(d)]
  /\ at[0] = ROOT_ZONE
  /\ \A k \in 1 .. Len(path) - 1 : at[k] = Descend(d, at[k - 1], path[k])
  /\ DirZone(d, path) = IF at[Len(path) - 1] = 0 THEN NONE ELSE at[Len(path) - 1]

(* The last name of a path plays no part in the walk.                       *)
LEMMA WalkExistsTo ==
  ASSUME NEW d, Typed(d), NEW path, Len(path) - 1 \in Nat,
         \A k \in 1 .. Len(path) - 1 : path[k] \in Names
  PROVE  \E at : IsWalk(at, d, path)
<1> DEFINE N == Len(path) - 1
           T == Places(d)
           step == [k \in 1 .. N |-> [z \in T |-> Descend(d, z, path[k])]]
           Rec(a) == a = [k \in 0 .. N |-> IF k = 0 THEN ROOT_ZONE
                                           ELSE Descend(d, a[k - 1], path[k])]
           at == CHOOSE a : Rec(a)
<1>1. N \in Nat /\ \A k \in 1 .. N : path[k] \in Names
  OBVIOUS
<1>2. ROOT_ZONE \in T
  BY RootIsDirectory
<1>3. \A k \in 1 .. N, z \in T : Descend(d, z, path[k]) \in T
  BY <1>1, DescendFacts
<1>4. DirZone(d, path) = IF at[N] = 0 THEN NONE ELSE at[N]
  BY DEF DirZone
<1> HIDE DEF N, T
<1>5. StepsOf(step, N, T)
  BY <1>3 DEF StepsOf
<1>6. \E g : Rec(g)
  <2> HIDE DEF step
  <2>1. PICK g : Follows(g, N, T, ROOT_ZONE, step)
    BY <1>1, <1>2, <1>5, BoundedRecursion
  <2>2. ASSUME NEW k \in 0 .. N, k # 0
        PROVE  step[k][g[k - 1]] = Descend(d, g[k - 1], path[k])
    <3>1. k \in 1 .. N /\ k - 1 \in 0 .. N
      BY <2>2, <1>1
    <3>2. g[k - 1] \in T
      BY <2>1, <3>1 DEF Follows
    <3> QED BY <3>1, <3>2 DEF step
  <2>3. \A k \in 0 .. N : g[k] = IF k = 0 THEN ROOT_ZONE ELSE Descend(d, g[k - 1], path[k])
    <3>1. \A k \in 0 .. N : k # 0 => k \in 1 .. N
      BY <1>1
    <3> QED BY <2>1, <2>2, <3>1 DEF Follows
  <2>4. Rec(g)
    BY <2>1, <2>3 DEF Follows
  <2> QED BY <2>4
<1>7. Rec(at)
  <2> HIDE DEF Rec
  <2> QED BY <1>6
<1> HIDE DEF at
<1>8. /\ at[0] = ROOT_ZONE
      /\ \A k \in 1 .. N : at[k] = Descend(d, at[k - 1], path[k])
      /\ at = [k \in 0 .. N |-> at[k]]
  <2>1. at = [k \in 0 .. N |-> IF k = 0 THEN ROOT_ZONE ELSE Descend(d, at[k - 1], path[k])]
    BY <1>7
  <2> HIDE DEF Rec
  <2>2. at[0] = ROOT_ZONE
    BY <1>1, <2>1
  <2>3. ASSUME NEW k \in 1 .. N PROVE at[k] = Descend(d, at[k - 1], path[k])
    <3>1. k \in 0 .. N /\ k # 0
      BY <1>1
    <3> QED BY <2>1, <3>1
  <2>4. at = [k \in 0 .. N |-> at[k]]
    BY <2>1, Zenon
  <2> QED BY <2>2, <2>3, <2>4
<1> HIDE DEF Rec
<1>9. 0 .. N \subseteq {k \in 0 .. N : at[k] \in T}
  <2> DEFINE S == {k \in 0 .. N : at[k] \in T}
  <2>1. 0 \in S
    BY <1>1, <1>2, <1>8
  <2>2. ASSUME NEW k \in 0 .. N - 1, k \in S PROVE k + 1 \in S
    <3>1. k + 1 \in 1 .. N /\ (k + 1) - 1 = k /\ k + 1 \in 0 .. N
      BY <2>2, <1>1
    <3>2. at[k + 1] = Descend(d, at[k], path[k + 1])
      BY <1>8, <3>1
    <3> QED BY <2>2, <3>1, <3>2, <1>3
  <2> HIDE DEF S
  <2>3. 0 .. N \subseteq S
    BY <1>1, <2>1, <2>2, BoundedInduction
  <2> QED BY <2>3 DEF S
<1>10. at \in [0 .. N -> T]
  BY <1>8, <1>9
<1> QED BY <1>4, <1>8, <1>10 DEF IsWalk, N, T

LEMMA WalkExists ==
  ASSUME NEW d, Typed(d), NEW path \in Seq(Names) \ {<<>>}
  PROVE  \E at : IsWalk(at, d, path)
<1>1. Len(path) \in Nat /\ Len(path) # 0 /\ \A k \in 1 .. Len(path) : path[k] \in Names
  BY LenProperties, EmptySeq
<1>2. Len(path) - 1 \in Nat /\ \A k \in 1 .. Len(path) - 1 : path[k] \in Names
  BY <1>1
<1> QED BY <1>2, WalkExistsTo

(* The directory a path ends in, and the entry that is its last name. *)
LEMMA DirZoneFacts ==
  ASSUME NEW d, Typed(d), NEW path \in Seq(Names) \ {<<>>}
  PROVE  LET z == DirZone(d, path)
         IN  /\ Last(path) \in Names
             /\ z # NONE => z \in Zones /\ z # 0 /\ IsDirectory(d, z)
             /\ FindEntry(d, path) = IF z = NONE THEN 0 ELSE Lookup(d.zone[z], Last(path))
             /\ FindEntry(d, path) \in {0} \cup 2 .. BITS
<1>1. Len(path) \in Nat /\ Len(path) # 0 /\ \A k \in 1 .. Len(path) : path[k] \in Names
  BY LenProperties, EmptySeq
<1>2. Last(path) \in Names
  BY <1>1 DEF Last
<1>3. PICK at : IsWalk(at, d, path)
  BY WalkExists
<1>4. at[Len(path) - 1] \in Places(d)
  BY <1>1, <1>3 DEF IsWalk
<1>5. DirZone(d, path) # NONE =>
        DirZone(d, path) \in Zones /\ DirZone(d, path) # 0 /\ IsDirectory(d, DirZone(d, path))
  BY <1>3, <1>4 DEF IsWalk, Places
<1>6. FindEntry(d, path) = IF DirZone(d, path) = NONE THEN 0
                           ELSE Lookup(d.zone[DirZone(d, path)], Last(path))
  BY DEF FindEntry
<1>7. FindEntry(d, path) \in {0} \cup 2 .. BITS
  <2>1. CASE DirZone(d, path) # NONE
    <3>1. Tidy(d.zone[DirZone(d, path)])
      BY <1>5, <2>1 DEF Typed
    <3> QED BY <1>2, <1>6, <2>1, <3>1, LookupFacts
  <2> QED BY <1>6, <2>1
<1> QED BY <1>2, <1>5, <1>6, <1>7

(* A path that is found is found again on any disk where every name leads   *)
(* where it led.                                                            *)
LEMMA SameWalk ==
  ASSUME NEW d, Typed(d), NEW w, Typed(w), NEW path \in Seq(Names) \ {<<>>},
         DirZone(d, path) # NONE,
         \A z \in Places(d), name \in Names :
           Descend(d, z, name) # NONE => Descend(w, z, name) = Descend(d, z, name)
  PROVE  DirZone(w, path) = DirZone(d, path)
<1> DEFINE N == Len(path) - 1
<1>1. N \in Nat /\ \A k \in 1 .. N : path[k] \in Names
  <2>1. Len(path) \in Nat /\ Len(path) # 0 /\ \A k \in 1 .. Len(path) : path[k] \in Names
    BY LenProperties, EmptySeq
  <2> QED BY <2>1
<1>2. PICK at : IsWalk(at, d, path)
  BY WalkExists
<1>3. PICK to : IsWalk(to, w, path)
  BY WalkExists
<1> DEFINE S == {k \in 0 .. N : at[k] = NONE \/ to[k] = at[k]}
<1>4. 0 \in S
  BY <1>1, <1>2, <1>3 DEF IsWalk
<1>5. ASSUME NEW k \in 0 .. N - 1, k \in S PROVE k + 1 \in S
  <2>1. k + 1 \in 1 .. N /\ (k + 1) - 1 = k /\ k + 1 \in 0 .. N /\ k \in 0 .. N
    BY <1>1
  <2>2. at[k] \in Places(d)
    BY <1>2, <2>1, SMTT(30) DEF IsWalk
  <2>3. at[k + 1] = Descend(d, at[k], path[k + 1]) /\ to[k + 1] = Descend(w, to[k], path[k + 1])
    BY <1>2, <1>3, <2>1 DEF IsWalk
  <2>4. CASE at[k] = NONE
    <3>1. at[k + 1] = NONE
      BY <2>3, <2>4 DEF Descend
    <3> QED BY <2>1, <3>1
  <2>5. CASE to[k] = at[k]
    BY <1>1, <2>1, <2>2, <2>3, <2>5
  <2> QED BY <1>5, <2>4, <2>5
<1> HIDE DEF S
<1>6. N \in S
  <2>1. 0 .. N \subseteq S
    BY <1>1, <1>4, <1>5, BoundedInduction
  <2> QED BY <1>1, <2>1
<1>7. at[N] # NONE
  BY <1>2 DEF IsWalk
<1>8. to[N] = at[N]
  BY <1>6, <1>7 DEF S
<1> QED BY <1>2, <1>3, <1>8 DEF IsWalk

-----------------------------------------------------------------------------
(* What each write keeps *)

LEMMA FreeIsASlot == Free \in SlotType /\ Free.inode = 0 /\ ~IsEntry(Free)
  BY BitsAssumption DEF Free, Slot, SlotType, IsEntry

OtherNames == Data \cup {"", ".", "..", "metadata", "untouched"}

LEMMA SlotFacts ==
  ASSUME NEW n \in 0 .. BITS + 1, NEW name \in Names \cup OtherNames
  PROVE  Slot(n, name) \in SlotType /\ Slot(n, name).inode = n /\ Slot(n, name).name = name
<1> DEFINE All == Names \cup Data \cup {"", ".", "..", "metadata", "untouched"}
<1>1. name \in All
  BY Zenon DEF OtherNames
<1>2. SlotType = [inode : 0 .. BITS + 1, name : All]
  BY DEF SlotType
<1> HIDE DEF All
<1>3. [inode |-> n, name |-> name] \in [inode : 0 .. BITS + 1, name : All]
  BY <1>1
<1> QED BY <1>2, <1>3 DEF Slot

LEMMA OtherIsNoEntry ==
  ASSUME WellNamed, NEW x \in OtherNames, NEW n \in 0 .. BITS + 1
  PROVE  Slot(n, x) \in SlotType /\ ~IsEntry(Slot(n, x))
<1>1. x \notin Names
  BY DEF WellNamed, OtherNames
<1>2. Slot(n, x) \in SlotType /\ Slot(n, x).name = x
  BY SlotFacts
<1> QED BY <1>1, <1>2 DEF IsEntry

LEMMA BytesAreNoEntry ==
  ASSUME WellNamed, NEW x \in OtherNames
  PROVE  Bytes(x) \in SlotType /\ ~IsEntry(Bytes(x))
<1>1. BITS + 1 \in 0 .. BITS + 1
  BY BitsAssumption
<1> QED BY <1>1, OtherIsNoEntry DEF Bytes

LEMMA TakeInodeKeeps ==
  ASSUME NEW d, Steady(d), NEW n \in 1 .. BITS
  PROVE  Steady(TakeInode(d, n)) /\ TakeInode(d, n) \in Disk
<1> DEFINE w == TakeInode(d, n)
<1>1. d \in Disk
  BY DEF Steady, Typed
<1>2. /\ w \in Disk /\ w.imap = d.imap \cup {n - 1} /\ w.zmap = d.zmap
      /\ w.inode = d.inode /\ w.zone = d.zone
  BY <1>1, TakeInodeFacts
<1> HIDE DEF w
<1>3. Typed(w)
  BY <1>2 DEF Steady, Typed
<1>4. Owned(w)
  BY <1>2 DEF Steady, Owned
<1>5. Backed(d) => Backed(w)
  BY <1>2 DEF Backed, IsDirectory
<1> QED BY <1>2, <1>3, <1>4, <1>5 DEF Steady, w

LEMMA TakeZoneKeeps ==
  ASSUME NEW d, Steady(d), NEW z \in Zones
  PROVE  Steady(TakeZone(d, z)) /\ TakeZone(d, z) \in Disk
<1> DEFINE w == TakeZone(d, z)
<1>1. d \in Disk
  BY DEF Steady, Typed
<1>2. /\ w \in Disk /\ w.imap = d.imap /\ w.zmap = d.zmap \cup {z}
      /\ w.inode = d.inode /\ w.zone = d.zone
  BY <1>1, TakeZoneFacts
<1> HIDE DEF w
<1>3. Typed(w)
  BY <1>2 DEF Steady, Typed
<1>4. Owned(w)
  BY <1>2 DEF Steady, Owned
<1>5. Backed(d) => Backed(w)
  BY <1>2 DEF Backed, IsDirectory
<1> QED BY <1>2, <1>3, <1>4, <1>5 DEF Steady, w

(* An inode other than the root's is rewritten, so that it does not become  *)
(* a directory of a zone with entries.                                      *)
LEMMA SetInodeKeeps ==
  ASSUME NEW d, Steady(d), NEW n \in 2 .. BITS, NEW inode \in InodeType,
         inode.zone # 0 => inode.zone \in d.zmap,
         \A m \in 1 .. BITS : m # n /\ inode.zone # 0 => d.inode[m].zone # inode.zone,
         inode.mode = "dir" => inode.zone # 0,
         Undeleted => inode.mode # "none" \/ d.inode[n].mode = "none",
         Undeleted => inode.mode = "none" \/ n - 1 \in d.imap,
         Undeleted /\ inode.mode = "dir" =>
           \/ IsDirectory(d, inode.zone)
           \/ \A i \in Slots : ~IsEntry(d.zone[inode.zone][i])
  PROVE  Steady(SetInode(d, n, inode)) /\ SetInode(d, n, inode) \in Disk
<1> DEFINE w == SetInode(d, n, inode)
<1>1. d \in Disk /\ n \in 1 .. BITS /\ ROOT \in 1 .. BITS /\ n # ROOT
  BY RootIsDirectory DEF Steady, Typed, ROOT
<1>2. /\ w \in Disk /\ w.imap = d.imap /\ w.zmap = d.zmap /\ w.zone = d.zone
      /\ w.inode[n] = inode
      /\ \A m \in 1 .. BITS : m # n => w.inode[m] = d.inode[m]
  BY <1>1, SetInodeFacts
<1> HIDE DEF w
<1>3. Typed(w)
  BY <1>1, <1>2 DEF Steady, Typed
<1>4. Owned(w)
  <2>1. 0 \in w.zmap
    BY <1>2 DEF Steady, Owned
  <2>2. ASSUME NEW m \in 1 .. BITS
        PROVE  /\ w.inode[m].zone # 0 => w.inode[m].zone \in w.zmap
               /\ w.inode[m].mode = "dir" => w.inode[m].zone # 0
    BY <1>2 DEF Steady, Owned
  <2>3. ASSUME NEW m \in 1 .. BITS, NEW k \in 1 .. BITS, w.inode[m].zone # 0, m # k
        PROVE  w.inode[m].zone # w.inode[k].zone
    <3>1. CASE m = n
      BY <1>2, <2>3, <3>1
    <3>2. CASE k = n
      BY <1>2, <2>3, <3>2
    <3>3. CASE m # n /\ k # n
      BY <1>2, <2>3, <3>3 DEF Steady, Owned
    <3> QED BY <3>1, <3>2, <3>3
  <2> QED BY <2>1, <2>2, <2>3 DEF Owned
<1>5. ASSUME Undeleted PROVE Backed(w)
  <2>1. ASSUME NEW z \in Zones, NEW i \in Slots, IsDirectory(w, z), IsEntry(w.zone[z][i])
        PROVE  IsDirectory(d, z)
    <3>1. PICK m \in 1 .. BITS : w.inode[m].mode = "dir" /\ w.inode[m].zone = z
      BY <2>1 DEF IsDirectory
    <3>2. CASE m = n
      BY <1>2, <1>5, <2>1, <3>1, <3>2
    <3>3. CASE m # n
      BY <1>2, <3>1, <3>3 DEF IsDirectory
    <3> QED BY <3>2, <3>3
  <2>2. Backed(d)
    BY <1>5 DEF Steady
  <2>3. ASSUME NEW z \in Zones, NEW i \in Slots, IsDirectory(w, z), IsEntry(w.zone[z][i])
        PROVE  w.inode[w.zone[z][i].inode].mode # "none"
    <3>1. IsDirectory(d, z) /\ IsEntry(d.zone[z][i])
      BY <1>2, <2>1, <2>3
    <3>2. d.zone[z][i].inode \in 1 .. BITS
      BY <3>1 DEF Steady, Typed, Tidy
    <3>3. d.inode[d.zone[z][i].inode].mode # "none"
      BY <2>2, <3>1 DEF Backed
    <3> HIDE DEF Undeleted
    <3> QED BY <1>2, <1>5, <3>2, <3>3
  <2>4. ASSUME NEW y \in Zones, NEW z \in Zones, NEW i \in Slots, NEW j \in Slots,
               IsDirectory(w, y), IsEntry(w.zone[y][i]),
               IsDirectory(w, z), IsEntry(w.zone[z][j]),
               w.zone[y][i].inode = w.zone[z][j].inode
        PROVE  y = z /\ i = j
    <3>1. IsDirectory(d, y) /\ IsDirectory(d, z)
      BY <2>1, <2>4
    <3> QED BY <1>2, <2>2, <2>4, <3>1 DEF Backed
  <2>5. \A z \in Zones \ w.zmap, i \in Slots : ~IsEntry(w.zone[z][i])
    BY <1>2, <2>2 DEF Backed
  <2>6. \A m \in 2 .. BITS : w.inode[m].mode # "none" => m - 1 \in w.imap
    BY <1>2, <1>5, <2>2 DEF Backed
  <2> QED BY <2>3, <2>4, <2>5, <2>6 DEF Backed
<1> QED BY <1>2, <1>3, <1>4, <1>5 DEF Steady, w

(* A sector of a zone is written: with the entries of a tidy one, and with  *)
(* none if a path can lead there.                                           *)
SetSector(d, z, sector) == [d EXCEPT !.zone[z] = sector]

LEMMA SetSectorFacts ==
  ASSUME NEW d \in Disk, NEW z \in Zones, NEW sector \in Sector
  PROVE  LET w == SetSector(d, z, sector)
         IN  /\ w \in Disk /\ w.imap = d.imap /\ w.zmap = d.zmap /\ w.inode = d.inode
             /\ w.zone[z] = sector
             /\ \A y \in Zones : y # z => w.zone[y] = d.zone[y]
  BY DEF SetSector, Disk

LEMMA SetSectorKeeps ==
  ASSUME NEW d, Steady(d), NEW z \in Zones, NEW sector \in Sector, Tidy(sector),
         Undeleted => \/ \A i \in Slots : ~IsEntry(sector[i])
                      \/ z \in d.zmap /\ ~IsDirectory(d, z)
  PROVE  Steady(SetSector(d, z, sector)) /\ SetSector(d, z, sector) \in Disk
<1> DEFINE w == SetSector(d, z, sector)
<1>1. d \in Disk
  BY DEF Steady, Typed
<1>2. /\ w \in Disk /\ w.imap = d.imap /\ w.zmap = d.zmap /\ w.inode = d.inode
      /\ w.zone[z] = sector
      /\ \A y \in Zones : y # z => w.zone[y] = d.zone[y]
  BY <1>1, SetSectorFacts
<1> HIDE DEF w
<1>3. Typed(w)
  <2>1. ASSUME NEW y \in Zones PROVE Tidy(w.zone[y])
    BY <1>2 DEF Steady, Typed
  <2> QED BY <1>2, <2>1 DEF Steady, Typed
<1>4. Owned(w)
  BY <1>2 DEF Steady, Owned
<1>5. ASSUME Undeleted PROVE Backed(w)
  <2>1. Backed(d) /\ \A y \in Zones : IsDirectory(w, y) <=> IsDirectory(d, y)
    BY <1>2, <1>5 DEF Steady, IsDirectory
  <2>2. CASE \A i \in Slots : ~IsEntry(sector[i])
    <3>1. \A y \in Zones, i \in Slots :
            IsEntry(w.zone[y][i]) => y # z /\ w.zone[y] = d.zone[y]
      BY <1>2, <2>2
    <3> QED BY <1>2, <2>1, <3>1 DEF Backed
  <2>3. CASE z \in d.zmap /\ ~IsDirectory(d, z)
    <3>1. \A y \in Zones : IsDirectory(w, y) \/ y \notin w.zmap => y # z /\ w.zone[y] = d.zone[y]
      BY <1>2, <2>1, <2>3
    <3> QED BY <1>2, <2>1, <3>1, SMTT(30) DEF Backed
  <2> QED BY <1>5, <2>2, <2>3
<1> QED BY <1>2, <1>3, <1>4, <1>5 DEF Steady, w

LEMMA UnlinkKeeps ==
  ASSUME NEW d, Steady(d), NEW z \in Zones, NEW i \in Slots
  PROVE  Steady(Unlink(d, z, i)) /\ Unlink(d, z, i) \in Disk
<1> DEFINE w == SetSlot(d, z, i, Free)
<1>1. d \in Disk
  BY DEF Steady, Typed
<1>2. /\ w \in Disk /\ w.imap = d.imap /\ w.zmap = d.zmap /\ w.inode = d.inode
      /\ w.zone[z][i] = Free
      /\ \A j \in Slots : j # i => w.zone[z][j] = d.zone[z][j]
      /\ \A y \in Zones : y # z => w.zone[y] = d.zone[y]
  BY <1>1, FreeIsASlot, SetSlotFacts
<1> HIDE DEF w
<1>3. \A y \in Zones, j \in Slots :
        IsEntry(w.zone[y][j]) => w.zone[y][j] = d.zone[y][j]
  BY <1>2, FreeIsASlot
<1>4. Typed(w)
  <2>1. ASSUME NEW y \in Zones PROVE Tidy(w.zone[y])
    <3>1. Tidy(d.zone[y])
      BY DEF Steady, Typed
    <3> QED BY <1>3, <3>1 DEF Tidy
  <2> QED BY <1>2, <2>1 DEF Steady, Typed
<1>5. Owned(w)
  BY <1>2 DEF Steady, Owned
<1>6. ASSUME Undeleted PROVE Backed(w)
  <2>1. Backed(d) /\ \A y \in Zones : IsDirectory(w, y) <=> IsDirectory(d, y)
    BY <1>2, <1>6 DEF Steady, IsDirectory
  <2> QED BY <1>2, <1>3, <2>1, SMTT(30) DEF Backed
<1> QED BY <1>2, <1>4, <1>5, <1>6 DEF Steady, Unlink, w

(* A name is entered in a directory that does not have it, for an inode     *)
(* that no directory has.                                                   *)
NewFor(d, n) ==
  /\ d.inode[n].mode # "none"
  /\ \A z \in Zones, i \in Slots :
       IsDirectory(d, z) /\ IsEntry(d.zone[z][i]) => d.zone[z][i].inode # n

LEMMA EnterKeeps ==
  ASSUME NEW d, Steady(d), NEW z \in Zones, NEW i \in Slots,
         NEW n \in 2 .. BITS, NEW name \in Names,
         \A j \in Slots : IsEntry(d.zone[z][j]) => d.zone[z][j].name # name,
         Undeleted => NewFor(d, n) /\ IsDirectory(d, z) /\ z # 0
  PROVE  LET w == SetSlot(d, z, i, Slot(n, name))
         IN  Steady(w) /\ w \in Disk
<1> DEFINE w == SetSlot(d, z, i, Slot(n, name))
<1>1. d \in Disk
  BY DEF Steady, Typed
<1>2. /\ Slot(n, name) \in SlotType /\ Slot(n, name).inode = n
      /\ Slot(n, name).name = name
  BY BitsAssumption, SlotFacts
<1>3. /\ w \in Disk /\ w.imap = d.imap /\ w.zmap = d.zmap /\ w.inode = d.inode
      /\ w.zone[z][i] = Slot(n, name)
      /\ \A j \in Slots : j # i => w.zone[z][j] = d.zone[z][j]
      /\ \A y \in Zones : y # z => w.zone[y] = d.zone[y]
  BY <1>1, <1>2, SetSlotFacts
<1> HIDE DEF w
<1>4. \A y \in Zones, j \in Slots :
        w.zone[y][j] = d.zone[y][j] \/ (y = z /\ j = i /\ w.zone[y][j] = Slot(n, name))
  BY <1>3
<1>5. Typed(w)
  <2>1. ASSUME NEW y \in Zones PROVE Tidy(w.zone[y])
    <3>1. Tidy(d.zone[y])
      BY DEF Steady, Typed
    <3> QED BY <1>2, <1>3, <3>1, SMTT(30) DEF Tidy
  <2> QED BY <1>3, <2>1 DEF Steady, Typed
<1>6. Owned(w)
  BY <1>3 DEF Steady, Owned
<1>7. ASSUME Undeleted PROVE Backed(w)
  <2>1. Backed(d) /\ \A y \in Zones : IsDirectory(w, y) <=> IsDirectory(d, y)
    BY <1>3, <1>7 DEF Steady, IsDirectory
  <2>2. NewFor(d, n) /\ IsDirectory(d, z) /\ z # 0
    BY <1>7
  <2>3. z \in d.zmap
    BY <2>2 DEF Steady, Owned, IsDirectory
  <2>4. \A y \in Zones, j \in Slots : IsDirectory(w, y) /\ IsEntry(w.zone[y][j])
          => w.inode[w.zone[y][j].inode].mode # "none"
    BY <1>2, <1>3, <1>4, <2>1, <2>2, SMTT(30) DEF Backed, NewFor
  <2>5. ASSUME NEW x \in Zones, NEW y \in Zones, NEW j \in Slots, NEW k \in Slots,
               IsDirectory(w, x), IsEntry(w.zone[x][j]),
               IsDirectory(w, y), IsEntry(w.zone[y][k]),
               w.zone[x][j].inode = w.zone[y][k].inode
        PROVE  x = y /\ j = k
    BY <1>2, <1>4, <2>1, <2>2, <2>5 DEF Backed, NewFor
  <2>6. \A y \in Zones \ w.zmap, j \in Slots : ~IsEntry(w.zone[y][j])
    BY <1>3, <2>1, <2>3 DEF Backed
  <2> QED BY <1>3, <2>1, <2>4, <2>5, <2>6 DEF Backed
<1> QED BY <1>3, <1>5, <1>6, <1>7 DEF Steady, w

-----------------------------------------------------------------------------
(* The operations that take things *)

LEMMA NextInodeFacts ==
  ASSUME NEW d
  PROVE  LET n == NextInode(d)
         IN  n # 0 => n \in 3 .. BITS /\ n \in 2 .. BITS /\ n \in 1 .. BITS /\ n - 1 \notin d.imap
<1> DEFINE S == {b \in Bits \ d.imap : b + 1 > 2}
           f == First(S)
<1>1. S \subseteq 0 .. BITS /\ BITS \in Nat
  BY BitsAssumption DEF Bits
<1>2. f # NONE => f \in S
  <2> HIDE DEF S
  <2> QED BY <1>1, FirstFacts
<1>3. f # NONE => f \in 0 .. BITS - 1 /\ f + 1 > 2 /\ f \notin d.imap
  BY <1>2 DEF Bits
<1>4. NextInode(d) = IF f = NONE THEN 0 ELSE f + 1
  BY DEF NextInode
<1> HIDE DEF f
<1>5. CASE f # NONE
  <2>1. f + 1 \in 3 .. BITS /\ (f + 1) - 1 = f
    BY <1>1, <1>3, <1>5
  <2> QED BY <1>3, <1>4, <1>5, <2>1
<1> QED BY <1>4, <1>5

LEMMA NextZoneFacts ==
  ASSUME NEW d
  PROVE  NextZone(d) # NONE => NextZone(d) \in Zones /\ NextZone(d) \notin d.zmap
<1>1. Zones \ d.zmap \subseteq 0 .. ZONES /\ ZONES \in Nat
  BY ZonesAssumption DEF Zones
<1>2. NextZone(d) # NONE => NextZone(d) \in Zones \ d.zmap
  BY <1>1, FirstFacts DEF NextZone
<1> QED BY <1>2

LEMMA Tuples ==
  ASSUME NEW S
  PROVE  /\ <<>> \in Seq(S)
         /\ \A a \in S : <<a>> \in Seq(S)
         /\ \A a, b \in S : <<a, b>> \in Seq(S)
         /\ \A a, b, c \in S : <<a, b, c>> \in Seq(S)
         /\ \A a, b, c, e \in S : <<a, b, c, e>> \in Seq(S)
         /\ \A a, b, c, e, f \in S : <<a, b, c, e, f>> \in Seq(S)
  OBVIOUS

(* A name entered in the directory the path ends in is found there.         *)
LEMMA EnterFound ==
  ASSUME NEW d, Typed(d), NEW w, Typed(w), NEW path \in Seq(Names) \ {<<>>},
         NEW n \in 2 .. BITS, NEW i \in Slots,
         DirZone(d, path) # NONE, FindEntry(d, path) = 0,
         d.zone[DirZone(d, path)][i].inode = 0,
         w.zone[DirZone(d, path)][i] = Slot(n, Last(path)),
         \A y \in Zones, j \in Slots :
           IsDirectory(d, y) /\ (y # DirZone(d, path) \/ j # i) => w.zone[y][j] = d.zone[y][j],
         \A m \in 2 .. BITS : m # n => w.inode[m] = d.inode[m],
         \A y \in Zones, j \in Slots :
           IsDirectory(d, y) /\ IsEntry(d.zone[y][j]) => d.zone[y][j].inode # n
  PROVE  DirZone(w, path) = DirZone(d, path) /\ FindEntry(w, path) = n
<1> DEFINE z == DirZone(d, path)
<1>1. /\ Last(path) \in Names /\ z \in Zones /\ z # NONE /\ IsDirectory(d, z)
      /\ \A y \in Zones : Tidy(d.zone[y]) /\ Tidy(w.zone[y])
  BY DirZoneFacts DEF Typed
<1> HIDE DEF z
<1>2. ASSUME NEW y \in Zones, IsDirectory(d, y), NEW name \in Names,
             Lookup(d.zone[y], name) # 0
      PROVE  /\ Lookup(w.zone[y], name) = Lookup(d.zone[y], name)
             /\ w.inode[Lookup(d.zone[y], name)] = d.inode[Lookup(d.zone[y], name)]
  <2> DEFINE m == Lookup(d.zone[y], name)
  <2>1. m \in 2 .. BITS
    BY <1>1, <1>2, LookupFacts
  <2>2. PICK j \in Slots : /\ IsEntry(d.zone[y][j]) /\ d.zone[y][j].name = name
                           /\ d.zone[y][j].inode = m
    BY <1>1, <1>2, LookupFacts, SMTT(30)
  <2> HIDE DEF m
  <2>3. m # n
    BY <1>2, <2>2
  <2>4. w.zone[y][j] = d.zone[y][j]
    BY <1>2, <2>2 DEF z, IsEntry
  <2>5. Lookup(w.zone[y], name) = m
    BY <1>1, <2>2, <2>4, LookupFacts
  <2> QED BY <2>1, <2>3, <2>5 DEF m
<1>3. ASSUME NEW y \in Places(d), NEW name \in Names, Descend(d, y, name) # NONE
      PROVE  Descend(w, y, name) = Descend(d, y, name)
  <2>1. y # NONE /\ y \in Zones /\ IsDirectory(d, y)
    BY <1>3 DEF Descend, Places
  <2>2. Lookup(d.zone[y], name) # 0
    BY <1>3, <2>1 DEF Descend
  <2> QED BY <1>2, <2>1, <2>2 DEF Descend
<1>4. DirZone(w, path) = z
  BY <1>3, SameWalk DEF z
<1>5. /\ IsEntry(w.zone[z][i]) /\ w.zone[z][i].name = Last(path)
      /\ w.zone[z][i].inode = n
  BY <1>1 DEF IsEntry, Slot, z
<1>6. Lookup(w.zone[z], Last(path)) = n
  BY <1>1, <1>5, LookupFacts
<1> QED BY <1>1, <1>4, <1>6 DEF FindEntry, z

(* An inode that is free is erased, and no entry has its number.            *)
LEMMA FreeInodeIsNew ==
  ASSUME NEW d, Steady(d), Undeleted, NEW n \in 2 .. BITS, n - 1 \notin d.imap
  PROVE  d.inode[n].mode = "none" /\ \A y \in Zones, j \in Slots :
           IsDirectory(d, y) /\ IsEntry(d.zone[y][j]) => d.zone[y][j].inode # n
  BY DEF Steady, Backed

LEMMA CreateFileSteps ==
  ASSUME NEW d, Steady(d), NEW path \in Seq(Names) \ {<<>>}
  PROVE  LET c == CreateFile(d, path)
         IN  /\ c.writes \in Seq(SteadyDisks) /\ Len(c.writes) <= 3
             /\ c.ret = 0 =>
                  LET w == Last(c.writes)
                  IN  /\ Len(c.writes) = 3 /\ w \in SteadyDisks
                      /\ Undeleted => /\ FindEntry(w, path) \in 2 .. BITS
                                      /\ w.inode[FindEntry(w, path)] = Inode("file", 0, 0)
<1> DEFINE z == DirZone(d, path)
           n == NextInode(d)
           i == FreeSlot(d.zone[z])
           taken  == TakeInode(d, n)
           formed == SetInode(taken, n, Inode("file", 0, 0))
           entered == SetSlot(formed, z, i, Slot(n, Last(path)))
           c == CreateFile(d, path)
<1>1. c = IF FindEntry(d, path) # 0 THEN Fails(EEXIST)
          ELSE IF z = NONE THEN Fails(ENOENT)
          ELSE IF n = 0 THEN Fails(ENOSPC)
          ELSE IF i = NONE THEN [ret |-> -ENOSPC, writes |-> <<taken, formed>>]
          ELSE [ret |-> 0, writes |-> <<taken, formed, entered>>]
  BY DEF CreateFile
<1>2. d \in Disk /\ Typed(d)
  BY DEF Steady, Typed
<1>3. CASE FindEntry(d, path) # 0 \/ z = NONE \/ n = 0
  <2>1. c.writes = <<>> /\ c.ret # 0
    BY <1>1, <1>3 DEF Fails, EEXIST, ENOENT, ENOSPC
  <2> QED BY <2>1, Tuples
<1>4. CASE FindEntry(d, path) = 0 /\ z # NONE /\ n # 0
  <2>1. n \in 2 .. BITS /\ n \in 1 .. BITS /\ n - 1 \notin d.imap
    BY <1>4, NextInodeFacts
  <2>2. /\ z \in Zones /\ z # 0 /\ IsDirectory(d, z) /\ Last(path) \in Names
        /\ Lookup(d.zone[z], Last(path)) = 0 /\ Tidy(d.zone[z])
    BY <1>2, <1>4, DirZoneFacts DEF Typed
  <2>3. /\ Steady(taken) /\ taken \in Disk /\ taken.imap = d.imap \cup {n - 1}
        /\ taken.zmap = d.zmap /\ taken.inode = d.inode /\ taken.zone = d.zone
    BY <1>2, <2>1, TakeInodeFacts, TakeInodeKeeps
  <2> HIDE DEF z, n, taken
  <2> DEFINE inode == Inode("file", 0, 0)
  <2>4. inode \in InodeType /\ inode.zone = 0 /\ inode.mode = "file"
    BY BitsAssumption, ZonesAssumption DEF Inode, InodeType, Zones
  <2>5. /\ formed \in Disk /\ formed.imap = taken.imap /\ formed.zmap = taken.zmap
        /\ formed.zone = taken.zone /\ formed.inode[n] = inode
        /\ \A m \in 1 .. BITS : m # n => formed.inode[m] = taken.inode[m]
    BY <2>1, <2>3, <2>4, SetInodeFacts
  <2>6. Steady(formed)
    <3> HIDE DEF inode
    <3> QED BY <2>1, <2>3, <2>4, SetInodeKeeps DEF inode
  <2> HIDE DEF formed, inode
  <2>7. taken \in SteadyDisks /\ formed \in SteadyDisks
    BY <2>3, <2>5, <2>6 DEF SteadyDisks
  <2>8. CASE i = NONE
    <3>1. c.writes = <<taken, formed>> /\ c.ret # 0
      BY <1>1, <1>4, <2>8 DEF ENOSPC
    <3> QED BY <2>7, <3>1, Tuples
  <2>9. CASE i # NONE
    <3>1. c.writes = <<taken, formed, entered>>
      BY <1>1, <1>4, <2>9
    <3>2. i \in Slots /\ d.zone[z][i].inode = 0
      BY <2>9, FreeSlotFacts
    <3> HIDE DEF i
    <3>3. ASSUME Undeleted
          PROVE  /\ NewFor(formed, n) /\ IsDirectory(formed, z)
                 /\ \A y \in Zones, j \in Slots :
                      IsDirectory(d, y) /\ IsEntry(d.zone[y][j]) => d.zone[y][j].inode # n
      <4>1. /\ d.inode[n].mode = "none"
            /\ \A y \in Zones, j \in Slots :
                 IsDirectory(d, y) /\ IsEntry(d.zone[y][j]) => d.zone[y][j].inode # n
        BY <2>1, <3>3, FreeInodeIsNew
      <4>2. \A y \in Zones : IsDirectory(formed, y) <=> IsDirectory(d, y)
        BY <2>3, <2>4, <2>5, <4>1 DEF IsDirectory
      <4> QED BY <2>2, <2>3, <2>4, <2>5, <4>1, <4>2 DEF NewFor
    <3>4. \A j \in Slots : IsEntry(formed.zone[z][j]) => formed.zone[z][j].name # Last(path)
      BY <2>2, <2>3, <2>5, LookupFacts
    <3>5. Steady(entered) /\ entered \in Disk
      BY <2>1, <2>2, <2>6, <3>2, <3>3, <3>4, EnterKeeps
    <3>6. /\ Slot(n, Last(path)) \in SlotType /\ entered.inode = formed.inode
          /\ entered.zone[z][i] = Slot(n, Last(path))
          /\ \A j \in Slots : j # i => entered.zone[z][j] = d.zone[z][j]
          /\ \A y \in Zones : y # z => entered.zone[y] = d.zone[y]
      <4>1. n \in 0 .. BITS + 1
        BY <2>1, BitsAssumption
      <4>2. Slot(n, Last(path)) \in SlotType
        BY <2>2, <4>1, SlotFacts
      <4> QED BY <2>2, <2>3, <2>5, <3>2, <4>2, SetSlotFacts
    <3> HIDE DEF entered
    <3>7. ASSUME Undeleted PROVE FindEntry(entered, path) = n
      <4>1. \A m \in 2 .. BITS : m # n => entered.inode[m] = d.inode[m]
        BY <2>3, <2>5, <3>6
      <4>2. Typed(entered)
        BY <3>5 DEF Steady
      <4> QED BY <1>2, <1>4, <2>1, <2>2, <3>2, <3>3, <3>6, <3>7, <4>1, <4>2, EnterFound DEF z
    <3>8. entered \in SteadyDisks
      BY <3>5 DEF SteadyDisks
    <3>9. /\ c.writes \in Seq(SteadyDisks) /\ Len(c.writes) = 3
          /\ Last(c.writes) = entered
      <4> HIDE DEF c
      <4> QED BY <2>7, <3>1, <3>8, Tuples DEF Last
    <3> QED BY <2>1, <2>5, <3>6, <3>7, <3>8, <3>9 DEF inode
  <2> QED BY <2>8, <2>9
<1> HIDE DEF z, n
<1> QED BY <1>3, <1>4

(* A directory without entries, at path. *)
EmptyDirAt(w, path) ==
  LET n == FindEntry(w, path)
      z == w.inode[n].zone
  IN  /\ n \in 2 .. BITS /\ w.inode[n].mode = "dir"
      /\ \A s \in Slots : ~IsEntry(w.zone[z][s])

LEMMA CreateDirSteps ==
  ASSUME WellNamed, NEW d, Steady(d), NEW path \in Seq(Names) \ {<<>>}
  PROVE  LET c == CreateDir(d, path)
         IN  /\ c.writes \in Seq(SteadyDisks) /\ Len(c.writes) <= 5
             /\ c.ret >= 0 /\ c.writes # <<>> /\ Undeleted => EmptyDirAt(Last(c.writes), path)
<1> DEFINE z == DirZone(d, path)
           n == NextInode(d)
           new == NextZone(d)
           i == FreeSlot(d.zone[z])
           taken  == TakeInode(d, n)
           zoned  == TakeZone(taken, new)
           formed == SetInode(zoned, n, Inode("dir", 2, new))
           sector == [s \in Slots |-> CASE s = 0 -> Slot(n, ".")
                                        [] s = 1 -> Slot(d.zone[z][0].inode, "..")
                                        [] OTHER -> Free]
           filled == SetSector(formed, new, sector)
           entered == SetSlot(filled, z, i, Slot(n, Last(path)))
           c == CreateDir(d, path)
<1>1. c = IF FindEntry(d, path) # 0 THEN Fails(EEXIST)
          ELSE IF z = NONE THEN Fails(ENOENT)
          ELSE IF n = 0 THEN Fails(ENOSPC)
          ELSE IF new = NONE THEN [ret |-> -ENOSPC, writes |-> <<taken>>]
          ELSE IF i = NONE
               THEN [ret |-> -ENOSPC, writes |-> <<taken, zoned, formed, filled>>]
          ELSE [ret |-> 0, writes |-> <<taken, zoned, formed, filled, entered>>]
  BY DEF CreateDir, SetSector
<1>2. d \in Disk /\ Typed(d)
  BY DEF Steady, Typed
<1>3. CASE FindEntry(d, path) # 0 \/ z = NONE \/ n = 0
  <2>1. c.writes = <<>>
    BY <1>1, <1>3 DEF Fails
  <2> QED BY <2>1, Tuples
<1>4. CASE FindEntry(d, path) = 0 /\ z # NONE /\ n # 0
  <2>1. /\ n \in 2 .. BITS /\ n \in 1 .. BITS /\ n - 1 \notin d.imap
        /\ n \in 0 .. BITS + 1
    <3>1. n \in 2 .. BITS /\ n \in 1 .. BITS /\ n - 1 \notin d.imap
      BY <1>4, NextInodeFacts
    <3> HIDE DEF n
    <3> QED BY <3>1, BitsAssumption
  <2>2. /\ z \in Zones /\ z # 0 /\ IsDirectory(d, z) /\ Last(path) \in Names
        /\ Lookup(d.zone[z], Last(path)) = 0 /\ Tidy(d.zone[z])
    BY <1>2, <1>4, DirZoneFacts DEF Typed
  <2>3. /\ Steady(taken) /\ taken \in Disk /\ taken.imap = d.imap \cup {n - 1}
        /\ taken.zmap = d.zmap /\ taken.inode = d.inode /\ taken.zone = d.zone
    BY <1>2, <2>1, TakeInodeFacts, TakeInodeKeeps
  <2> HIDE DEF z, n, taken
  <2>4. CASE new = NONE
    <3>1. c.writes = <<taken>> /\ ~(c.ret >= 0) /\ taken \in SteadyDisks
      BY <1>1, <1>4, <2>3, <2>4 DEF SteadyDisks, ENOSPC
    <3>2. c.writes \in Seq(SteadyDisks) /\ Len(c.writes) <= 5
      BY <3>1, Tuples
    <3> HIDE DEF c
    <3> QED BY <3>1, <3>2 DEF c
  <2>5. CASE new # NONE
    <3>1. new \in Zones /\ new \notin d.zmap /\ new # 0
      <4>1. new \in Zones /\ new \notin d.zmap
        BY <2>5, NextZoneFacts
      <4> QED BY <4>1 DEF Steady, Owned
    <3>2. /\ Steady(zoned) /\ zoned \in Disk /\ zoned.imap = d.imap \cup {n - 1}
          /\ zoned.zmap = d.zmap \cup {new} /\ zoned.inode = d.inode /\ zoned.zone = d.zone
      BY <2>3, <3>1, TakeZoneFacts, TakeZoneKeeps
    <3>3. \A m \in 1 .. BITS : d.inode[m].zone # new
      BY <3>1 DEF Steady, Owned
    <3>4. Undeleted => \A s \in Slots : ~IsEntry(d.zone[new][s])
      BY <3>1 DEF Steady, Backed
    <3> HIDE DEF new, zoned
    <3> DEFINE inode == Inode("dir", 2, new)
    <3>5. inode \in InodeType /\ inode.zone = new /\ inode.mode = "dir"
      BY BitsAssumption, <3>1 DEF Inode, InodeType
    <3>6. /\ formed \in Disk /\ formed.imap = zoned.imap /\ formed.zmap = zoned.zmap
          /\ formed.zone = zoned.zone /\ formed.inode[n] = inode
          /\ \A m \in 1 .. BITS : m # n => formed.inode[m] = zoned.inode[m]
      BY <2>1, <3>2, <3>5, SetInodeFacts
    <3>7. Steady(formed)
      <4> HIDE DEF inode
      <4>1. n - 1 \in zoned.imap /\ new \in zoned.zmap
        BY <3>2
      <4> QED BY <2>1, <3>1, <3>2, <3>3, <3>4, <3>5, <4>1, SetInodeKeeps DEF inode
    <3> HIDE DEF formed, inode
    <3>8. ASSUME NEW s \in Slots PROVE sector[s] \in SlotType /\ ~IsEntry(sector[s])
      <4>1. 0 \in Slots /\ "." \in OtherNames /\ ".." \in OtherNames
        BY BitsAssumption DEF Slots, OtherNames
      <4>2. d.zone[z][0].inode \in 0 .. BITS + 1
        BY <1>2, <2>2, <4>1, DiskParts DEF SlotType
      <4>3. /\ Slot(n, ".") \in SlotType /\ ~IsEntry(Slot(n, "."))
            /\ Slot(d.zone[z][0].inode, "..") \in SlotType
            /\ ~IsEntry(Slot(d.zone[z][0].inode, ".."))
        BY <2>1, <4>1, <4>2, OtherIsNoEntry
      <4>4. CASE s = 0
        BY <4>3, <4>4
      <4>5. CASE s = 1
        BY <4>3, <4>5
      <4>6. CASE s # 0 /\ s # 1
        BY <4>6, FreeIsASlot
      <4> QED BY <4>4, <4>5, <4>6
    <3>9. sector \in Sector /\ Tidy(sector)
      <4>1. sector = [s \in Slots |-> sector[s]]
        OBVIOUS
      <4> HIDE DEF sector
      <4> QED BY <3>8, <4>1 DEF Sector, Tidy
    <3> HIDE DEF sector
    <3>10. /\ Steady(filled) /\ filled \in Disk /\ filled.imap = formed.imap
           /\ filled.zmap = formed.zmap /\ filled.inode = formed.inode
           /\ filled.zone[new] = sector
           /\ \A y \in Zones : y # new => filled.zone[y] = formed.zone[y]
      BY <3>1, <3>6, <3>7, <3>8, <3>9, SetSectorFacts, SetSectorKeeps
    <3> HIDE DEF filled
    <3>11. /\ taken \in SteadyDisks /\ zoned \in SteadyDisks /\ formed \in SteadyDisks
           /\ filled \in SteadyDisks
      BY <2>3, <3>2, <3>6, <3>7, <3>10 DEF SteadyDisks
    <3>12. CASE i = NONE
      <4>1. c.writes = <<taken, zoned, formed, filled>> /\ ~(c.ret >= 0)
        BY <1>1, <1>4, <2>5, <3>12 DEF ENOSPC
      <4>2. c.writes \in Seq(SteadyDisks) /\ Len(c.writes) <= 5
        BY <3>11, <4>1, Tuples
      <4> HIDE DEF c
      <4> QED BY <4>1, <4>2 DEF c
    <3>13. CASE i # NONE
      <4>1. c.writes = <<taken, zoned, formed, filled, entered>>
        BY <1>1, <1>4, <2>5, <3>13
      <4>2. i \in Slots /\ d.zone[z][i].inode = 0
        BY <3>13, FreeSlotFacts
      <4> HIDE DEF i
      <4>3. z # new
        BY <2>2, <3>3 DEF IsDirectory
      <4>4. ASSUME Undeleted PROVE NewFor(filled, n) /\ IsDirectory(filled, z)
        <5>1. /\ d.inode[n].mode = "none"
              /\ \A y \in Zones, j \in Slots :
                   IsDirectory(d, y) /\ IsEntry(d.zone[y][j]) => d.zone[y][j].inode # n
          BY <2>1, <4>4, FreeInodeIsNew
        <5>2. \A y \in Zones : IsDirectory(filled, y) => IsDirectory(d, y) \/ y = new
          BY <3>2, <3>5, <3>6, <3>10 DEF IsDirectory
        <5>3. IsDirectory(filled, z)
          BY <2>2, <3>2, <3>6, <3>10, <5>1 DEF IsDirectory
        <5> QED BY <2>1, <3>2, <3>5, <3>6, <3>8, <3>10, <5>1, <5>2, <5>3 DEF NewFor
      <4>5. \A j \in Slots : IsEntry(filled.zone[z][j]) => filled.zone[z][j].name # Last(path)
        BY <2>2, <3>2, <3>6, <3>10, <4>3, LookupFacts
      <4>6. Steady(entered) /\ entered \in Disk
        BY <2>1, <2>2, <3>10, <4>2, <4>4, <4>5, EnterKeeps
      <4>7. entered \in SteadyDisks
        BY <4>6 DEF SteadyDisks
      <4>8. /\ entered.inode = filled.inode /\ entered.zone[z][i] = Slot(n, Last(path))
            /\ \A j \in Slots : j # i => entered.zone[z][j] = filled.zone[z][j]
            /\ \A y \in Zones : y # z => entered.zone[y] = filled.zone[y]
        <5>1. Slot(n, Last(path)) \in SlotType
          BY <2>1, <2>2, SlotFacts
        <5> QED BY <2>2, <3>10, <4>2, <5>1, SetSlotFacts
      <4> HIDE DEF entered
      <4>9. ASSUME Undeleted PROVE EmptyDirAt(entered, path)
        <5>1. \A y \in Zones, j \in Slots :
                IsDirectory(d, y) /\ IsEntry(d.zone[y][j]) => d.zone[y][j].inode # n
          BY <2>1, <4>9, FreeInodeIsNew
        <5>2. \A m \in 2 .. BITS : m # n => entered.inode[m] = d.inode[m]
          BY <3>2, <3>6, <3>10, <4>8
        <5>3. \A y \in Zones, j \in Slots : IsDirectory(d, y) /\ (y # z \/ j # i)
                => entered.zone[y][j] = d.zone[y][j]
          <6>1. \A y \in Zones : IsDirectory(d, y) => y # new /\ filled.zone[y] = d.zone[y]
            BY <3>2, <3>3, <3>6, <3>10 DEF IsDirectory
          <6> QED BY <4>8, <6>1
        <5>4. Typed(entered)
          BY <4>6 DEF Steady
        <5>5. FindEntry(entered, path) = n
          BY <1>2, <1>4, <2>1, <2>2, <4>2, <4>8, <5>1, <5>2, <5>3, <5>4, EnterFound DEF z
        <5>6. entered.inode[n] = inode /\ entered.zone[new] = sector
          BY <2>1, <3>1, <3>6, <3>10, <4>3, <4>8
        <5> QED BY <2>1, <3>5, <3>8, <5>5, <5>6 DEF EmptyDirAt
      <4>10. Last(c.writes) = entered
        <5> HIDE DEF c
        <5> QED BY <4>1 DEF Last
      <4>11. c.writes \in Seq(SteadyDisks) /\ Len(c.writes) <= 5
        BY <3>11, <4>1, <4>7, Tuples
      <4> HIDE DEF c
      <4> QED BY <4>9, <4>10, <4>11 DEF c
    <3> QED BY <3>12, <3>13
  <2> QED BY <2>4, <2>5
<1> HIDE DEF z, n
<1> QED BY <1>3, <1>4

LEMMA FewerEntries ==
  ASSUME NEW block, Tidy(block), NEW sector \in Sector,
         \A i \in Slots : IsEntry(sector[i]) => sector[i] = block[i]
  PROVE  Tidy(sector)
  BY DEF Tidy

LEMMA ClampedFacts ==
  ASSUME NEW count \in Nat, NEW size \in 0 .. SLOTS
  PROVE  Clamped(count) \in 0 .. SLOTS /\ Grown(size, Clamped(count)) \in 0 .. SLOTS
  BY BitsAssumption DEF Clamped, Grown

(* What was read from a sector, written to another, cannot make it untidy;  *)
(* and it is not written where a path can lead, if it may have entries.     *)
LEMMA WriteFileSteps ==
  ASSUME NEW d, Steady(d), NEW path \in Seq(Names) \ {<<>>},
         NEW input \in Sector, Tidy(input), NEW count \in Nat,
         Undeleted => \/ \A i \in Slots : ~IsEntry(input[i])
                      \/ d.inode[FindEntry(d, path)].mode # "dir"
  PROVE  LET c == WriteFile(d, path, input, count)
         IN  c.writes \in Seq(SteadyDisks) /\ Len(c.writes) <= 3
<1> DEFINE n == FindEntry(d, path)
           fresh == d.inode[n].zone = 0
           z == IF fresh THEN NextZone(d) ELSE d.inode[n].zone
           zoned == TakeZone(d, z)
           to_write == Clamped(count)
           base == IF fresh THEN zoned ELSE d
           sector == [i \in Slots |-> IF i < to_write THEN input[i] ELSE Free]
           filled == SetSector(base, z, sector)
           inode == Inode(d.inode[n].mode, Grown(d.inode[n].size, to_write), z)
           ended == SetInode(filled, n, inode)
           c == WriteFile(d, path, input, count)
<1>1. c = IF n = 0 THEN Fails(ENOENT)
          ELSE IF z = NONE THEN Fails(ENOSPC)
          ELSE [ret |-> to_write,
                writes |-> (IF fresh THEN <<zoned>> ELSE <<>>) \o <<filled, ended>>]
  BY DEF WriteFile, SetSector
<1>2. d \in Disk /\ Typed(d)
  BY DEF Steady, Typed
<1>3. CASE n = 0 \/ z = NONE
  <2>1. c.writes = <<>>
    BY <1>1, <1>3 DEF Fails
  <2> QED BY <2>1, Tuples, SMTT(30)
<1>4. CASE n # 0 /\ z # NONE
  <2>1. n \in 2 .. BITS /\ n \in 1 .. BITS
    <3>1. n \in 2 .. BITS
      BY <1>2, <1>4, DirZoneFacts
    <3> QED BY <3>1
  <2>2. d.inode[n] \in InodeType
    BY <1>2, <2>1, DiskParts
  <2>3. /\ d.inode[n].mode \in {"none", "file", "dir"} /\ d.inode[n].size \in 0 .. SLOTS
        /\ d.inode[n].zone \in Zones
    BY <2>2 DEF InodeType
  <2>4. z \in Zones /\ z # 0 /\ (fresh => z \notin d.zmap)
    <3>1. CASE fresh
      <4>1. z \in Zones /\ z \notin d.zmap
        BY <1>4, <3>1, NextZoneFacts
      <4> QED BY <4>1 DEF Steady, Owned
    <3>2. CASE ~fresh
      BY <2>3, <3>2
    <3> QED BY <3>1, <3>2
  <2>5. \A m \in 1 .. BITS : m # n => d.inode[m].zone # z
    <3>1. CASE fresh
      BY <2>4, <3>1 DEF Steady, Owned
    <3>2. CASE ~fresh
      BY <2>1, <3>2 DEF Steady, Owned
    <3> QED BY <3>1, <3>2
  <2>6. ~fresh => d.inode[n].zone = z /\ z \in d.zmap
    BY <2>1 DEF Steady, Owned
  <2>7. d.inode[n].mode = "dir" => ~fresh
    BY <2>1 DEF Steady, Owned
  <2> HIDE DEF n, z
  <2>8. /\ Steady(base) /\ base \in Disk /\ base.imap = d.imap /\ z \in base.zmap
        /\ base.inode = d.inode /\ base.zone = d.zone
    <3>1. CASE fresh
      BY <1>2, <2>4, <3>1, TakeZoneFacts, TakeZoneKeeps
    <3>2. CASE ~fresh
      BY <1>2, <2>6, <3>2
    <3> QED BY <3>1, <3>2
  <2>9. fresh => zoned \in SteadyDisks
    BY <1>2, <2>4, TakeZoneFacts, TakeZoneKeeps DEF SteadyDisks
  <2>10. to_write \in 0 .. SLOTS /\ Grown(d.inode[n].size, to_write) \in 0 .. SLOTS
    BY <2>3, ClampedFacts
  <2> HIDE DEF fresh, zoned, to_write
  <2>11. /\ sector \in Sector /\ Tidy(sector)
         /\ \A i \in Slots : IsEntry(sector[i]) => IsEntry(input[i])
    <3>1. \A i \in Slots : sector[i] \in SlotType /\ (sector[i] = input[i] \/ sector[i] = Free)
      BY FreeIsASlot DEF Sector
    <3>2. sector \in Sector
      BY <3>1 DEF Sector
    <3> HIDE DEF sector
    <3>3. \A i \in Slots : IsEntry(sector[i]) => sector[i] = input[i]
      BY <3>1, FreeIsASlot
    <3> QED BY <3>2, <3>3, FewerEntries
  <2> HIDE DEF base, sector
  <2>12. Undeleted => \/ \A i \in Slots : ~IsEntry(sector[i])
                      \/ z \in base.zmap /\ ~IsDirectory(base, z)
    <3>1. ASSUME d.inode[n].mode # "dir" PROVE ~IsDirectory(base, z)
      BY <2>1, <2>5, <2>8, <3>1 DEF IsDirectory
    <3> HIDE DEF Undeleted
    <3> QED BY <2>8, <2>11, <3>1 DEF n
  <2>13. /\ Steady(filled) /\ filled \in Disk /\ filled.imap = d.imap
         /\ filled.zmap = base.zmap /\ filled.inode = d.inode /\ filled.zone[z] = sector
    BY <2>4, <2>8, <2>11, <2>12, SetSectorFacts, SetSectorKeeps
  <2> HIDE DEF filled
  <2>14. /\ inode \in InodeType /\ inode.zone = z /\ inode.mode = d.inode[n].mode
    BY <2>3, <2>4, <2>10 DEF InodeType, Inode
  <2> HIDE DEF inode
  <2>15. ASSUME inode.mode = "dir" PROVE inode.zone # 0 /\ IsDirectory(filled, inode.zone)
    BY <2>1, <2>4, <2>6, <2>7, <2>13, <2>14, <2>15 DEF IsDirectory
  <2>16. Undeleted => inode.mode = "none" \/ n - 1 \in filled.imap
    BY <2>1, <2>13, <2>14 DEF Steady, Backed
  <2>17. /\ inode.zone # 0 => inode.zone \in filled.zmap
         /\ \A m \in 1 .. BITS : m # n /\ inode.zone # 0 => filled.inode[m].zone # inode.zone
         /\ inode.mode # "none" \/ filled.inode[n].mode = "none"
    BY <2>5, <2>8, <2>13, <2>14
  <2>18. Steady(ended) /\ ended \in Disk
    <3> HIDE DEF Undeleted
    <3> QED BY <2>1, <2>13, <2>14, <2>15, <2>16, <2>17, SetInodeKeeps
  <2> HIDE DEF ended
  <2>19. filled \in SteadyDisks /\ ended \in SteadyDisks
    BY <2>13, <2>18 DEF SteadyDisks
  <2>20. CASE fresh
    <3>1. c.writes = <<zoned>> \o <<filled, ended>>
      BY <1>1, <1>4, <2>20
    <3>2. /\ <<zoned>> \in Seq(SteadyDisks) /\ Len(<<zoned>>) = 1
          /\ <<filled, ended>> \in Seq(SteadyDisks) /\ Len(<<filled, ended>>) = 2
      BY <2>9, <2>19, <2>20, Tuples
    <3>3. /\ <<zoned>> \o <<filled, ended>> \in Seq(SteadyDisks)
          /\ Len(<<zoned>> \o <<filled, ended>>) = 3
      BY <3>2, ConcatProperties
    <3> QED BY <3>1, <3>3
  <2>21. CASE ~fresh
    <3>1. c.writes = <<>> \o <<filled, ended>>
      BY <1>1, <1>4, <2>21
    <3>2. <<>> \o <<filled, ended>> = <<filled, ended>>
      OBVIOUS
    <3> QED BY <2>19, <3>1, <3>2, Tuples
  <2> QED BY <2>20, <2>21
<1> HIDE DEF n, z
<1> QED BY <1>3, <1>4

LEMMA RenameSteps ==
  ASSUME NEW d, Steady(d), NEW path \in Seq(Names) \ {<<>>}, NEW new \in Seq(Names) \ {<<>>}
  PROVE  LET c == Rename(d, path, new)
         IN  c.writes \in Seq(SteadyDisks) /\ Len(c.writes) <= 2
<1> DEFINE z == DirZone(d, path)
           i == EntryOf(d.zone[z], Last(path))
           removed == Unlink(d, z, i)
           to == DirZone(d, new)
           j == FreeSlot(removed.zone[to])
           n == d.zone[z][i].inode
           entered == SetSlot(removed, to, j, Slot(n, Last(new)))
           c == Rename(d, path, new)
<1>1. c = IF z = NONE \/ to = NONE THEN Fails(ENOENT)
          ELSE IF FindEntry(d, new) # 0 THEN Fails(EEXIST)
          ELSE IF i = NONE THEN Fails(ENOENT)
          ELSE IF j = NONE THEN [ret |-> -ENOSPC, writes |-> <<removed>>]
          ELSE [ret |-> 0, writes |-> <<removed, entered>>]
  BY DEF Rename
<1>2. d \in Disk /\ Typed(d)
  BY DEF Steady, Typed
<1>3. CASE z = NONE \/ to = NONE \/ FindEntry(d, new) # 0 \/ i = NONE
  <2>1. c.writes = <<>>
    BY <1>1, <1>3 DEF Fails
  <2> QED BY <2>1, Tuples
<1>4. CASE z # NONE /\ to # NONE /\ FindEntry(d, new) = 0 /\ i # NONE
  <2>1. /\ z \in Zones /\ z # 0 /\ IsDirectory(d, z) /\ Last(path) \in Names
        /\ Tidy(d.zone[z])
    BY <1>2, <1>4, DirZoneFacts DEF Typed
  <2>2. /\ to \in Zones /\ to # 0 /\ IsDirectory(d, to) /\ Last(new) \in Names
        /\ Lookup(d.zone[to], Last(new)) = 0 /\ Tidy(d.zone[to])
    BY <1>2, <1>4, DirZoneFacts DEF Typed
  <2>3. /\ i \in Slots /\ IsEntry(d.zone[z][i]) /\ n \in 2 .. BITS
    <3>1. i \in Slots /\ d.zone[z][i].inode # 0 /\ d.zone[z][i].name = Last(path)
      BY <1>4, EntryOfFacts
    <3> HIDE DEF i
    <3> QED BY <2>1, <3>1 DEF Tidy, IsEntry
  <2> HIDE DEF z, i, to
  <2>4. /\ Steady(removed) /\ removed \in Disk /\ removed.imap = d.imap
        /\ removed.zmap = d.zmap /\ removed.inode = d.inode
        /\ removed.zone[z][i] = Free
        /\ \A k \in Slots : k # i => removed.zone[z][k] = d.zone[z][k]
        /\ \A y \in Zones : y # z => removed.zone[y] = d.zone[y]
    BY <1>2, <2>1, <2>3, UnlinkKeeps, SetSlotFacts, FreeIsASlot DEF Unlink
  <2> HIDE DEF removed, n
  <2>5. removed \in SteadyDisks
    BY <2>4 DEF SteadyDisks
  <2>6. CASE j = NONE
    <3>1. c.writes = <<removed>>
      BY <1>1, <1>4, <2>6
    <3> QED BY <2>5, <3>1, Tuples
  <2>7. CASE j # NONE
    <3>1. c.writes = <<removed, entered>>
      BY <1>1, <1>4, <2>7
    <3>2. j \in Slots /\ removed.zone[to][j].inode = 0
      BY <2>7, FreeSlotFacts
    <3> HIDE DEF j
    <3>3. \A y \in Zones, k \in Slots : IsEntry(removed.zone[y][k]) =>
            removed.zone[y][k] = d.zone[y][k] /\ (y # z \/ k # i)
      BY <2>4, FreeIsASlot
    <3>4. \A k \in Slots : IsEntry(removed.zone[to][k]) => removed.zone[to][k].name # Last(new)
      BY <2>2, <3>3, LookupFacts
    <3>5. \A y \in Zones : IsDirectory(removed, y) <=> IsDirectory(d, y)
      BY <2>4 DEF IsDirectory
    <3>6. ASSUME Undeleted PROVE NewFor(removed, n)
      <4>1. Backed(d)
        BY <3>6 DEF Steady
      <4>2. removed.inode[n].mode # "none"
        BY <2>1, <2>3, <2>4, <4>1 DEF Backed, n
      <4>3. \A y \in Zones, k \in Slots :
              IsDirectory(removed, y) /\ IsEntry(removed.zone[y][k]) => removed.zone[y][k].inode # n
        BY <2>1, <2>3, <3>3, <3>5, <4>1 DEF Backed, n
      <4> QED BY <4>2, <4>3 DEF NewFor
    <3>7. Steady(entered) /\ entered \in Disk
      BY <2>2, <2>3, <2>4, <3>2, <3>4, <3>5, <3>6, EnterKeeps
    <3> HIDE DEF entered
    <3>8. entered \in SteadyDisks
      BY <3>7 DEF SteadyDisks
    <3> QED BY <2>5, <3>1, <3>8, Tuples
  <2> QED BY <2>6, <2>7
<1> HIDE DEF z, i, to
<1> QED BY <1>3, <1>4

LEMMA ReadFileFacts ==
  ASSUME WellNamed, NEW d, Typed(d), NEW path \in Seq(Names) \ {<<>>}, NEW count \in Nat
  PROVE  LET r == ReadFile(d, path, count)
         IN  /\ r.output \in Sector
             /\ FindEntry(d, path) = 0 => r.ret < 0
             /\ FindEntry(d, path) # 0 => r.ret \in 0 .. SLOTS /\ Tidy(r.output)
<1> DEFINE n == FindEntry(d, path)
           actual == IF count > d.inode[n].size THEN d.inode[n].size ELSE count
           z == d.inode[n].zone
           output == [i \in Slots |->
                        CASE i < actual /\ z # 0      -> d.zone[z][i]
                          [] i >= actual /\ i < count -> Free
                          [] OTHER                    -> Untouched[i]]
           r == ReadFile(d, path, count)
<1>1. r = IF n = 0 THEN [ret |-> -ENOENT, output |-> Untouched]
          ELSE [ret |-> actual, output |-> output]
  BY DEF ReadFile
<1>2. \A i \in Slots : Untouched[i] \in SlotType /\ ~IsEntry(Untouched[i])
  <2>1. "untouched" \in OtherNames
    BY DEF OtherNames
  <2>2. Bytes("untouched") \in SlotType /\ ~IsEntry(Bytes("untouched"))
    BY <2>1, BytesAreNoEntry
  <2> QED BY <2>2 DEF Untouched
<1>3. CASE n = 0
  <2>1. Untouched \in Sector
    BY <1>2 DEF Sector, Untouched
  <2>2. r.output = Untouched /\ r.ret = -ENOENT
    BY <1>1, <1>3
  <2>3. -ENOENT < 0
    BY DEF ENOENT
  <2> QED BY <1>3, <2>1, <2>2, <2>3
<1>4. CASE n # 0
  <2>1. n \in 1 .. BITS
    <3>1. n \in 2 .. BITS
      BY <1>4, DirZoneFacts
    <3> QED BY <3>1
  <2>2. d \in Disk /\ d.inode[n] \in InodeType
    BY <2>1, DiskParts DEF Typed
  <2>3. z \in Zones /\ d.inode[n].size \in 0 .. SLOTS
    BY <2>2 DEF InodeType
  <2>4. Tidy(d.zone[z]) /\ d.zone[z] \in Sector
    BY <2>2, <2>3, DiskParts DEF Typed
  <2>5. actual \in 0 .. SLOTS
    BY <2>3, BitsAssumption
  <2>6. r.ret = actual /\ r.output = output
    BY <1>1, <1>4
  <2> HIDE DEF n, actual, z, r
  <2>7. ASSUME NEW i \in Slots
        PROVE  /\ output[i] \in SlotType
               /\ output[i] = d.zone[z][i] \/ ~IsEntry(output[i])
    <3>1. CASE i < actual /\ z # 0
      <4>1. output[i] = d.zone[z][i]
        BY <2>5, <3>1, SlotsBounded
      <4>2. d.zone[z][i] \in SlotType
        BY <2>4 DEF Sector
      <4> QED BY <4>1, <4>2
    <3>2. CASE ~(i < actual /\ z # 0) /\ i >= actual /\ i < count
      BY <3>2, FreeIsASlot
    <3>3. CASE ~(i < actual /\ z # 0) /\ ~(i >= actual /\ i < count)
      BY <1>2, <3>3
    <3> QED BY <3>1, <3>2, <3>3
  <2>8. output = [i \in Slots |-> output[i]]
    OBVIOUS
  <2> HIDE DEF output
  <2>9. output \in Sector
    BY <2>7, <2>8 DEF Sector
  <2>10. Tidy(output)
    BY <2>4, <2>7, <2>9, FewerEntries
  <2> QED BY <1>4, <2>5, <2>6, <2>9, <2>10 DEF n, r
<1> QED BY <1>3, <1>4

LEMMA CopyFileSteps ==
  ASSUME WellNamed, NEW d, Steady(d),
         NEW path \in Seq(Names) \ {<<>>}, NEW dest \in Seq(Names) \ {<<>>}
  PROVE  LET c == CopyFile(d, path, dest)
         IN  c.writes \in Seq(SteadyDisks) /\ Len(c.writes) <= 6
<1> DEFINE read    == ReadFile(d, path, SLOTS)
           created == CreateFile(d, dest)
           w == Last(created.writes)
           written == WriteFile(w, dest, read.output, read.ret)
           c == CopyFile(d, path, dest)
<1>1. c = IF read.ret < 0 THEN [ret |-> read.ret, writes |-> <<>>]
          ELSE IF created.ret # 0 THEN created
          ELSE [ret |-> IF written.ret # read.ret THEN -1 ELSE 0,
                writes |-> created.writes \o written.writes]
  BY DEF CopyFile
<1>2. /\ read.output \in Sector
      /\ read.ret < 0 \/ (read.ret \in Nat /\ Tidy(read.output))
  <2>1. SLOTS \in Nat /\ Typed(d) /\ \A k \in 0 .. SLOTS : k \in Nat
    BY BitsAssumption DEF Steady
  <2> QED BY <2>1, ReadFileFacts
<1>3. /\ created.writes \in Seq(SteadyDisks) /\ Len(created.writes) <= 3
      /\ created.ret = 0 =>
           /\ w \in SteadyDisks
           /\ Undeleted => /\ FindEntry(w, dest) \in 2 .. BITS
                           /\ w.inode[FindEntry(w, dest)] = Inode("file", 0, 0)
  BY CreateFileSteps
<1> HIDE DEF read, created, w
<1>4. CASE read.ret < 0
  <2>1. c.writes = <<>>
    BY <1>1, <1>4
  <2> QED BY <2>1, Tuples
<1>5. CASE ~(read.ret < 0) /\ created.ret # 0
  <2>1. c.writes = created.writes
    BY <1>1, <1>5
  <2>2. Len(created.writes) \in Nat
    BY <1>3, LenProperties
  <2> QED BY <1>3, <2>1, <2>2
<1>6. CASE ~(read.ret < 0) /\ created.ret = 0
  <2>1. Steady(w) /\ (Undeleted => w.inode[FindEntry(w, dest)].mode # "dir")
    BY <1>3, <1>6 DEF SteadyDisks, Inode
  <2>2. written.writes \in Seq(SteadyDisks) /\ Len(written.writes) <= 3
    BY <1>2, <1>6, <2>1, WriteFileSteps
  <2> HIDE DEF written
  <2>3. c.writes = created.writes \o written.writes
    <3> HIDE DEF c
    <3> QED BY <1>1, <1>6
  <2>4. /\ created.writes \o written.writes \in Seq(SteadyDisks)
        /\ Len(created.writes \o written.writes) = Len(created.writes) + Len(written.writes)
    BY <1>3, <2>2, ConcatProperties
  <2>5. Len(created.writes) \in Nat /\ Len(written.writes) \in Nat
    BY <1>3, <2>2, LenProperties
  <2>6. Len(created.writes) + Len(written.writes) <= 6
    <3> DEFINE a == Len(created.writes)
               b == Len(written.writes)
    <3>1. a \in Nat /\ b \in Nat /\ a <= 3 /\ b <= 3
      BY <1>3, <2>2, <2>5
    <3> HIDE DEF a, b
    <3>2. a + b <= 6
      BY <3>1
    <3> QED BY <3>2 DEF a, b
  <2> QED BY <2>3, <2>4, <2>6
<1> QED BY <1>4, <1>5, <1>6

-----------------------------------------------------------------------------
(* The operations that delete *)

ClearBit(d, n) == [d EXCEPT !.imap = @ \ {n}]

LEMMA ClearBitFacts ==
  ASSUME NEW d \in Disk, NEW n
  PROVE  LET w == ClearBit(d, n)
         IN  w \in Disk /\ w.zmap = d.zmap /\ w.inode = d.inode /\ w.zone = d.zone
  BY DEF ClearBit, Disk

LEMMA EraseFacts ==
  ASSUME NEW d, Steady(d), NEW n \in 2 .. BITS
  PROVE  LET steps == Erase(d, n)
             e == Last(steps)
         IN  /\ steps \in Seq(TypedDisks) /\ Len(steps) <= 3
             /\ e \in Disk /\ Typed(e) /\ Owned(e) /\ e.zone = d.zone
             /\ e.inode[n] = Erased
             /\ \A m \in 1 .. BITS : m # n => e.inode[m] = d.inode[m]
<1> DEFINE z == d.inode[n].zone
           freed == IF z = 0 THEN d ELSE FreeZone(d, z)
           erased == SetInode(freed, n, Erased)
           e == ClearBit(erased, n)
           steps == Erase(d, n)
<1>1. steps = (IF z = 0 THEN <<>> ELSE <<freed>>) \o <<erased, e>>
  BY DEF Erase, ClearBit
<1>2. d \in Disk /\ Typed(d) /\ Owned(d) /\ n \in 1 .. BITS /\ ROOT \in 1 .. BITS /\ n # ROOT
  BY RootIsDirectory DEF Steady, Typed, ROOT
<1>3. /\ freed \in Disk /\ freed.inode = d.inode /\ freed.zone = d.zone
      /\ freed.zmap = IF z = 0 THEN d.zmap ELSE d.zmap \ {z}
  BY <1>2, FreeZoneFacts
<1>4. \A m \in 1 .. BITS : m # n /\ z # 0 => d.inode[m].zone # z
  BY <1>2 DEF Owned
<1> HIDE DEF freed
<1>5. Typed(freed)
  BY <1>2, <1>3 DEF Typed
<1>6. Erased \in InodeType /\ Erased.zone = 0 /\ Erased.mode = "none"
  BY BitsAssumption, ZonesAssumption DEF Erased, Inode, InodeType, Zones
<1>7. /\ erased \in Disk /\ erased.zmap = freed.zmap /\ erased.zone = freed.zone
      /\ erased.inode[n] = Erased
      /\ \A m \in 1 .. BITS : m # n => erased.inode[m] = freed.inode[m]
  BY <1>2, <1>3, <1>6, SetInodeFacts
<1> HIDE DEF erased
<1>8. Typed(erased)
  BY <1>2, <1>3, <1>7 DEF Typed
<1>9. /\ e \in Disk /\ e.zmap = freed.zmap /\ e.zone = d.zone /\ e.inode = erased.inode
  BY <1>3, <1>7, ClearBitFacts
<1> HIDE DEF e
<1>10. Typed(e)
  BY <1>3, <1>7, <1>8, <1>9 DEF Typed
<1>11. Owned(e)
  <2> HIDE DEF z
  <2>1. 0 \in e.zmap
    BY <1>2, <1>3, <1>9 DEF Owned
  <2>2. ASSUME NEW m \in 1 .. BITS
        PROVE  /\ e.inode[m].zone # 0 => e.inode[m].zone \in e.zmap
               /\ e.inode[m].mode = "dir" => e.inode[m].zone # 0
    <3>1. CASE m = n
      BY <1>6, <1>7, <1>9, <3>1
    <3>2. CASE m # n
      BY <1>2, <1>3, <1>4, <1>7, <1>9, <3>2 DEF Owned
    <3> QED BY <3>1, <3>2
  <2>3. ASSUME NEW m \in 1 .. BITS, NEW k \in 1 .. BITS, e.inode[m].zone # 0, m # k
        PROVE  e.inode[m].zone # e.inode[k].zone
    BY <1>2, <1>3, <1>6, <1>7, <1>9, <2>3 DEF Owned
  <2> QED BY <2>1, <2>2, <2>3 DEF Owned
<1>12. freed \in TypedDisks /\ erased \in TypedDisks /\ e \in TypedDisks
  BY <1>3, <1>5, <1>7, <1>8, <1>9, <1>10 DEF TypedDisks
<1>13. steps \in Seq(TypedDisks) /\ Len(steps) <= 3 /\ Last(steps) = e
  <2> HIDE DEF steps, z
  <2> DEFINE head == IF z = 0 THEN <<>> ELSE <<freed>>
             tail == <<erased, e>>
  <2>1. head \in Seq(TypedDisks) /\ Len(head) \in 0 .. 1
    BY <1>12, Tuples
  <2>2. tail \in Seq(TypedDisks) /\ Len(tail) = 2 /\ tail[2] = e
    BY <1>12, Tuples
  <2> HIDE DEF head, tail
  <2>3. /\ head \o tail \in Seq(TypedDisks) /\ Len(head \o tail) = Len(head) + 2
        /\ \A k \in 1 .. Len(head) + 2 : (head \o tail)[k] =
             IF k <= Len(head) THEN head[k] ELSE tail[k - Len(head)]
    <3>1. /\ head \o tail \in Seq(TypedDisks) /\ Len(head \o tail) = Len(head) + Len(tail)
          /\ \A k \in 1 .. Len(head) + Len(tail) : (head \o tail)[k] =
               IF k <= Len(head) THEN head[k] ELSE tail[k - Len(head)]
      BY <2>1, <2>2, ConcatProperties, Zenon
    <3> QED BY <2>2, <3>1, Zenon
  <2> DEFINE l == Len(head)
  <2>4. l + 2 \in 1 .. l + 2 /\ ~(l + 2 <= l) /\ (l + 2) - l = 2 /\ l + 2 <= 3
    <3> HIDE DEF l
    <3>1. l \in 0 .. 1
      BY <2>1 DEF l
    <3> QED BY <3>1
  <2>5. (head \o tail)[l + 2] = e
    <3>1. \A k \in 1 .. l + 2 : (head \o tail)[k] = IF k <= l THEN head[k] ELSE tail[k - l]
      BY <2>3
    <3> HIDE DEF l
    <3>2. (head \o tail)[l + 2] = tail[2]
      BY <2>4, <3>1
    <3> QED BY <2>2, <3>2
  <2>6. steps = head \o tail
    BY <1>1 DEF head, tail
  <2> QED BY <2>3, <2>4, <2>5, <2>6 DEF Last
<1> QED BY <1>3, <1>7, <1>9, <1>10, <1>11, <1>13

(* What a deletion ends with: the entry in slot i is free. *)
LEMMA UnlinkedFacts ==
  ASSUME ~Undeleted, NEW d, Steady(d), NEW n \in 2 .. BITS, NEW z \in Zones, NEW i \in Slots
  PROVE  LET steps == Erase(d, n)
             w == Unlink(Last(steps), z, i)
             writes == Append(steps, w)
         IN  /\ writes \in Seq(TypedDisks) /\ Len(writes) <= 4 /\ Last(writes) = w
             /\ Steady(w) /\ w.inode[n].mode = "none"
             /\ \A m \in 1 .. BITS : m # n => w.inode[m] = d.inode[m]
             /\ w.zone[z][i] = Free
             /\ \A y \in Zones, j \in Slots : y # z \/ j # i => w.zone[y][j] = d.zone[y][j]
<1> DEFINE steps == Erase(d, n)
           e == Last(steps)
           w == Unlink(e, z, i)
           writes == Append(steps, w)
<1>1. /\ steps \in Seq(TypedDisks) /\ Len(steps) <= 3
      /\ e \in Disk /\ Typed(e) /\ Owned(e) /\ e.zone = d.zone
      /\ e.inode[n] = Erased
      /\ \A m \in 1 .. BITS : m # n => e.inode[m] = d.inode[m]
  BY EraseFacts
<1> HIDE DEF steps, e
<1>2. Steady(e)
  BY <1>1 DEF Steady
<1>3. Steady(w) /\ w \in Disk
  BY <1>2, UnlinkKeeps
<1>4. /\ w.inode = e.inode /\ w.zone[z][i] = Free
      /\ \A j \in Slots : j # i => w.zone[z][j] = e.zone[z][j]
      /\ \A y \in Zones : y # z => w.zone[y] = e.zone[y]
  BY <1>1, FreeIsASlot, SetSlotFacts DEF Unlink
<1> HIDE DEF w
<1>5. w \in TypedDisks
  BY <1>3 DEF TypedDisks, Steady
<1>6. /\ writes \in Seq(TypedDisks) /\ Len(writes) = Len(steps) + 1
      /\ writes[Len(steps) + 1] = w
  BY <1>1, <1>5, AppendProperties
<1>7. Len(writes) <= 4 /\ Last(writes) = w
  <2> DEFINE l == Len(steps)
  <2>1. l \in Nat /\ l <= 3
    BY <1>1, LenProperties
  <2> HIDE DEF l, writes
  <2>2. l + 1 <= 4
    BY <2>1
  <2> QED BY <1>6, <2>2 DEF l, Last
<1>8. w.inode[n].mode = "none"
  BY <1>1, <1>4 DEF Erased, Inode
<1> QED BY <1>1, <1>3, <1>4, <1>6, <1>7, <1>8 DEF w, e, steps

LEMMA DeleteFileSteps ==
  ASSUME ~Undeleted, NEW d, Steady(d), NEW path \in Seq(Names) \ {<<>>}
  PROVE  LET writes == DeleteFile(d, path).writes
         IN  writes # <<>> =>
               /\ writes \in Seq(TypedDisks) /\ Len(writes) <= 4 /\ Steady(Last(writes))
               /\ FindEntry(Last(writes), path) = 0
<1> DEFINE z == DirZone(d, path)
           i == EntryOf(d.zone[z], Last(path))
           n == d.zone[z][i].inode
           steps == Erase(d, n)
           w == Unlink(Last(steps), z, i)
           c == DeleteFile(d, path)
<1>1. c = IF z = NONE THEN Fails(ENOENT)
          ELSE IF Last(path) \in {".", ".."} THEN Fails(EACCES)
          ELSE IF i = NONE THEN Fails(ENOENT)
          ELSE [ret |-> 0, writes |-> Append(steps, w)]
  BY DEF DeleteFile
<1> SUFFICES ASSUME c.writes # <<>>
             PROVE  /\ c.writes \in Seq(TypedDisks) /\ Len(c.writes) <= 4
                    /\ Steady(Last(c.writes)) /\ FindEntry(Last(c.writes), path) = 0
  OBVIOUS
<1>2. z # NONE /\ i # NONE /\ c.writes = Append(steps, w)
  <2> HIDE DEF c, z, i, steps, w
  <2> QED BY <1>1 DEF Fails
<1> HIDE DEF c
<1>3. d \in Disk /\ Typed(d)
  BY SMTT(30) DEF Steady, Typed
<1>4. /\ z \in Zones /\ Last(path) \in Names /\ Tidy(d.zone[z])
  BY <1>2, <1>3, DirZoneFacts DEF Typed
<1>5. /\ i \in Slots /\ IsEntry(d.zone[z][i]) /\ n \in 2 .. BITS
      /\ d.zone[z][i].name = Last(path)
  <2>1. i \in Slots /\ d.zone[z][i].inode # 0 /\ d.zone[z][i].name = Last(path)
    BY <1>2, EntryOfFacts
  <2> HIDE DEF i
  <2> QED BY <1>4, <2>1, SMTT(30) DEF Tidy, IsEntry
<1> HIDE DEF z, i, n
<1>6. /\ c.writes \in Seq(TypedDisks) /\ Len(c.writes) <= 4 /\ Last(c.writes) = w
      /\ Steady(w) /\ w.inode[n].mode = "none"
      /\ \A m \in 1 .. BITS : m # n => w.inode[m] = d.inode[m]
      /\ w.zone[z][i] = Free
      /\ \A y \in Zones, j \in Slots : y # z \/ j # i => w.zone[y][j] = d.zone[y][j]
  BY <1>2, <1>4, <1>5, UnlinkedFacts, SMTT(30)
<1> HIDE DEF w, steps
<1>7. Typed(w) /\ \A y \in Zones : Tidy(w.zone[y]) /\ Tidy(d.zone[y])
  BY <1>3, <1>6 DEF Steady, Typed
<1>8. ASSUME NEW y \in Zones, NEW j \in Slots, IsEntry(w.zone[y][j])
      PROVE  w.zone[y][j] = d.zone[y][j] /\ (y # z \/ j # i)
  BY <1>6, <1>8, FreeIsASlot
<1>9. CASE DirZone(w, path) = NONE
  BY <1>6, <1>9 DEF FindEntry
<1>10. CASE DirZone(w, path) # NONE
  <2>1. ASSUME NEW y \in Places(w), NEW name \in Names, Descend(w, y, name) # NONE
        PROVE  Descend(d, y, name) = Descend(w, y, name)
    <3> DEFINE m == Lookup(w.zone[y], name)
    <3>1. y # NONE /\ y \in Zones /\ m # 0 /\ w.inode[m].mode = "dir"
      BY <2>1 DEF Descend, Places
    <3>2. m \in 2 .. BITS /\ m \in 1 .. BITS
      <4>1. m \in 2 .. BITS
        BY <1>7, <3>1, LookupFacts
      <4> QED BY <4>1
    <3>3. PICK j \in Slots : /\ IsEntry(w.zone[y][j]) /\ w.zone[y][j].name = name
                             /\ w.zone[y][j].inode = m
      BY <1>7, <3>1, LookupFacts
    <3> HIDE DEF m
    <3>4. IsEntry(d.zone[y][j]) /\ d.zone[y][j].name = name /\ d.zone[y][j].inode = m
      BY <1>8, <3>1, <3>3
    <3>5. Lookup(d.zone[y], name) = m
      BY <1>7, <3>1, <3>4, LookupFacts
    <3>6. w.inode[m] = d.inode[m]
      BY <1>6, <3>1, <3>2
    <3> QED BY <3>1, <3>5, <3>6 DEF Descend, m
  <2>2. DirZone(w, path) = z
    BY <1>3, <1>7, <1>10, <2>1, SameWalk DEF z
  <2>3. ASSUME Lookup(w.zone[z], Last(path)) # 0 PROVE FALSE
    <3>1. PICK j \in Slots : IsEntry(w.zone[z][j]) /\ w.zone[z][j].name = Last(path)
      BY <1>4, <1>7, <2>3, LookupFacts
    <3>2. j # i /\ IsEntry(d.zone[z][j]) /\ d.zone[z][j].name = Last(path)
      BY <1>4, <1>8, <3>1
    <3> QED BY <1>4, <1>5, <3>2 DEF Tidy
  <2> QED BY <1>6, <2>2, <2>3 DEF FindEntry
<1> QED BY <1>6, <1>9, <1>10

LEMMA DeleteDirSteps ==
  ASSUME ~Undeleted, NEW d, Steady(d), NEW path \in Seq(Names) \ {<<>>}
  PROVE  LET writes == DeleteDir(d, path).writes
         IN  writes # <<>> =>
               writes \in Seq(TypedDisks) /\ Len(writes) <= 4 /\ Steady(Last(writes))
<1> DEFINE z == DirZone(d, path)
           n == FindEntry(d, path)
           steps == Erase(d, n)
           S == {s \in Slots : Last(steps).zone[z][s].inode = n}
           i == First(S)
           w == Unlink(Last(steps), z, i)
           c == DeleteDir(d, path)
<1>1. c = IF z = NONE THEN Fails(ENOENT)
          ELSE IF Last(path) \in {".", ".."} THEN Fails(EPERM)
          ELSE IF n = 0 THEN Fails(ENOENT)
          ELSE IF d.inode[n].mode # "dir" THEN Fails(ENOTDIR)
          ELSE IF d.inode[n].size > 2 THEN Fails(EPERM)
          ELSE [ret |-> 0, writes |-> Append(steps, w)]
  BY DEF DeleteDir
<1> SUFFICES ASSUME c.writes # <<>>
             PROVE  /\ c.writes \in Seq(TypedDisks) /\ Len(c.writes) <= 4
                    /\ Steady(Last(c.writes))
  OBVIOUS
<1>2. z # NONE /\ n # 0 /\ c.writes = Append(steps, w)
  <2> HIDE DEF c, z, n, steps, w
  <2> QED BY <1>1 DEF Fails
<1> HIDE DEF c
<1>3. d \in Disk /\ Typed(d)
  BY DEF Steady, Typed
<1>4. /\ z \in Zones /\ Last(path) \in Names /\ Tidy(d.zone[z]) /\ n \in 2 .. BITS
      /\ n = Lookup(d.zone[z], Last(path))
  BY <1>2, <1>3, DirZoneFacts, SMTT(30) DEF Typed
<1>5. PICK j \in Slots : d.zone[z][j].inode = n
  BY <1>2, <1>4, LookupFacts
<1> HIDE DEF z, n
<1>6. Last(steps).zone = d.zone
  BY <1>4, EraseFacts
<1>7. i \in Slots
  <2>1. j \in S /\ S \subseteq 0 .. SLOTS - 1
    BY <1>5, <1>6, SlotsBounded
  <2> HIDE DEF S
  <2>2. i \in S
    BY <2>1, SlotsBounded, FirstFacts
  <2> QED BY <2>2 DEF S
<1> HIDE DEF i
<1>8. c.writes \in Seq(TypedDisks) /\ Len(c.writes) <= 4 /\ Last(c.writes) = w /\ Steady(w)
  BY <1>2, <1>4, <1>7, UnlinkedFacts
<1> QED BY <1>8

-----------------------------------------------------------------------------
(* The inductive invariant *)

(* What the operation under way leads to. *)
Final == IF todo = <<>> THEN disk ELSE Last(todo)

(* Every disk that an operation leads through is steady; a deletion's are   *)
(* only typed until its last, on which the file it deletes is gone.         *)
IInv ==
  /\ up \in BOOLEAN /\ call.op \in Operations \cup {"none"} /\ Len(todo) <= 6
  /\ call = Idle => todo = <<>>
  /\ call.op \in Deletions =>
       disk \in TypedDisks /\ todo \in Seq(TypedDisks) /\ Steady(Final)
  /\ call.op \notin Deletions => disk \in SteadyDisks /\ todo \in Seq(SteadyDisks)
  /\ call.op = "DeleteFile" => FindEntry(Final, call.paths[1]) = 0

LEMMA InitInv == ASSUME WellNamed, Cared PROVE Init => IInv
<1> SUFFICES ASSUME Init PROVE IInv
  OBVIOUS
<1>1. /\ ROOT \in 1 .. BITS /\ ROOT_ZONE \in Zones /\ ROOT_ZONE # 0 /\ 0 \in Zones
      /\ ROOT \in 0 .. BITS + 1 /\ BITS + 1 \in 0 .. BITS + 1
  BY BitsAssumption, ZonesAssumption DEF ROOT, Zones
<1>2. /\ disk.imap = Super /\ disk.zmap = ZonesTaken
      /\ disk.inode = [n \in 1 .. BITS |->
                         IF n = ROOT THEN Inode("dir", 2, ROOT_ZONE) ELSE Erased]
      /\ disk = [imap |-> disk.imap, zmap |-> disk.zmap, inode |-> disk.inode,
                 zone |-> disk.zone]
      /\ disk.zone = [z \in Zones |->
                        IF z \in MetaZones THEN Metadata
                        ELSE [i \in Slots |->
                                CASE z = ROOT_ZONE /\ i = 0 -> Slot(ROOT, ".")
                                  [] z = ROOT_ZONE /\ i = 1 -> Slot(ROOT, "..")
                                  [] OTHER                  -> Free]]
  BY DEF Init
<1>3. ASSUME NEW z \in Zones, NEW i \in Slots
      PROVE  disk.zone[z][i] \in SlotType /\ ~IsEntry(disk.zone[z][i])
  <2>1. /\ Slot(ROOT, ".") \in SlotType /\ ~IsEntry(Slot(ROOT, "."))
        /\ Slot(ROOT, "..") \in SlotType /\ ~IsEntry(Slot(ROOT, ".."))
        /\ Bytes("metadata") \in SlotType /\ ~IsEntry(Bytes("metadata"))
    <3>1. "." \in OtherNames /\ ".." \in OtherNames /\ "metadata" \in OtherNames
      BY DEF OtherNames
    <3> QED BY <1>1, <3>1, OtherIsNoEntry, BytesAreNoEntry
  <2>2. CASE z \in MetaZones
    <3>1. disk.zone[z][i] = Bytes("metadata")
      BY <1>2, <2>2 DEF Metadata
    <3> QED BY <2>1, <3>1
  <2>3. CASE z \notin MetaZones
    <3>1. disk.zone[z][i] = CASE z = ROOT_ZONE /\ i = 0 -> Slot(ROOT, ".")
                              [] z = ROOT_ZONE /\ i = 1 -> Slot(ROOT, "..")
                              [] OTHER                  -> Free
      BY <1>2, <2>3
    <3>2. CASE z = ROOT_ZONE /\ i = 0
      BY <2>1, <3>1, <3>2
    <3>3. CASE z = ROOT_ZONE /\ i = 1
      BY <2>1, <3>1, <3>3
    <3>4. CASE ~(z = ROOT_ZONE /\ i = 0) /\ ~(z = ROOT_ZONE /\ i = 1)
      <4>1. disk.zone[z][i] = Free
        BY <3>1, <3>4
      <4> QED BY <4>1, FreeIsASlot
    <3> QED BY <3>2, <3>3, <3>4
  <2> QED BY <2>2, <2>3
<1>4. disk.zone \in [Zones -> Sector]
  <2>1. ASSUME NEW z \in Zones PROVE disk.zone[z] = [i \in Slots |-> disk.zone[z][i]]
    <3>1. CASE z \in MetaZones
      BY <1>2, <3>1 DEF Metadata
    <3>2. CASE z \notin MetaZones
      BY <1>2, <3>2
    <3> QED BY <3>1, <3>2
  <2>2. \A z \in Zones : disk.zone[z] \in Sector
    BY <1>3, <2>1 DEF Sector
  <2>3. disk.zone = [z \in Zones |-> disk.zone[z]]
    BY <1>2, Zenon
  <2> QED BY <2>2, <2>3
<1>5. /\ Erased \in InodeType /\ Erased.zone = 0 /\ Erased.mode = "none"
      /\ Inode("dir", 2, ROOT_ZONE) \in InodeType
      /\ Inode("dir", 2, ROOT_ZONE).zone = ROOT_ZONE
  BY BitsAssumption, <1>1 DEF Erased, Inode, InodeType
<1>6. /\ disk.inode \in [1 .. BITS -> InodeType]
      /\ disk.inode[ROOT] = Inode("dir", 2, ROOT_ZONE)
      /\ \A n \in 1 .. BITS : n # ROOT => disk.inode[n] = Erased
  BY <1>1, <1>2, <1>5
<1>7. disk.imap \in SUBSET Bits /\ disk.zmap \in SUBSET Zones /\ 0 \in disk.zmap
      /\ ROOT_ZONE \in disk.zmap
  BY <1>2, BitsAssumption, ZonesAssumption DEF Bits, Zones, Cared
<1>8. disk \in Disk
  BY <1>2, <1>4, <1>6, <1>7 DEF Disk
<1>9. Typed(disk)
  BY <1>3, <1>6, <1>8 DEF Typed, Tidy
<1>10. Owned(disk)
  BY <1>1, <1>5, <1>6, <1>7 DEF Owned
<1>11. Backed(disk)
  <2>1. \A n \in 2 .. BITS : n \in 1 .. BITS /\ n # ROOT
    BY DEF ROOT
  <2> QED BY <1>3, <1>5, <1>6, <2>1 DEF Backed
<1>12. disk \in SteadyDisks
  BY <1>8, <1>9, <1>10, <1>11 DEF SteadyDisks, Steady
<1>13. call = Idle /\ todo = <<>> /\ up = TRUE /\ call.op = "none"
  BY DEF Init, Idle
<1>14. <<>> \in Seq(SteadyDisks) /\ Len(<<>>) <= 6
  BY Tuples
<1> QED BY <1>12, <1>13, <1>14 DEF IInv, Deletions

(* A call begins. *)
LEMMA CallKeeps ==
  ASSUME IInv, NEW op, NEW paths, NEW input, NEW outcome,
         Call(op, paths, input, outcome), op # "none",
         op \in Deletions =>
           /\ outcome.writes \in Seq(TypedDisks) /\ Len(outcome.writes) <= 4
           /\ Steady(Last(outcome.writes)),
         op = "DeleteFile" => FindEntry(Last(outcome.writes), paths[1]) = 0,
         op \notin Deletions =>
           outcome.writes \in Seq(SteadyDisks) /\ Len(outcome.writes) <= 6
  PROVE  IInv'
<1>1. /\ call = Idle /\ op \in Operations /\ todo' = outcome.writes /\ todo' # <<>>
      /\ disk' = disk /\ up' = up /\ call'.op = op /\ call'.paths = paths
  BY DEF Call
<1>2. call' # Idle
  BY <1>1 DEF Idle
<1>3. disk \in SteadyDisks /\ up \in BOOLEAN
  BY <1>1 DEF IInv, Idle, Deletions
<1>4. disk \in TypedDisks
  BY <1>3 DEF SteadyDisks, TypedDisks, Steady
<1>5. Final' = Last(outcome.writes)
  BY <1>1 DEF Final
<1>6. Len(todo') <= 6
  <2>1. CASE op \in Deletions
    <3>1. Len(outcome.writes) \in Nat /\ Len(outcome.writes) <= 4
      BY <2>1, LenProperties
    <3> QED BY <1>1, <3>1
  <2>2. CASE op \notin Deletions
    BY <1>1, <2>2
  <2> QED BY <2>1, <2>2
<1>7. call'.op \in Deletions =>
        disk' \in TypedDisks /\ todo' \in Seq(TypedDisks) /\ Steady(Final')
  BY <1>1, <1>4, <1>5
<1>8. call'.op \notin Deletions => disk' \in SteadyDisks /\ todo' \in Seq(SteadyDisks)
  BY <1>1, <1>3
<1>9. call'.op = "DeleteFile" => FindEntry(Final', call'.paths[1]) = 0
  BY <1>1, <1>5
<1> QED BY <1>1, <1>2, <1>3, <1>6, <1>7, <1>8, <1>9 DEF IInv

LEMMA FirstWritten ==
  ASSUME NEW S, NEW s \in Seq(S), s # <<>>
  PROVE  /\ Head(s) \in S /\ Tail(s) \in Seq(S) /\ Len(Tail(s)) <= Len(s)
         /\ Last(s) = IF Tail(s) = <<>> THEN Head(s) ELSE Last(Tail(s))
         /\ Head(s) = s[1] /\ 1 \in 1 .. Len(s)
         /\ \A k \in 1 .. Len(Tail(s)) : k + 1 \in 1 .. Len(s) /\ Tail(s)[k] = s[k + 1]
<1>1. /\ Len(s) \in Nat /\ Len(s) # 0 /\ \A k \in 1 .. Len(s) : s[k] \in S
  BY LenProperties, EmptySeq
<1>2. /\ Head(s) = s[1] /\ Tail(s) \in Seq(S) /\ Len(Tail(s)) = Len(s) - 1
      /\ \A k \in 1 .. Len(Tail(s)) : Tail(s)[k] = s[k + 1]
  BY HeadTailProperties
<1>3. Tail(s) = <<>> => Len(Tail(s)) = 0
  BY <1>2, EmptySeq
<1>4. Tail(s) # <<>> => Len(Tail(s)) # 0
  BY <1>2, EmptySeq
<1> DEFINE l == Len(s)
           t == Tail(s)
           m == Len(t)
<1>5. l \in Nat /\ l # 0 /\ m = l - 1
  BY <1>1, <1>2
<1>6. Head(s) = s[1] /\ (\A k \in 1 .. m : t[k] = s[k + 1])
      /\ (t = <<>> => m = 0) /\ (t # <<>> => m # 0)
  BY <1>2, <1>3, <1>4
<1> HIDE DEF l, t, m
<1>7. (IF t = <<>> THEN Head(s) ELSE t[m]) = s[l] /\ m <= l /\ 1 \in 1 .. l
  BY <1>5, <1>6
<1>8. \A k \in 1 .. m : k + 1 \in 1 .. l
  BY <1>5
<1> QED BY <1>1, <1>2, <1>7, <1>8 DEF l, t, m, Last

LEMMA StepInv == ASSUME WellNamed, Cared PROVE IInv /\ [Next]_vars => IInv'
<1> SUFFICES ASSUME IInv, [Next]_vars PROVE IInv'
  OBVIOUS
<1>1. /\ Paths \subseteq Seq(Names) \ {<<>>} /\ Counts \subseteq Nat
      /\ Deletable \subseteq Paths
  BY DEF WellNamed, Deletable
<1>2. call = Idle => Steady(disk)
  BY DEF IInv, Idle, Deletions, SteadyDisks
<1>3. /\ "CreateFile" \notin Deletions /\ "CreateDir" \notin Deletions
      /\ "Rename" \notin Deletions /\ "CopyFile" \notin Deletions
      /\ "WriteFile" \notin Deletions
      /\ "DeleteFile" \in Deletions /\ "DeleteDir" \in Deletions
  BY DEF Deletions
<1>4. CASE CallCreateFile
  <2>1. PICK p \in Paths : Call("CreateFile", <<p>>, <<>>, CreateFile(disk, p))
    BY <1>4 DEF CallCreateFile
  <2>2. Steady(disk)
    BY <1>2, <2>1 DEF Call
  <2>3. /\ CreateFile(disk, p).writes \in Seq(SteadyDisks)
        /\ Len(CreateFile(disk, p).writes) <= 3
    BY <1>1, <2>2, CreateFileSteps
  <2>4. Len(CreateFile(disk, p).writes) <= 6
    BY <2>3, LenProperties
  <2> QED BY <1>3, <2>1, <2>3, <2>4, CallKeeps
<1>5. CASE CallCreateDir
  <2>1. PICK p \in Paths : Call("CreateDir", <<p>>, <<>>, CreateDir(disk, p))
    BY <1>5 DEF CallCreateDir
  <2>2. Steady(disk)
    BY <1>2, <2>1 DEF Call
  <2>3. /\ CreateDir(disk, p).writes \in Seq(SteadyDisks)
        /\ Len(CreateDir(disk, p).writes) <= 5
    BY <1>1, <2>2, CreateDirSteps
  <2>4. Len(CreateDir(disk, p).writes) <= 6
    BY <2>3, LenProperties
  <2> QED BY <1>3, <2>1, <2>3, <2>4, CallKeeps
<1>6. CASE CallDeleteFile
  <2>1. PICK p \in Deletable : Call("DeleteFile", <<p>>, <<>>, DeleteFile(disk, p))
    BY <1>6 DEF CallDeleteFile
  <2>2. /\ Steady(disk) /\ ~Undeleted /\ DeleteFile(disk, p).writes # <<>>
        /\ p \in Seq(Names) \ {<<>>} /\ <<p>>[1] = p
    BY <1>1, <1>2, <1>3, <2>1 DEF Call, Undeleted
  <2>3. /\ DeleteFile(disk, p).writes \in Seq(TypedDisks)
        /\ Len(DeleteFile(disk, p).writes) <= 4 /\ Steady(Last(DeleteFile(disk, p).writes))
        /\ FindEntry(Last(DeleteFile(disk, p).writes), p) = 0
    BY <2>2, DeleteFileSteps
  <2> QED BY <1>3, <2>1, <2>2, <2>3, CallKeeps
<1>7. CASE CallDeleteDir
  <2>1. PICK p \in Deletable : Call("DeleteDir", <<p>>, <<>>, DeleteDir(disk, p))
    BY <1>7 DEF CallDeleteDir
  <2>2. /\ Steady(disk) /\ ~Undeleted /\ DeleteDir(disk, p).writes # <<>>
        /\ p \in Seq(Names) \ {<<>>}
    BY <1>1, <1>2, <1>3, <2>1 DEF Call, Undeleted
  <2>3. /\ DeleteDir(disk, p).writes \in Seq(TypedDisks)
        /\ Len(DeleteDir(disk, p).writes) <= 4 /\ Steady(Last(DeleteDir(disk, p).writes))
    BY <2>2, DeleteDirSteps
  <2> QED BY <1>3, <2>1, <2>2, <2>3, CallKeeps
<1>8. CASE CallRename
  <2>1. PICK p \in Paths, q \in Paths : Call("Rename", <<p, q>>, <<>>, Rename(disk, p, q))
    BY <1>8 DEF CallRename
  <2>2. Steady(disk)
    BY <1>2, <2>1 DEF Call
  <2>3. /\ Rename(disk, p, q).writes \in Seq(SteadyDisks)
        /\ Len(Rename(disk, p, q).writes) <= 2
    BY <1>1, <2>2, RenameSteps
  <2>4. Len(Rename(disk, p, q).writes) <= 6
    BY <2>3, LenProperties
  <2> QED BY <1>3, <2>1, <2>3, <2>4, CallKeeps
<1>9. CASE CallCopyFile
  <2>1. PICK p \in Paths, q \in Paths : Call("CopyFile", <<p, q>>, <<>>, CopyFile(disk, p, q))
    BY <1>9 DEF CallCopyFile
  <2>2. Steady(disk)
    BY <1>2, <2>1 DEF Call
  <2>3. /\ CopyFile(disk, p, q).writes \in Seq(SteadyDisks)
        /\ Len(CopyFile(disk, p, q).writes) <= 6
    BY <1>1, <2>2, CopyFileSteps
  <2> QED BY <1>3, <2>1, <2>3, CallKeeps
<1>10. CASE CallWriteFile
  <2>1. PICK p \in Paths, data \in Data, count \in Counts :
          Call("WriteFile", <<p>>, <<data, count>>,
               WriteFile(disk, p, [i \in Slots |-> Bytes(data)], count))
    BY <1>10 DEF CallWriteFile
  <2> DEFINE input == [i \in Slots |-> Bytes(data)]
             c == WriteFile(disk, p, input, count)
  <2>2. Steady(disk)
    BY <1>2, <2>1 DEF Call
  <2>3. \A i \in Slots : input[i] \in SlotType /\ ~IsEntry(input[i])
    <3>1. data \in OtherNames
      BY DEF OtherNames
    <3> QED BY <3>1, BytesAreNoEntry
  <2>4. input \in Sector /\ Tidy(input)
    BY <2>3 DEF Sector, Tidy
  <2>5. Call("WriteFile", <<p>>, <<data, count>>, c)
    BY <2>1
  <2> HIDE DEF input
  <2>6. c.writes \in Seq(SteadyDisks) /\ Len(c.writes) <= 3
    BY <1>1, <2>2, <2>3, <2>4, WriteFileSteps
  <2> HIDE DEF c
  <2>7. Len(c.writes) <= 6
    BY <2>6, LenProperties
  <2> QED BY <1>3, <2>5, <2>6, <2>7, CallKeeps
<1>11. CASE WriteSector
  <2>1. /\ todo # <<>> /\ disk' = Head(todo) /\ todo' = Tail(todo)
        /\ call' = call /\ up' = up
    BY <1>11 DEF WriteSector
  <2>2. ASSUME NEW S, todo \in Seq(S)
        PROVE  /\ Head(todo) \in S /\ Tail(todo) \in Seq(S) /\ Len(Tail(todo)) <= Len(todo)
               /\ Last(todo) = IF Tail(todo) = <<>> THEN Head(todo) ELSE Last(Tail(todo))
    BY <2>1, <2>2, FirstWritten
  <2>3. call.op \in Deletions =>
          disk' \in TypedDisks /\ todo' \in Seq(TypedDisks) /\ Len(todo') <= Len(todo)
          /\ Len(todo') \in Nat /\ Len(todo) \in Nat /\ Final' = Final
    BY <2>1, <2>2, LenProperties DEF IInv, Final
  <2>4. call.op \notin Deletions =>
          disk' \in SteadyDisks /\ todo' \in Seq(SteadyDisks) /\ Len(todo') <= Len(todo)
          /\ Len(todo') \in Nat /\ Len(todo) \in Nat
    BY <2>1, <2>2, LenProperties DEF IInv, Final
  <2>5. Len(todo') <= 6 /\ (call' = Idle => todo' = <<>>)
    BY <2>1, <2>3, <2>4 DEF IInv
  <2>6. call'.op = "DeleteFile" => Final' = Final
    BY <1>3, <2>1, <2>3
  <2> QED BY <2>1, <2>3, <2>4, <2>5, <2>6 DEF IInv
<1>12. CASE Return
  <2>1. todo = <<>> /\ todo' = todo /\ disk' = disk /\ up' = up /\ call' = Idle
    BY <1>12 DEF Return
  <2>2. Steady(disk) /\ disk \in Disk
    BY <2>1 DEF IInv, Final, SteadyDisks, TypedDisks
  <2>3. call'.op = "none" /\ call'.op \notin Deletions
    BY <2>1 DEF Idle, Deletions
  <2>4. <<>> \in Seq(SteadyDisks) /\ Len(<<>>) <= 6
    BY Tuples
  <2> QED BY <2>1, <2>2, <2>3, <2>4 DEF IInv, SteadyDisks
<1>13. CASE Reset
  <2>1. /\ Resets /\ todo' = <<>> /\ disk' = disk /\ up' = Mounts(disk) /\ call' = Idle
    BY <1>13 DEF Reset
  <2>2. Operations \cap Deletions = {} /\ "none" \notin Deletions
    BY <2>1 DEF Cared, Deletions
  <2>3. disk \in SteadyDisks
    BY <2>2 DEF IInv
  <2>4. up' \in BOOLEAN
    BY <2>1 DEF Mounts
  <2>5. call'.op = "none" /\ call'.op \notin Deletions
    BY <2>1 DEF Idle, Deletions
  <2>6. <<>> \in Seq(SteadyDisks) /\ Len(<<>>) <= 6
    BY Tuples
  <2> QED BY <2>1, <2>3, <2>4, <2>5, <2>6 DEF IInv
<1>14. CASE UNCHANGED vars
  <2>1. /\ disk' = disk /\ call' = call /\ todo' = todo /\ up' = up
    BY <1>14 DEF vars
  <2> QED BY <2>1 DEF IInv, Final
<1> QED BY <1>4, <1>5, <1>6, <1>7, <1>8, <1>9, <1>10, <1>11, <1>12, <1>13, <1>14 DEF Next

-----------------------------------------------------------------------------
(* The directories that a walk from the root reaches are directories. *)
LEMMA DirectoriesFacts ==
  ASSUME Typed(disk)
  PROVE  \A z \in Directories : z \in Zones /\ IsDirectory(disk, z)
<1> DEFINE T == SUBSET {z \in Zones : IsDirectory(disk, z)}
           More(D) == {disk.inode[n].zone : n \in UNION {Subdirectories(z) : z \in D}}
           step == [k \in 1 .. BITS |-> [D \in T |-> D \cup More(D)]]
           Rec(f) == f = [k \in 0 .. BITS |-> IF k = 0 THEN {ROOT_ZONE}
                                              ELSE f[k - 1] \cup More(f[k - 1])]
           to == CHOOSE f : Rec(f)
<1>1. DirectoriesTo = to
  BY DEF DirectoriesTo
<1>2. BITS \in Nat
  BY BitsAssumption
<1>3. ROOT_ZONE \in Zones /\ IsDirectory(disk, ROOT_ZONE)
  BY RootIsDirectory, ZonesAssumption DEF Zones
<1>4. {ROOT_ZONE} \in T
  BY <1>3
<1>5. ASSUME NEW D \in T PROVE D \cup More(D) \in T
  <2>1. ASSUME NEW z \in D, NEW n \in Subdirectories(z)
        PROVE  disk.inode[n].zone \in Zones /\ IsDirectory(disk, disk.inode[n].zone)
    <3>1. n \in 1 .. BITS /\ disk.inode[n].mode = "dir"
      BY <2>1 DEF Subdirectories, Named
    <3>2. disk.inode[n] \in InodeType
      BY <3>1, DiskParts DEF Typed
    <3> QED BY <3>1, <3>2 DEF IsDirectory, InodeType
  <2> QED BY <2>1
<1> HIDE DEF T, More
<1>6. StepsOf(step, BITS, T)
  BY <1>5 DEF StepsOf
<1>7. \E f : Rec(f)
  <2> HIDE DEF step
  <2>1. PICK g : Follows(g, BITS, T, {ROOT_ZONE}, step)
    BY <1>2, <1>4, <1>6, BoundedRecursion
  <2>2. ASSUME NEW k \in 0 .. BITS, k # 0
        PROVE  step[k][g[k - 1]] = g[k - 1] \cup More(g[k - 1])
    <3>1. k \in 1 .. BITS /\ k - 1 \in 0 .. BITS
      BY <2>2, <1>2
    <3>2. g[k - 1] \in T
      BY <2>1, <3>1 DEF Follows
    <3> QED BY <3>1, <3>2 DEF step
  <2>3. \A k \in 0 .. BITS : g[k] = IF k = 0 THEN {ROOT_ZONE} ELSE g[k - 1] \cup More(g[k - 1])
    <3>1. \A k \in 0 .. BITS : k # 0 => k \in 1 .. BITS
      BY <1>2
    <3> QED BY <2>1, <2>2, <3>1 DEF Follows
  <2>4. Rec(g)
    BY <2>1, <2>3 DEF Follows
  <2> QED BY <2>4
<1>8. Rec(to)
  <2> HIDE DEF Rec
  <2> QED BY <1>7
<1> HIDE DEF to
<1> DEFINE S == {k \in 0 .. BITS : to[k] \in T}
<1>9. to[0] = {ROOT_ZONE} /\ 0 \in S
  BY <1>2, <1>4, <1>8
<1>10. ASSUME NEW k \in 0 .. BITS - 1, k \in S PROVE k + 1 \in S
  <2>1. k + 1 \in 0 .. BITS /\ (k + 1) - 1 = k /\ k + 1 # 0
    BY <1>2
  <2>2. to[k + 1] = to[k] \cup More(to[k])
    BY <1>8, <2>1
  <2> QED BY <1>5, <1>10, <2>1, <2>2
<1> HIDE DEF S
<1>11. BITS \in S
  <2>1. 0 .. BITS \subseteq S
    BY <1>2, <1>9, <1>10, BoundedInduction
  <2> QED BY <1>2, <2>1
<1> QED BY <1>1, <1>11 DEF S, T, Directories

LEMMA NamedAreEntries ==
  ASSUME NEW z, NEW i \in Named(z)
  PROVE  i \in Slots /\ IsEntry(disk.zone[z][i])
<1>1. i \in Slots /\ disk.zone[z][i].inode \in 1 .. BITS /\ disk.zone[z][i].name \in Names
  BY DEF Named
<1> QED BY <1>1 DEF IsEntry

LEMMA Invariant == ASSUME WellNamed, Cared PROVE Spec => []IInv
<1>1. Init => IInv
  BY InitInv
<1>2. IInv /\ [Next]_vars => IInv'
  BY StepInv
<1> QED BY <1>1, <1>2, PTL DEF Spec

LEMMA TypedAlways == IInv => disk \in Disk /\ Typed(disk)
  BY DEF IInv, TypedDisks, SteadyDisks, Steady

-----------------------------------------------------------------------------
(* TypeOK, on a disk as in Cared: whatever the workload, no size outgrows   *)
(* the one sector that ReadFile copies from, and no entry or inode has a    *)
(* number the disk has not.                                                 *)
THEOREM TypeOKHolds ==
  ASSUME WellNamed, Cared
  PROVE  Spec => []TypeOK
<1>1. ASSUME IInv PROVE TypeOK
  <2>1. disk \in Disk
    BY <1>1, TypedAlways
  <2>2. /\ disk.imap \subseteq Bits /\ disk.zmap \subseteq Zones
        /\ disk.inode \in [1 .. BITS -> [mode : {"none", "file", "dir"},
                                         size : 0 .. SLOTS, zone : Zones]]
        /\ disk.zone \in [Zones -> [Slots -> SlotType]]
    BY <2>1 DEF Disk, InodeType, Sector
  <2> QED BY <1>1, <2>2 DEF IInv, TypeOK
<1> QED BY <1>1, Invariant, PTL

(* NamesUnique, for a disk and resets as in Cared: no operation, and no     *)
(* sequence of them, enters a name twice in one directory, of those that a  *)
(* path can reach.                                                          *)
THEOREM NamesUniqueHolds ==
  ASSUME WellNamed, Cared
  PROVE  Spec => []NamesUnique
<1>1. ASSUME IInv PROVE NamesUnique
  <2>1. Typed(disk)
    BY <1>1, TypedAlways
  <2>2. ASSUME NEW z \in Directories, NEW i \in Named(z), NEW j \in Named(z), i # j
        PROVE  disk.zone[z][i].name # disk.zone[z][j].name
    <3>1. Tidy(disk.zone[z])
      BY <2>1, DirectoriesFacts DEF Typed
    <3> QED BY <2>2, <3>1, NamedAreEntries DEF Tidy
  <2> QED BY <2>2 DEF NamesUnique
<1> QED BY <1>1, Invariant, PTL

(* ZonesOwned, on a disk as in Cared: an inode's zone is marked and its     *)
(* own, at any moment but in the middle of a deletion.                      *)
THEOREM ZonesOwnedHolds ==
  ASSUME WellNamed, Cared
  PROVE  Spec => []ZonesOwned
<1>1. ASSUME IInv PROVE ZonesOwned
  <2>1. ASSUME call.op \notin {"DeleteFile", "DeleteDir"} PROVE Owned(disk)
    BY <1>1, <2>1 DEF IInv, Deletions, SteadyDisks, Steady
  <2> QED BY <2>1 DEF ZonesOwned, Owned
<1> QED BY <1>1, Invariant, PTL

(* EntriesBacked, on a disk as in Cared: as long as nothing is deleted, an  *)
(* entry's inode is allocated, formatted and its own, between any two       *)
(* writes, and so after a reset of the machine at any moment.               *)
THEOREM EntriesBackedHolds ==
  ASSUME WellNamed, Cared, Undeleted
  PROVE  Spec => []EntriesBacked
<1>1. ASSUME IInv PROVE EntriesBacked
  <2>1. Typed(disk) /\ Backed(disk)
    BY <1>1 DEF IInv, Undeleted, Deletions, SteadyDisks, Steady
  <2>2. ASSUME NEW e \in Entries
        PROVE  \E z \in Zones, i \in Slots :
                 /\ e = <<z, i>> /\ IsDirectory(disk, z) /\ IsEntry(disk.zone[z][i])
                 /\ InodeAt(e) = disk.zone[z][i].inode
    <3>1. PICK z \in Directories : \E i \in Named(z) : e = <<z, i>>
      BY DEF Entries
    <3>2. PICK i \in Named(z) : e = <<z, i>>
      BY <3>1
    <3> QED BY <2>1, <3>2, DirectoriesFacts, NamedAreEntries DEF InodeAt
  <2>3. ASSUME NEW e \in Entries
        PROVE  InodeAt(e) - 1 \in disk.imap /\ disk.inode[InodeAt(e)].mode # "none"
    <3>1. PICK z \in Zones, i \in Slots :
            /\ IsDirectory(disk, z) /\ IsEntry(disk.zone[z][i])
            /\ InodeAt(e) = disk.zone[z][i].inode
      BY <2>2
    <3>2. InodeAt(e) \in 2 .. BITS
      BY <2>1, <3>1 DEF Typed, Tidy
    <3> QED BY <2>1, <3>1, <3>2 DEF Backed
  <2>4. ASSUME NEW e \in Entries, NEW f \in Entries, InodeAt(e) = InodeAt(f) PROVE e = f
    BY <2>1, <2>2, <2>4 DEF Backed
  <2> QED BY <2>3, <2>4 DEF EntriesBacked
<1> QED BY <1>1, Invariant, PTL

(* DeletedIsGone, on a disk as in Cared: the path of a file that DeleteFile *)
(* reports deleted leads nowhere, whatever the calls before it have done.   *)
THEOREM DeletedIsGoneHolds ==
  ASSUME WellNamed, Cared
  PROVE  Spec => []DeletedIsGone
<1>1. ASSUME IInv PROVE DeletedIsGone
  BY <1>1 DEF IInv, DeletedIsGone, Succeeded, Final
<1> QED BY <1>1, Invariant, PTL

-----------------------------------------------------------------------------
(* One path to a place *)

LEMMA PathFacts ==
  ASSUME NEW path \in Seq(Names) \ {<<>>}
  PROVE  /\ Len(path) \in Nat \ {0} /\ Len(path) - 1 \in Nat
         /\ \A k \in 1 .. Len(path) : path[k] \in Names
         /\ Last(path) = path[Len(path)] /\ Last(path) \in Names
<1>1. Len(path) \in Nat /\ Len(path) # 0 /\ \A k \in 1 .. Len(path) : path[k] \in Names
  BY LenProperties, EmptySeq
<1>2. Len(path) - 1 \in Nat /\ Len(path) \in 1 .. Len(path)
  BY <1>1
<1> QED BY <1>1, <1>2 DEF Last

(* The sequence s is the first k names of t. *)
Starts(s, t, k) == Len(s) = k /\ \A l \in 1 .. k : s[l] = t[l]

LEMMA StartsIs ==
  ASSUME NEW s \in Seq(Names), NEW t \in Seq(Names), NEW k \in 0 .. Len(t), Starts(s, t, k)
  PROVE  IsPrefix(s, t) /\ (k = Len(t) => s = t) /\ (k < Len(t) => s # t)
<1>1. Len(s) = k /\ Len(t) \in Nat /\ k \in Nat /\ k <= Len(t) /\ \A l \in 1 .. k : s[l] = t[l]
  BY LenProperties DEF Starts
<1>2. ASSUME NEW u \in Seq(Names), Len(u) \in Nat, Len(u) >= k
      PROVE  /\ SubSeq(u, 1, k) \in Seq(Names) /\ Len(SubSeq(u, 1, k)) = k
             /\ \A l \in 1 .. k : SubSeq(u, 1, k)[l] = u[l]
  <2>1. 1 \in 1 .. Len(u) + 1 /\ k \in 0 .. Len(u)
    BY <1>1, <1>2
  <2>2. /\ SubSeq(u, 1, k) \in Seq(Names)
        /\ Len(SubSeq(u, 1, k)) = IF 1 <= k THEN k - 1 + 1 ELSE 0
        /\ \A l \in 1 .. k - 1 + 1 : SubSeq(u, 1, k)[l] = u[1 + l - 1]
    BY <2>1, SubSeqProperties
  <2> QED BY <1>1, <2>2
<1>3. SubSeq(s, 1, k) = SubSeq(t, 1, k)
  <2>1. \A l \in 1 .. k : SubSeq(s, 1, k)[l] = SubSeq(t, 1, k)[l]
    BY <1>1, <1>2
  <2> QED BY <1>1, <1>2, <2>1, SeqEqual
<1>4. k = Len(t) => s = t
  BY <1>1, SeqEqual
<1> QED BY <1>1, <1>3, <1>4 DEF IsPrefix

LEMMA PrefixStarts ==
  ASSUME NEW s \in Seq(Names), NEW t \in Seq(Names), IsPrefix(s, t)
  PROVE  Len(s) \in 0 .. Len(t) /\ Starts(s, t, Len(s))
<1>1. Len(s) \in Nat /\ Len(t) \in Nat /\ Len(s) <= Len(t)
      /\ SubSeq(s, 1, Len(s)) = SubSeq(t, 1, Len(s))
  BY LenProperties DEF IsPrefix
<1>2. ASSUME NEW u \in Seq(Names), Len(u) \in Nat, Len(s) <= Len(u), NEW l \in 1 .. Len(s)
      PROVE  SubSeq(u, 1, Len(s))[l] = u[l]
  <2>1. 1 \in 1 .. Len(u) + 1 /\ Len(s) \in 0 .. Len(u)
    BY <1>1, <1>2
  <2>2. \A j \in 1 .. Len(s) - 1 + 1 : SubSeq(u, 1, Len(s))[j] = u[1 + j - 1]
    BY <2>1, SubSeqProperties
  <2> QED BY <1>1, <2>2
<1>3. \A l \in 1 .. Len(s) : s[l] = t[l]
  BY <1>1, <1>2
<1> QED BY <1>1, <1>3 DEF Starts

(* One step of a walk: the entry it takes, and the directory it comes to.   *)
LEMMA DescendIs ==
  ASSUME NEW d, Typed(d), NEW z \in Places(d), NEW name \in Names,
         Descend(d, z, name) # NONE
  PROVE  LET m == Lookup(d.zone[z], name)
         IN  /\ z \in Zones /\ z # NONE /\ IsDirectory(d, z)
             /\ m \in 2 .. BITS /\ m \in 1 .. BITS /\ d.inode[m].mode = "dir"
             /\ d.inode[m].zone = Descend(d, z, name)
<1> DEFINE m == Lookup(d.zone[z], name)
<1>1. z # NONE /\ m # 0 /\ d.inode[m].mode = "dir" /\ d.inode[m].zone = Descend(d, z, name)
  BY DEF Descend
<1>2. z \in Zones /\ IsDirectory(d, z)
  BY <1>1 DEF Places
<1>3. m \in 2 .. BITS
  <2>1. Tidy(d.zone[z])
    BY <1>2 DEF Typed
  <2> QED BY <1>1, <2>1, LookupFacts
<1> HIDE DEF m
<1>4. m \in 1 .. BITS
  BY <1>3
<1> QED BY <1>1, <1>2, <1>3, <1>4 DEF m

(* A directory has one inode, and an inode one entry. *)
LEMMA OneEntry ==
  ASSUME Undeleted, NEW d, Steady(d),
         NEW y \in Zones, NEW z \in Zones, IsDirectory(d, y), IsDirectory(d, z),
         NEW a \in Names, NEW b \in Names,
         Lookup(d.zone[y], a) = Lookup(d.zone[z], b), Lookup(d.zone[y], a) # 0
  PROVE  y = z /\ a = b
<1>1. Tidy(d.zone[y]) /\ Tidy(d.zone[z])
  BY DEF Steady, Typed
<1>2. PICK i \in Slots : /\ IsEntry(d.zone[y][i]) /\ d.zone[y][i].name = a
                         /\ d.zone[y][i].inode = Lookup(d.zone[y], a)
  BY <1>1, LookupFacts
<1>3. PICK j \in Slots : /\ IsEntry(d.zone[z][j]) /\ d.zone[z][j].name = b
                         /\ d.zone[z][j].inode = Lookup(d.zone[z], b)
  BY <1>1, LookupFacts
<1>4. y = z /\ i = j
  <2>1. Backed(d)
    BY DEF Steady
  <2> QED BY <1>2, <1>3, <2>1 DEF Backed
<1> QED BY <1>2, <1>3, <1>4

LEMMA OneInode ==
  ASSUME NEW d, Steady(d), NEW m \in 1 .. BITS, NEW n \in 1 .. BITS,
         d.inode[m].mode = "dir" \/ d.inode[n].mode = "dir",
         d.inode[m].zone = d.inode[n].zone
  PROVE  m = n
  BY DEF Steady, Owned

LEMMA WalkEnds ==
  ASSUME NEW d, Steady(d), NEW path \in Seq(Names) \ {<<>>}, NEW at, IsWalk(at, d, path)
  PROVE  DirZone(d, path) = at[Len(path) - 1]
<1>1. Len(path) - 1 \in 0 .. Len(path) - 1
  BY PathFacts
<1>2. at[Len(path) - 1] \in Places(d)
  BY <1>1 DEF IsWalk
<1>3. at[Len(path) - 1] # 0
  <2>1. ASSUME NEW n \in 1 .. BITS, d.inode[n].mode = "dir" PROVE d.inode[n].zone # 0
    BY <2>1 DEF Steady, Owned
  <2> QED BY <1>2, <2>1 DEF Places, IsDirectory, NONE
<1> QED BY <1>3 DEF IsWalk

(* Where a walk is, and the entry it came by. *)
LEMMA WalkIsAt ==
  ASSUME NEW d, Steady(d), NEW path \in Seq(Names) \ {<<>>}, NEW at, IsWalk(at, d, path),
         NEW k \in 0 .. Len(path) - 1, at[k] # NONE
  PROVE  at[k] \in Zones /\ IsDirectory(d, at[k]) /\ at[k] # 0
<1>1. at[k] \in Places(d)
  BY DEF IsWalk
<1>2. at[k] \in Zones /\ IsDirectory(d, at[k])
  BY <1>1 DEF Places
<1>3. at[k] # 0
  BY <1>2 DEF Steady, Owned, IsDirectory
<1> QED BY <1>2, <1>3

CameBy(d, at, path, k) == Lookup(d.zone[at[k - 1]], path[k])

Came(d, at, path, k) ==
  /\ k - 1 \in 0 .. Len(path) - 1 /\ path[k] \in Names
  /\ at[k - 1] \in Zones /\ at[k - 1] # NONE /\ IsDirectory(d, at[k - 1])
  /\ CameBy(d, at, path, k) \in 2 .. BITS /\ CameBy(d, at, path, k) \in 1 .. BITS
  /\ d.inode[CameBy(d, at, path, k)].mode = "dir"
  /\ d.inode[CameBy(d, at, path, k)].zone = at[k]

LEMMA WalkCame ==
  ASSUME NEW d, Steady(d), NEW path \in Seq(Names) \ {<<>>}, NEW at, IsWalk(at, d, path),
         NEW k \in 0 .. Len(path) - 1, at[k] # NONE, k # 0
  PROVE  Came(d, at, path, k)
<1>1. Len(path) \in Nat /\ \A l \in 1 .. Len(path) : path[l] \in Names
  BY PathFacts
<1>2. k \in 1 .. Len(path) - 1 /\ k \in 1 .. Len(path) /\ k - 1 \in 0 .. Len(path) - 1
  BY <1>1
<1>3. at[k] = Descend(d, at[k - 1], path[k]) /\ at[k - 1] \in Places(d) /\ path[k] \in Names
  BY <1>1, <1>2 DEF IsWalk
<1>4. Typed(d)
  BY DEF Steady
<1>5. LET m == Lookup(d.zone[at[k - 1]], path[k])
      IN  /\ at[k - 1] \in Zones /\ at[k - 1] # NONE /\ IsDirectory(d, at[k - 1])
          /\ m \in 2 .. BITS /\ m \in 1 .. BITS /\ d.inode[m].mode = "dir"
          /\ d.inode[m].zone = at[k]
  BY <1>3, <1>4, DescendIs
<1> QED BY <1>2, <1>3, <1>5 DEF Came, CameBy

(* Two walks that come to one directory have come the same way.             *)
LEMMA OnePath ==
  ASSUME Undeleted, NEW d, Steady(d),
         NEW p \in Seq(Names) \ {<<>>}, NEW at, IsWalk(at, d, p),
         NEW q \in Seq(Names) \ {<<>>}, NEW to, IsWalk(to, d, q),
         NEW i \in 0 .. Len(p) - 1, NEW k \in 0 .. Len(q) - 1, at[i] = to[k], at[i] # NONE
  PROVE  i = k /\ \A l \in 1 .. i : p[l] = q[l]
<1> DEFINE N == Len(p) - 1
           Same(j, m) == at[j] = to[m] /\ at[j] # NONE => j = m /\ \A l \in 1 .. j : p[l] = q[l]
           S == {j \in 0 .. N : \A m \in 0 .. Len(q) - 1 : Same(j, m)}
<1>1. N \in Nat
  BY PathFacts
<1>2. d.inode[ROOT].mode = "dir" /\ d.inode[ROOT].zone = ROOT_ZONE /\ ROOT \in 1 .. BITS
      /\ ROOT \notin 2 .. BITS
  BY RootIsDirectory DEF Steady, Typed, Inode, ROOT
<1>3. 0 \in S
  <2>1. ASSUME NEW m \in 0 .. Len(q) - 1, at[0] = to[m], at[0] # NONE, m # 0 PROVE FALSE
    <3>1. at[0] = ROOT_ZONE /\ to[m] # NONE
      BY <2>1 DEF IsWalk
    <3> DEFINE n == CameBy(d, to, q, m)
    <3> HIDE DEF S, Same
    <3>2. n \in 2 .. BITS /\ n \in 1 .. BITS /\ d.inode[n].zone = to[m]
      <4>1. to[m] # NONE /\ m # 0
        BY <2>1, <3>1
      <4>2. Came(d, to, q, m)
        BY <4>1, WalkCame
      <4> QED BY <4>2 DEF Came
    <3> HIDE DEF n
    <3>3. d.inode[ROOT].zone = d.inode[n].zone
      BY <1>2, <2>1, <3>1, <3>2
    <3>4. n = ROOT
      BY <1>2, <3>2, <3>3, OneInode
    <3> QED BY <1>2, <3>2, <3>4
  <2>2. \A m \in 0 .. Len(q) - 1 : Same(0, m)
    BY <2>1
  <2> HIDE DEF Same
  <2> QED BY <1>1, <2>2
<1>4. ASSUME NEW j \in 0 .. N - 1, j \in S PROVE j + 1 \in S
  <2>1. j + 1 \in 0 .. N /\ j \in 0 .. N /\ (j + 1) - 1 = j /\ j + 1 # 0 /\ N = Len(p) - 1
    BY <1>1
  <2>2. ASSUME NEW m \in 0 .. Len(q) - 1, at[j + 1] = to[m], at[j + 1] # NONE
        PROVE  j + 1 = m /\ \A l \in 1 .. j + 1 : p[l] = q[l]
    <3> DEFINE c == j + 1
               a == CameBy(d, at, p, c)
               b == CameBy(d, to, q, m)
    <3> HIDE DEF S, Same
    <3>1. /\ at[j] \in Zones /\ at[j] # NONE /\ IsDirectory(d, at[j]) /\ p[j + 1] \in Names
          /\ a \in 2 .. BITS /\ a \in 1 .. BITS /\ d.inode[a].mode = "dir"
          /\ d.inode[a].zone = at[j + 1] /\ a = Lookup(d.zone[at[j]], p[j + 1])
      <4>1. c \in 0 .. Len(p) - 1 /\ at[c] # NONE /\ c # 0
        BY <2>1, <2>2
      <4>2. c - 1 = j
        BY <2>1
      <4> HIDE DEF c
      <4>3. Came(d, at, p, c)
        BY <4>1, WalkCame
      <4> QED BY <4>2, <4>3 DEF Came, CameBy, c
    <3>2. m # 0
      <4>1. ASSUME m = 0 PROVE d.inode[a].zone = ROOT_ZONE
        <5>1. to[0] = ROOT_ZONE
          BY DEF IsWalk
        <5> QED BY <2>2, <3>1, <4>1, <5>1
      <4> HIDE DEF a
      <4>2. ASSUME m = 0 PROVE a = ROOT
        BY <1>2, <3>1, <4>1, <4>2, OneInode
      <4> QED BY <1>2, <3>1, <4>2
    <3>3. /\ m - 1 \in 0 .. Len(q) - 1
          /\ to[m - 1] \in Zones /\ IsDirectory(d, to[m - 1]) /\ q[m] \in Names
          /\ b \in 2 .. BITS /\ b \in 1 .. BITS /\ d.inode[b].mode = "dir"
          /\ d.inode[b].zone = to[m] /\ b = Lookup(d.zone[to[m - 1]], q[m])
      <4>1. to[m] # NONE
        BY <2>2
      <4>2. Came(d, to, q, m)
        BY <3>2, <4>1, WalkCame
      <4> QED BY <4>2 DEF Came, CameBy
    <3>4. a = b /\ a # 0
      <4> HIDE DEF a, b
      <4>1. d.inode[a].zone = d.inode[b].zone
        BY <2>2, <3>1, <3>3
      <4>2. /\ a \in 1 .. BITS /\ b \in 1 .. BITS /\ d.inode[a].mode = "dir" /\ a # 0
        BY <3>1, <3>3
      <4>3. a = b
        BY <4>1, <4>2, OneInode
      <4> QED BY <4>2, <4>3
    <3>5. at[j] = to[m - 1] /\ p[j + 1] = q[m]
      <4> DEFINE y == at[j]
                 z == to[m - 1]
                 x == p[j + 1]
      <4>1. /\ y \in Zones /\ z \in Zones /\ IsDirectory(d, y) /\ IsDirectory(d, z)
            /\ x \in Names /\ q[m] \in Names
            /\ Lookup(d.zone[y], x) = Lookup(d.zone[z], q[m]) /\ Lookup(d.zone[y], x) # 0
        BY <3>1, <3>3, <3>4
      <4> HIDE DEF x, y, z
      <4>2. y = z /\ x = q[m]
        BY <4>1, OneEntry
      <4> QED BY <4>2 DEF x, y, z
    <3> HIDE DEF a, b
    <3>6. Same(j, m - 1)
      <4>1. \A l \in 0 .. Len(q) - 1 : Same(j, l)
        BY <1>4 DEF S
      <4> QED BY <3>3, <4>1
    <3>7. j = m - 1 /\ \A l \in 1 .. j : p[l] = q[l]
      BY <3>1, <3>5, <3>6 DEF Same
    <3>8. m \in Int /\ j \in Nat
      OBVIOUS
    <3>9. m = j + 1
      BY <3>7, <3>8
    <3>10. \A l \in 1 .. j + 1 : l \in 1 .. j \/ l = j + 1
      BY <3>8
    <3>11. \A l \in 1 .. j + 1 : p[l] = q[l]
      BY <3>5, <3>7, <3>9, <3>10, Zenon
    <3> QED BY <3>9, <3>11
  <2>3. \A m \in 0 .. Len(q) - 1 : Same(j + 1, m)
    BY <2>2
  <2> HIDE DEF Same
  <2> QED BY <2>1, <2>3
<1> HIDE DEF S
<1>5. i \in S
  <2>1. 0 .. N \subseteq S
    BY <1>1, <1>3, <1>4, BoundedInduction
  <2> QED BY <2>1
<1>6. Same(i, k)
  <2> HIDE DEF Same
  <2> QED BY <1>5 DEF S
<1> QED BY <1>6

(* A path whose last name is entered where another's k-th name is begins    *)
(* the other.                                                               *)
LEMMA SameName ==
  ASSUME Undeleted, NEW d, Steady(d),
         NEW e \in Seq(Names) \ {<<>>}, NEW r \in Seq(Names) \ {<<>>}, NEW at, IsWalk(at, d, r),
         NEW k \in 1 .. Len(r), at[k - 1] # NONE,
         DirZone(d, e) = at[k - 1], Last(e) = r[k]
  PROVE  Starts(e, r, k)
<1>1. PICK to : IsWalk(to, d, e)
  BY WalkExists DEF Steady
<1>2. Len(e) \in Nat \ {0} /\ Len(r) \in Nat /\ Last(e) = e[Len(e)]
  BY PathFacts
<1>3. to[Len(e) - 1] = at[k - 1]
  BY <1>1, WalkEnds
<1>4. Len(e) - 1 \in 0 .. Len(e) - 1 /\ k - 1 \in 0 .. Len(r) - 1
  BY <1>2
<1>5. Len(e) - 1 = k - 1 /\ \A l \in 1 .. Len(e) - 1 : e[l] = r[l]
  BY <1>1, <1>3, <1>4, OnePath
<1> DEFINE n == Len(e)
<1>6. n \in Nat /\ n - 1 = k - 1 /\ (\A l \in 1 .. n - 1 : e[l] = r[l]) /\ e[n] = r[k]
  BY <1>2, <1>5
<1> HIDE DEF n
<1>7. n = k /\ \A l \in 1 .. k : e[l] = r[l]
  BY <1>6
<1> QED BY <1>7 DEF Starts, n

(* A path that is found where another's k-th name leads begins the other.   *)
LEMMA SameEntry ==
  ASSUME Undeleted, NEW d, Steady(d),
         NEW f \in Seq(Names) \ {<<>>}, NEW r \in Seq(Names) \ {<<>>}, NEW at, IsWalk(at, d, r),
         NEW k \in 1 .. Len(r), at[k - 1] # NONE,
         FindEntry(d, f) # 0, FindEntry(d, f) = Lookup(d.zone[at[k - 1]], r[k])
  PROVE  Starts(f, r, k)
<1>1. Typed(d)
  BY DEF Steady
<1>2. /\ Last(f) \in Names /\ DirZone(d, f) # NONE
      /\ DirZone(d, f) \in Zones /\ IsDirectory(d, DirZone(d, f))
      /\ FindEntry(d, f) = Lookup(d.zone[DirZone(d, f)], Last(f))
  BY <1>1, DirZoneFacts
<1>3. k - 1 \in 0 .. Len(r) - 1 /\ r[k] \in Names
  BY PathFacts
<1>4. at[k - 1] \in Zones /\ IsDirectory(d, at[k - 1])
  BY <1>3, WalkIsAt
<1> DEFINE y == DirZone(d, f)
           z == at[k - 1]
           a == Last(f)
           b == r[k]
<1>5. /\ y \in Zones /\ z \in Zones /\ IsDirectory(d, y) /\ IsDirectory(d, z)
      /\ a \in Names /\ b \in Names /\ Lookup(d.zone[y], a) = Lookup(d.zone[z], b)
      /\ Lookup(d.zone[y], a) # 0
  BY <1>2, <1>3, <1>4
<1> HIDE DEF y, z, a, b
<1>6. y = z /\ a = b
  BY <1>5, OneEntry
<1> QED BY <1>6, SameName DEF y, z, a, b

(* A path that leads to a directory another passes through begins the other. *)
LEMMA Through ==
  ASSUME Undeleted, NEW d, Steady(d),
         NEW f \in Seq(Names) \ {<<>>}, NEW r \in Seq(Names) \ {<<>>}, NEW at, IsWalk(at, d, r),
         NEW k \in 0 .. Len(r) - 1, at[k] # NONE,
         FindEntry(d, f) # 0, d.inode[FindEntry(d, f)].zone = at[k]
  PROVE  Starts(f, r, k)
<1> DEFINE n == FindEntry(d, f)
<1>1. n \in 2 .. BITS /\ n \in 1 .. BITS
  <2>1. n \in 2 .. BITS
    BY DirZoneFacts DEF Steady
  <2> HIDE DEF n
  <2> QED BY <2>1
<1>2. d.inode[ROOT].mode = "dir" /\ d.inode[ROOT].zone = ROOT_ZONE /\ ROOT \in 1 .. BITS
      /\ ROOT \notin 2 .. BITS
  BY RootIsDirectory DEF Steady, Typed, Inode, ROOT
<1>3. k # 0
  <2>1. ASSUME k = 0 PROVE d.inode[n].zone = ROOT_ZONE
    BY <2>1 DEF IsWalk
  <2> HIDE DEF n
  <2>2. ASSUME k = 0 PROVE n = ROOT
    BY <1>1, <1>2, <2>1, <2>2, OneInode
  <2> QED BY <1>1, <1>2, <2>2
<1> DEFINE m == CameBy(d, at, r, k)
<1> HIDE DEF m, n
<1>4. /\ at[k - 1] # NONE /\ m \in 1 .. BITS /\ d.inode[m].mode = "dir"
      /\ d.inode[m].zone = at[k]
  <2>1. Came(d, at, r, k)
    BY <1>3, WalkCame
  <2> QED BY <2>1 DEF m, Came
<1>5. n = m
  <2>1. d.inode[m].zone = d.inode[n].zone
    BY <1>4 DEF n
  <2> QED BY <1>1, <1>4, <2>1, OneInode
<1>6. k \in 1 .. Len(r)
  BY <1>3, PathFacts
<1> QED BY <1>4, <1>5, <1>6, SameEntry DEF m, n, CameBy

-----------------------------------------------------------------------------
(* What an operation leaves alone *)

(* A disk w that differs from d, where inodes and directories in use go, by *)
(* the entries of the paths E and by the inodes and the contents of what    *)
(* the paths F lead to.                                                     *)
Differs(d, w, E, F) ==
  /\ \A m \in 1 .. BITS : d.inode[m].mode # "none" /\ w.inode[m] # d.inode[m] =>
       /\ \E f \in F : FindEntry(d, f) = m
       /\ w.inode[m].mode = d.inode[m].mode
       /\ d.inode[m].mode = "dir" => w.inode[m].zone = d.inode[m].zone
  /\ \A z \in Zones, name \in Names :
       IsDirectory(d, z) /\ Lookup(w.zone[z], name) # Lookup(d.zone[z], name) =>
         \/ \E e \in E : DirZone(d, e) = z /\ Last(e) = name
         \/ \E f \in F : FindEntry(d, f) # 0 /\ d.inode[FindEntry(d, f)].zone = z
  /\ \A m \in 1 .. BITS :
       LET z == d.inode[m].zone
       IN  d.inode[m].mode # "none" /\ z # 0 /\ w.zone[z] # d.zone[z] =>
             \/ \E e \in E : DirZone(d, e) = z
             \/ \E f \in F : FindEntry(d, f) = m

(* None of the paths C leads to the directory that r ends in, or through it. *)
Beside(C, r) == \A c \in C : ~(IsPrefix(c, r) /\ c # r)

Routes == Seq(Names) \ {<<>>}

(* An entry of a directory that a walk is in, on both disks. *)
LEMMA SameLookup ==
  ASSUME Undeleted, NEW d, Steady(d), NEW w,
         NEW E \in SUBSET Routes, NEW F \in SUBSET Routes, Differs(d, w, E, F),
         NEW r \in Routes, Beside(E, r), Beside(F, r), NEW at, IsWalk(at, d, r),
         NEW k \in 1 .. Len(r), at[k - 1] # NONE, k = Len(r) => r \notin E
  PROVE  Lookup(w.zone[at[k - 1]], r[k]) = Lookup(d.zone[at[k - 1]], r[k])
<1> USE DEF Routes
<1> DEFINE z == at[k - 1]
<1>1. Len(r) \in Nat /\ r[k] \in Names /\ k - 1 \in 0 .. Len(r) - 1
      /\ k \in 0 .. Len(r) /\ k - 1 \in 0 .. Len(r) /\ k - 1 < Len(r)
      /\ (k = Len(r) \/ k < Len(r))
  BY PathFacts
<1>2. z \in Zones /\ IsDirectory(d, z)
  BY <1>1, WalkIsAt
<1>3. ASSUME NEW e \in E, DirZone(d, e) = z, Last(e) = r[k] PROVE FALSE
  <2>1. Starts(e, r, k)
    BY <1>3, SameName
  <2>2. IsPrefix(e, r) /\ (k = Len(r) => e = r) /\ (k < Len(r) => e # r)
    BY <1>1, <2>1, StartsIs
  <2> QED BY <1>1, <2>2 DEF Beside
<1>4. ASSUME NEW f \in F, FindEntry(d, f) # 0, d.inode[FindEntry(d, f)].zone = z PROVE FALSE
  <2> DEFINE j == k - 1
  <2>1. j \in 0 .. Len(r) - 1 /\ j \in 0 .. Len(r) /\ j < Len(r) /\ z = at[j]
    BY <1>1
  <2> HIDE DEF j
  <2>2. Starts(f, r, j)
    BY <1>4, <2>1, Through
  <2>3. IsPrefix(f, r) /\ f # r
    BY <2>1, <2>2, StartsIs
  <2> QED BY <2>3 DEF Beside
<1> HIDE DEF z
<1>5. Lookup(w.zone[z], r[k]) = Lookup(d.zone[z], r[k])
  BY <1>1, <1>2, <1>3, <1>4 DEF Differs
<1> QED BY <1>5 DEF z

(* An inode in use that an entry leads to keeps its mode, and a directory   *)
(* its zone.                                                                *)
LEMMA SameInode ==
  ASSUME Undeleted, NEW d, Steady(d), NEW w, NEW E, NEW F, Differs(d, w, E, F),
         NEW z \in Zones, IsDirectory(d, z), NEW name \in Names,
         NEW m, m = Lookup(d.zone[z], name), m # 0
  PROVE  /\ m \in 2 .. BITS /\ m \in 1 .. BITS /\ d.inode[m].mode # "none"
         /\ w.inode[m].mode = d.inode[m].mode
         /\ d.inode[m].mode = "dir" => w.inode[m].zone = d.inode[m].zone
<1>1. Tidy(d.zone[z]) /\ Backed(d)
  BY DEF Steady, Typed
<1>2. m \in 2 .. BITS
  BY <1>1, LookupFacts
<1>3. PICK i \in Slots : IsEntry(d.zone[z][i]) /\ d.zone[z][i].inode = m
  BY <1>1, LookupFacts
<1>4. d.inode[m].mode # "none"
  BY <1>1, <1>3 DEF Backed
<1>5. m \in 1 .. BITS
  BY <1>2
<1> QED BY <1>2, <1>4, <1>5 DEF Differs

(* The directory that a path ends in is the same, if no entry on the way to *)
(* it has changed, and the path's own entry, if that has not.               *)
LEMMA SamePlace ==
  ASSUME Undeleted, NEW d, Steady(d), NEW w, Typed(w),
         NEW E \in SUBSET Routes, NEW F \in SUBSET Routes, Differs(d, w, E, F),
         NEW r \in Routes, Beside(E, r), Beside(F, r)
  PROVE  /\ DirZone(w, r) = DirZone(d, r)
         /\ r \notin E => FindEntry(w, r) = FindEntry(d, r)
<1> USE DEF Routes
<1> DEFINE N == Len(r) - 1
<1>1. N \in Nat /\ Len(r) \in Nat /\ Last(r) = r[Len(r)] /\ Last(r) \in Names
      /\ Len(r) \in 1 .. Len(r) /\ \A k \in 1 .. Len(r) : r[k] \in Names
  BY PathFacts
<1>2. Typed(d)
  BY DEF Steady
<1>3. PICK at : IsWalk(at, d, r)
  BY <1>2, WalkExists
<1>4. PICK to : IsWalk(to, w, r)
  BY WalkExists
<1>5. ASSUME NEW k \in 1 .. Len(r), at[k - 1] # NONE, k = Len(r) => r \notin E
       PROVE  Lookup(w.zone[at[k - 1]], r[k]) = Lookup(d.zone[at[k - 1]], r[k])
  BY <1>3, <1>5, SameLookup
<1> DEFINE S == {k \in 0 .. N : to[k] = at[k]}
<1>6. 0 \in S
  BY <1>1, <1>3, <1>4 DEF IsWalk
<1>7. ASSUME NEW j \in 0 .. N - 1, j \in S PROVE j + 1 \in S
  <2> DEFINE k == j + 1
  <2>1. k \in 1 .. N /\ k - 1 = j /\ k \in 0 .. N /\ k \in 1 .. Len(r) /\ k # Len(r)
        /\ j \in 0 .. N /\ k \in 1 .. Len(r) - 1 /\ j \in 0 .. Len(r) - 1
    BY <1>1
  <2> HIDE DEF k
  <2>2. at[k] = Descend(d, at[j], r[k]) /\ to[k] = Descend(w, at[j], r[k])
    BY <1>3, <1>4, <1>7, <2>1 DEF IsWalk
  <2>3. CASE at[j] = NONE
    BY <2>1, <2>2, <2>3 DEF Descend
  <2>4. CASE at[j] # NONE
    <3>1. at[j] \in Zones /\ IsDirectory(d, at[j]) /\ r[k] \in Names
      BY <1>1, <1>3, <2>1, <2>4, WalkIsAt
    <3> DEFINE m == Lookup(d.zone[at[j]], r[k])
    <3>2. Lookup(w.zone[at[j]], r[k]) = m
      <4>1. /\ at[k - 1] # NONE /\ at[k - 1] = at[j]
            /\ k \in 1 .. Len(r) /\ (k = Len(r) => r \notin E)
        BY <2>1, <2>4
      <4> QED BY <1>5, <4>1
    <3>3. m # 0 => /\ w.inode[m].mode = d.inode[m].mode
                   /\ d.inode[m].mode = "dir" => w.inode[m].zone = d.inode[m].zone
      BY <3>1, SameInode
    <3> HIDE DEF m
    <3>4. at[k] = IF m # 0 /\ d.inode[m].mode = "dir" THEN d.inode[m].zone ELSE NONE
      BY <2>2, <2>4 DEF Descend, m
    <3>5. to[k] = IF m # 0 /\ w.inode[m].mode = "dir" THEN w.inode[m].zone ELSE NONE
      BY <2>2, <2>4, <3>2 DEF Descend
    <3> QED BY <2>1, <3>3, <3>4, <3>5
  <2> QED BY <2>3, <2>4 DEF k
<1> HIDE DEF S
<1>8. N \in S
  <2>1. 0 .. N \subseteq S
    BY <1>1, <1>6, <1>7, BoundedInduction
  <2> QED BY <1>1, <2>1
<1>9. DirZone(w, r) = DirZone(d, r)
  BY <1>3, <1>4, <1>8 DEF S, IsWalk
<1>10. ASSUME r \notin E PROVE FindEntry(w, r) = FindEntry(d, r)
  <2>1. DirZone(d, r) = at[N]
    BY <1>3, WalkEnds
  <2>2. CASE at[N] = NONE
    BY <1>9, <2>1, <2>2 DEF FindEntry
  <2>3. CASE at[N] # NONE
    <3> DEFINE l == Len(r)
    <3>1. l \in 1 .. Len(r) /\ l - 1 = N
      BY <1>1
    <3> HIDE DEF l, N
    <3>2. at[l - 1] # NONE
      BY <2>3, <3>1
    <3>3. Lookup(w.zone[at[l - 1]], r[l]) = Lookup(d.zone[at[l - 1]], r[l])
      BY <1>10, <1>5, <3>1, <3>2
    <3>4. Lookup(w.zone[at[N]], Last(r)) = Lookup(d.zone[at[N]], Last(r))
      BY <1>1, <3>1, <3>3 DEF l
    <3> QED BY <1>9, <2>1, <3>4 DEF FindEntry
  <2> QED BY <2>2, <2>3
<1> QED BY <1>9, <1>10

(* What is read at a path is the same if neither its inode nor, where it is *)
(* a directory, an entry of it is changed.                                  *)
LEMMA SameReading ==
  ASSUME Undeleted, NEW d, Steady(d), NEW w, Typed(w),
         NEW E \in SUBSET Routes, NEW F \in SUBSET Routes, Differs(d, w, E, F),
         NEW r \in Routes, Beside(E, r), Beside(F, r), r \notin E, r \notin F,
         NEW n, n = FindEntry(d, r),
         n # 0 => d.inode[n].mode = "file" \/ \A e \in E : ~IsPrefix(r, e)
  PROVE  /\ FindEntry(w, r) = n
         /\ n # 0 => w.inode[n] = d.inode[n]
         /\ \A count \in Nat : ReadFile(w, r, count) = ReadFile(d, r, count)
<1> USE DEF Routes
<1>1. FindEntry(w, r) = n
  BY SamePlace
<1>2. CASE n = 0
  BY <1>1, <1>2 DEF ReadFile
<1>3. CASE n # 0
  <2>1. Typed(d) /\ Last(r) \in Names /\ n = Lookup(d.zone[DirZone(d, r)], Last(r))
        /\ DirZone(d, r) \in Zones /\ IsDirectory(d, DirZone(d, r)) /\ DirZone(d, r) # NONE
    BY <1>3, DirZoneFacts DEF Steady
  <2>2. n \in 2 .. BITS /\ n \in 1 .. BITS /\ d.inode[n].mode # "none"
    BY <1>3, <2>1, SameInode
  <2>3. PICK at : IsWalk(at, d, r)
    BY <2>1, WalkExists
  <2> DEFINE l == Len(r)
  <2>4. /\ l \in 1 .. Len(r) /\ l - 1 \in 0 .. Len(r) - 1 /\ l \in 0 .. Len(r)
        /\ Last(r) = r[l] /\ l \in Nat
    BY PathFacts
  <2>5. DirZone(d, r) = at[l - 1]
    BY <2>3, WalkEnds
  <2>6. ASSUME NEW f \in F, FindEntry(d, f) = n PROVE FALSE
    <3> HIDE DEF l
    <3>1. Starts(f, r, l)
      BY <1>3, <2>1, <2>3, <2>4, <2>5, <2>6, SameEntry
    <3>2. f = r
      BY <2>4, <3>1, StartsIs DEF l
    <3> QED BY <3>2
  <2>7. w.inode[n] = d.inode[n]
    BY <2>2, <2>6 DEF Differs
  <2> DEFINE z == d.inode[n].zone
  <2>8. ASSUME z # 0, NEW e \in E, DirZone(d, e) = z PROVE FALSE
    <3>1. z \in Zones
      <4>1. d.inode[n] \in InodeType
        BY <2>1, <2>2, DiskParts DEF Typed
      <4> QED BY <4>1 DEF InodeType
    <3>2. z # NONE /\ IsDirectory(d, z)
      <4>1. z # NONE
        BY <3>1 DEF Zones, NONE
      <4> QED BY <2>1, <2>8, <4>1, DirZoneFacts
    <3>3. d.inode[n].mode = "dir"
      <4>1. PICK m \in 1 .. BITS : d.inode[m].mode = "dir" /\ d.inode[m].zone = z
        BY <3>2 DEF IsDirectory
      <4>2. m = n
        BY <2>2, <4>1, OneInode
      <4> QED BY <4>1, <4>2
    <3>4. PICK to : IsWalk(to, d, e)
      BY <2>1, WalkExists
    <3> DEFINE k == Len(e) - 1
    <3>5. to[k] = z /\ k \in 0 .. Len(e) - 1 /\ k \in 0 .. Len(e)
      <4>1. DirZone(d, e) = to[k]
        BY <3>4, WalkEnds
      <4>2. k \in 0 .. Len(e) - 1 /\ k \in 0 .. Len(e)
        BY PathFacts
      <4> QED BY <2>8, <4>1, <4>2
    <3> HIDE DEF k, z
    <3>6. Starts(r, e, k)
      BY <1>3, <3>2, <3>4, <3>5, Through DEF z
    <3>7. IsPrefix(r, e)
      BY <3>5, <3>6, StartsIs
    <3> QED BY <1>3, <3>3, <3>7
  <2>9. z # 0 => w.zone[z] = d.zone[z]
    <3>1. z # 0 /\ w.zone[z] # d.zone[z] =>
            (\E e \in E : DirZone(d, e) = z) \/ (\E f \in F : FindEntry(d, f) = n)
      BY <2>2, SMTT(30) DEF Differs
    <3> HIDE DEF z
    <3> QED BY <2>6, <2>8, <3>1
  <2>10. \A count \in Nat : ReadFile(w, r, count) = ReadFile(d, r, count)
    <3> HIDE DEF l
    <3> QED BY <1>1, <1>3, <2>7, <2>9 DEF ReadFile
  <2> QED BY <1>1, <2>7, <2>10
<1> QED BY <1>2, <1>3

(* No path that does not begin with a changed one looks different.          *)
LEMMA SameView ==
  ASSUME Undeleted, NEW d, Steady(d), NEW w, Typed(w),
         NEW E \in SUBSET Routes, NEW F \in SUBSET Routes, Differs(d, w, E, F),
         NEW r \in Routes, \A c \in E \cup F : ~IsPrefix(c, r)
  PROVE  View(w, r) = View(d, r)
<1>1. Beside(E, r) /\ Beside(F, r)
  BY DEF Beside
<1>2. r \notin E /\ r \notin F
  <2>1. Len(r) \in Nat /\ r \in Seq(Names)
    BY LenProperties DEF Routes
  <2>2. IsPrefix(r, r)
    <3>1. Len(r) \in 0 .. Len(r) /\ Starts(r, r, Len(r))
      BY <2>1 DEF Starts
    <3> QED BY <2>1, <3>1, StartsIs
  <2> QED BY <2>2
<1> DEFINE n == FindEntry(d, r)
<1>3. FindEntry(w, r) = n
  BY <1>1, <1>2, SamePlace
<1>4. CASE n # 0 /\ d.inode[n].mode = "file"
  <2> HIDE DEF n
  <2>1. w.inode[n] = d.inode[n] /\ \A count \in Nat : ReadFile(w, r, count) = ReadFile(d, r, count)
    BY <1>1, <1>2, <1>4, SameReading DEF n
  <2>2. SLOTS \in Nat
    BY BitsAssumption
  <2> QED BY <1>3, <1>4, <2>1, <2>2 DEF View, n
<1>5. CASE n # 0 /\ d.inode[n].mode # "file"
  <2>1. Typed(d) /\ Last(r) \in Names /\ n = Lookup(d.zone[DirZone(d, r)], Last(r))
        /\ DirZone(d, r) \in Zones /\ IsDirectory(d, DirZone(d, r))
    BY <1>5, DirZoneFacts DEF Steady, Routes
  <2>2. w.inode[n].mode = d.inode[n].mode
    BY <1>5, <2>1, SameInode
  <2> HIDE DEF n
  <2> QED BY <1>3, <1>5, <2>2 DEF View, n
<1>6. CASE n = 0
  BY <1>3, <1>6 DEF View
<1> QED BY <1>4, <1>5, <1>6

-----------------------------------------------------------------------------
(* The operations again: what each write changes, and what the last leaves. *)

(* What an operation that reports success has brought about on disk d.      *)
NamedIn(d, z) == {i \in Slots : d.zone[z][i].inode \in 1 .. BITS
                                  /\ d.zone[z][i].name \in Names}
Blank == [i \in Slots |-> Free]
FileMade(d, p) == View(d, p) = <<"file", [ret |-> 0, output |-> Blank]>>
DirMade(d, p)  == View(d, p) = <<"dir">> /\ NamedIn(d, DirZone(d, Append(p, ""))) = {}
Written(d, p, input, ret) ==
  LET read == ReadFile(d, p, SLOTS)
  IN  /\ ret = Clamped(input[2]) /\ read.ret >= ret
      /\ read.output = [i \in Slots |-> IF i < ret THEN Bytes(input[1]) ELSE Free]
Copied(d, p, q) == ~IsPrefix(p, q) => ReadFile(d, q, SLOTS) = ReadFile(d, p, SLOTS)
Moved(d, p, q)  == ~IsPrefix(p, q) => FindEntry(d, p) = 0 /\ FindEntry(d, q) # 0

JobDone(op, paths, input, ret, d) ==
  /\ op = "CreateFile" => FileMade(d, paths[1])
  /\ op = "CreateDir"  => DirMade(d, paths[1])
  /\ op = "WriteFile"  => Written(d, paths[1], input, ret)
  /\ op = "CopyFile"   => Copied(d, paths[1], paths[2])
  /\ op = "Rename"     => Moved(d, paths[1], paths[2])

(* The paths an operation changes, of those it is given.                    *)
ChangedBy(op, paths) == IF op = "CopyFile" THEN {paths[2]} ELSE Range(paths)

LooksLike(w, d, C) ==
  \A p \in Paths : (\A q \in C : ~IsPrefix(q, p)) => View(w, p) = View(d, p)

(* What is left to do ends in the promised disk, and every disk on the way  *)
(* looks like the present one to all but the paths that change.             *)
Promise == call.op # "none" /\ call.ret >= 0
             => JobDone(call.op, call.paths, call.input, call.ret, Final)
Alike == \A k \in 1 .. Len(todo) : LooksLike(todo[k], disk, ChangedBy(call.op, call.paths))

LEMMA SameEntries ==
  ASSUME NEW a, Tidy(a), NEW b, Tidy(b), NEW name \in Names,
         \A i \in Slots : \/ IsEntry(a[i]) /\ a[i].name = name
                          \/ IsEntry(b[i]) /\ b[i].name = name
                          => a[i] = b[i]
  PROVE  Lookup(a, name) = Lookup(b, name)
<1> DEFINE m == Lookup(a, name)
           n == Lookup(b, name)
<1>1. CASE m # 0
  <2>1. PICK i \in Slots : IsEntry(a[i]) /\ a[i].name = name /\ a[i].inode = m
    BY <1>1, LookupFacts
  <2>2. IsEntry(b[i]) /\ b[i].name = name /\ b[i].inode = m
    BY <2>1
  <2>3. b[i].inode = n
    BY <2>2, LookupFacts
  <2> QED BY <2>2, <2>3
<1>2. CASE n # 0
  <2>1. PICK i \in Slots : IsEntry(b[i]) /\ b[i].name = name /\ b[i].inode = n
    BY <1>2, LookupFacts
  <2>2. IsEntry(a[i]) /\ a[i].name = name /\ a[i].inode = n
    BY <2>1
  <2>3. a[i].inode = m
    BY <2>2, LookupFacts
  <2> QED BY <2>2, <2>3
<1> QED BY <1>1, <1>2

LEMMA InUse ==
  ASSUME NEW d, Steady(d)
  PROVE  /\ d.zmap \subseteq Zones
         /\ \A z \in Zones : IsDirectory(d, z) => z \in d.zmap
         /\ \A m \in 1 .. BITS : d.inode[m].zone # 0 => d.inode[m].zone \in d.zmap
<1>1. d.zmap \subseteq Zones
  BY DiskParts DEF Steady, Typed
<1>2. \A m \in 1 .. BITS : /\ d.inode[m].zone # 0 => d.inode[m].zone \in d.zmap
                           /\ d.inode[m].mode = "dir" => d.inode[m].zone # 0
  BY DEF Steady, Owned
<1>3. \A z \in Zones : IsDirectory(d, z) => z \in d.zmap
  BY <1>2 DEF IsDirectory
<1> QED BY <1>1, <1>2, <1>3

(* The slot of an entry that one of the paths E ends in. *)
EntryFor(d, E, y, slot) ==
  IsEntry(slot) => \E e \in E : DirZone(d, e) = y /\ Last(e) = slot.name

(* An operation that changes entries, and otherwise what is free. *)
LEMMA DiffersByEntries ==
  ASSUME Undeleted, NEW d, Steady(d), NEW w, Typed(w), NEW E,
         \A m \in 1 .. BITS : d.inode[m].mode # "none" => w.inode[m] = d.inode[m],
         \A y \in d.zmap, j \in Slots : w.zone[y][j] # d.zone[y][j] =>
           /\ \E e \in E : DirZone(d, e) = y
           /\ EntryFor(d, E, y, d.zone[y][j]) /\ EntryFor(d, E, y, w.zone[y][j])
  PROVE  Differs(d, w, E, {})
<1>1. /\ d.zmap \subseteq Zones
      /\ \A z \in Zones : IsDirectory(d, z) => z \in d.zmap
      /\ \A m \in 1 .. BITS : d.inode[m].zone # 0 => d.inode[m].zone \in d.zmap
  BY InUse
<1>2. \A z \in Zones : /\ d.zone[z] \in Sector /\ w.zone[z] \in Sector
                       /\ Tidy(d.zone[z]) /\ Tidy(w.zone[z])
  BY DiskParts DEF Steady, Typed
<1>3. ASSUME NEW z \in Zones, NEW name \in Names, IsDirectory(d, z),
             Lookup(w.zone[z], name) # Lookup(d.zone[z], name)
      PROVE  \E e \in E : DirZone(d, e) = z /\ Last(e) = name
  <2> DEFINE a == d.zone[z]
             b == w.zone[z]
  <2>1. z \in d.zmap /\ Tidy(a) /\ Tidy(b) /\ Lookup(a, name) # Lookup(b, name)
    BY <1>1, <1>2, <1>3
  <2>2. \A j \in Slots : b[j] # a[j] => EntryFor(d, E, z, a[j]) /\ EntryFor(d, E, z, b[j])
    BY <2>1
  <2> HIDE DEF a, b
  <2>3. PICK i \in Slots : /\ \/ IsEntry(a[i]) /\ a[i].name = name
                              \/ IsEntry(b[i]) /\ b[i].name = name
                           /\ a[i] # b[i]
    BY <2>1, SameEntries
  <2> QED BY <2>2, <2>3 DEF EntryFor
<1>4. ASSUME NEW m \in 1 .. BITS, d.inode[m].zone # 0,
             w.zone[d.inode[m].zone] # d.zone[d.inode[m].zone]
      PROVE  \E e \in E : DirZone(d, e) = d.inode[m].zone
  <2> DEFINE z == d.inode[m].zone
  <2>1. z \in d.zmap /\ z \in Zones
    BY <1>1, <1>4
  <2>2. w.zone[z] # d.zone[z]
    BY <1>4
  <2>3. d.zone[z] \in [Slots -> SlotType] /\ w.zone[z] \in [Slots -> SlotType]
    BY <1>2, <2>1 DEF Sector
  <2> HIDE DEF z
  <2>4. PICK j \in Slots : w.zone[z][j] # d.zone[z][j]
    BY <2>2, <2>3
  <2> QED BY <2>1, <2>4 DEF z
<1> QED BY <1>3, <1>4 DEF Differs

LEMMA WritesSteady ==
  ASSUME NEW s \in Seq(SteadyDisks), NEW k \in 1 .. Len(s)
  PROVE  Steady(s[k]) /\ Typed(s[k]) /\ s[k] \in Disk
<1>1. s[k] \in SteadyDisks
  BY LenProperties
<1> QED BY <1>1 DEF SteadyDisks, Steady

LEMMA CreateFileDiffers ==
  ASSUME Undeleted, NEW d, Steady(d), NEW path \in Routes
  PROVE  LET s == CreateFile(d, path).writes
         IN  \A k \in 1 .. Len(s) : Differs(d, s[k], {path}, {})
<1> USE DEF Routes
<1> DEFINE z == DirZone(d, path)
           n == NextInode(d)
           i == FreeSlot(d.zone[z])
           taken  == TakeInode(d, n)
           formed == SetInode(taken, n, Inode("file", 0, 0))
           slot == Slot(n, Last(path))
           entered == SetSlot(formed, z, i, slot)
           s == CreateFile(d, path).writes
<1>1. \/ s = <<>>
      \/ /\ z # NONE /\ n # 0
         /\ s = <<taken, formed>> \/ (i # NONE /\ s = <<taken, formed, entered>>)
  <2> HIDE DEF z, n, i
  <2> QED BY DEF CreateFile, Fails, z, n, i
<1> SUFFICES ASSUME NEW k \in 1 .. Len(s) PROVE Differs(d, s[k], {path}, {})
  OBVIOUS
<1> DEFINE w == s[k]
<1>2. /\ z # NONE /\ n # 0
      /\ w = taken \/ w = formed \/ (i # NONE /\ w = entered)
  <2> HIDE DEF z, n, i, taken, formed, entered, s
  <2> QED BY <1>1
<1>3. Typed(w)
  <2>1. s \in Seq(SteadyDisks)
    BY CreateFileSteps
  <2> HIDE DEF s
  <2> QED BY <2>1, WritesSteady
<1> HIDE DEF w, s
<1>4. d \in Disk /\ Typed(d)
  BY DEF Steady, Typed
<1>5. /\ n \in 2 .. BITS /\ n \in 1 .. BITS /\ n - 1 \notin d.imap /\ n \in 0 .. BITS + 1
      /\ z \in Zones /\ Last(path) \in Names
  <2>1. n \in 2 .. BITS /\ n \in 1 .. BITS /\ n - 1 \notin d.imap
    BY <1>2, NextInodeFacts
  <2>2. z \in Zones /\ Last(path) \in Names
    BY <1>2, <1>4, DirZoneFacts
  <2> HIDE DEF n, z
  <2> QED BY <2>1, <2>2, BitsAssumption
<1>6. d.inode[n].mode = "none"
  BY <1>5, FreeInodeIsNew
<1>7. i # NONE => i \in Slots /\ ~IsEntry(d.zone[z][i])
  BY FreeSlotFacts DEF IsEntry
<1> HIDE DEF n, i
<1>8. taken \in Disk /\ taken.inode = d.inode /\ taken.zone = d.zone
  BY <1>4, <1>5, TakeInodeFacts
<1> HIDE DEF taken
<1>9. /\ formed \in Disk /\ formed.zone = d.zone
      /\ \A m \in 1 .. BITS : m # n => formed.inode[m] = d.inode[m]
  <2>1. Inode("file", 0, 0) \in InodeType
    BY BitsAssumption, ZonesAssumption DEF Inode, InodeType, Zones
  <2> QED BY <1>5, <1>8, <2>1, SetInodeFacts
<1> HIDE DEF formed
<1>10. slot \in SlotType /\ slot.name = Last(path)
  BY <1>5, SlotFacts
<1> HIDE DEF slot
<1>11. i # NONE => /\ entered.inode = formed.inode
                   /\ entered.zone[z][i] = slot
                   /\ \A j \in Slots : j # i => entered.zone[z][j] = d.zone[z][j]
                   /\ \A y \in Zones : y # z => entered.zone[y] = d.zone[y]
  BY <1>5, <1>7, <1>9, <1>10, SetSlotFacts
<1> HIDE DEF entered
<1>12. \A m \in 1 .. BITS : d.inode[m].mode # "none" => w.inode[m] = d.inode[m]
  BY <1>2, <1>6, <1>8, <1>9, <1>11
<1>13. ASSUME NEW y \in d.zmap, NEW j \in Slots, w.zone[y][j] # d.zone[y][j]
       PROVE  /\ \E e \in {path} : DirZone(d, e) = y
              /\ EntryFor(d, {path}, y, d.zone[y][j]) /\ EntryFor(d, {path}, y, w.zone[y][j])
  <2>1. y \in Zones
    BY InUse
  <2>2. i # NONE /\ y = z /\ j = i /\ w.zone[y][j] = slot
    BY <1>2, <1>8, <1>9, <1>11, <1>13, <2>1
  <2>3. DirZone(d, path) = y
    BY <2>2
  <2> QED BY <1>7, <1>10, <2>2, <2>3 DEF EntryFor
<1> QED BY <1>3, <1>12, <1>13, DiffersByEntries DEF w

LEMMA CreateDirDiffers ==
  ASSUME WellNamed, Undeleted, NEW d, Steady(d), NEW path \in Routes
  PROVE  LET s == CreateDir(d, path).writes
         IN  \A k \in 1 .. Len(s) : Differs(d, s[k], {path}, {})
<1> USE DEF Routes
<1> DEFINE z == DirZone(d, path)
           n == NextInode(d)
           new == NextZone(d)
           i == FreeSlot(d.zone[z])
           taken  == TakeInode(d, n)
           zoned  == TakeZone(taken, new)
           formed == SetInode(zoned, n, Inode("dir", 2, new))
           sector == [s \in Slots |-> CASE s = 0 -> Slot(n, ".")
                                        [] s = 1 -> Slot(d.zone[z][0].inode, "..")
                                        [] OTHER -> Free]
           filled == SetSector(formed, new, sector)
           slot == Slot(n, Last(path))
           entered == SetSlot(filled, z, i, slot)
           s == CreateDir(d, path).writes
<1>1. \/ s = <<>>
      \/ /\ z # NONE /\ n # 0
         /\ \/ s = <<taken>>
            \/ new # NONE /\ s = <<taken, zoned, formed, filled>>
            \/ new # NONE /\ i # NONE /\ s = <<taken, zoned, formed, filled, entered>>
  <2> HIDE DEF z, n, i, new
  <2> QED BY DEF CreateDir, Fails, SetSector, z, n, i, new
<1> SUFFICES ASSUME NEW k \in 1 .. Len(s) PROVE Differs(d, s[k], {path}, {})
  OBVIOUS
<1> DEFINE w == s[k]
<1>2. /\ z # NONE /\ n # 0
      /\ \/ w = taken
         \/ new # NONE /\ (w = zoned \/ w = formed \/ w = filled \/ (i # NONE /\ w = entered))
  <2> HIDE DEF z, n, i, new, taken, zoned, formed, filled, entered, s
  <2> QED BY <1>1
<1>3. s \in Seq(SteadyDisks)
  BY CreateDirSteps
<1>4. Typed(w)
  <2> HIDE DEF s
  <2> QED BY <1>3, WritesSteady
<1> HIDE DEF w, s
<1>5. d \in Disk /\ Typed(d)
  BY DEF Steady, Typed
<1>6. /\ n \in 2 .. BITS /\ n \in 1 .. BITS /\ n - 1 \notin d.imap /\ n \in 0 .. BITS + 1
      /\ z \in Zones /\ Last(path) \in Names
  <2>1. n \in 2 .. BITS /\ n \in 1 .. BITS /\ n - 1 \notin d.imap
    BY <1>2, NextInodeFacts
  <2>2. z \in Zones /\ Last(path) \in Names
    BY <1>2, <1>5, DirZoneFacts
  <2> HIDE DEF n, z
  <2> QED BY <2>1, <2>2, BitsAssumption
<1>7. d.inode[n].mode = "none"
  BY <1>6, FreeInodeIsNew
<1>8. i # NONE => i \in Slots /\ ~IsEntry(d.zone[z][i])
  BY FreeSlotFacts DEF IsEntry
<1>9. new # NONE => new \in Zones /\ new \notin d.zmap
  BY NextZoneFacts
<1>10. z \in d.zmap
  BY <1>2, <1>5, <1>6, DirZoneFacts, InUse
<1> HIDE DEF z, n, i, new
<1>11. taken \in Disk /\ taken.inode = d.inode /\ taken.zone = d.zone
  BY <1>5, <1>6, TakeInodeFacts
<1> HIDE DEF taken
<1>12. new # NONE => zoned \in Disk /\ zoned.inode = d.inode /\ zoned.zone = d.zone
  BY <1>9, <1>11, TakeZoneFacts
<1> HIDE DEF zoned
<1>13. new # NONE => /\ formed \in Disk /\ formed.zone = d.zone
                     /\ \A m \in 1 .. BITS : m # n => formed.inode[m] = d.inode[m]
  <2>1. new # NONE => Inode("dir", 2, new) \in InodeType
    BY <1>9, BitsAssumption DEF Inode, InodeType
  <2> QED BY <1>6, <1>12, <2>1, SetInodeFacts
<1> HIDE DEF formed
<1>14. new # NONE => /\ filled \in Disk /\ filled.inode = formed.inode
                     /\ \A y \in Zones : y # new => filled.zone[y] = d.zone[y]
  <2>1. sector \in Sector
    <3>1. 0 \in Slots /\ "." \in OtherNames /\ ".." \in OtherNames
      BY BitsAssumption DEF Slots, OtherNames
    <3>2. d.zone[z][0].inode \in 0 .. BITS + 1
      BY <1>5, <1>6, <3>1, DiskParts DEF SlotType
    <3>3. Slot(n, ".") \in SlotType /\ Slot(d.zone[z][0].inode, "..") \in SlotType
      BY <1>6, <3>1, <3>2, OtherIsNoEntry
    <3> QED BY <3>3, FreeIsASlot DEF Sector
  <2> HIDE DEF sector
  <2> QED BY <1>9, <1>13, <2>1, SetSectorFacts
<1> HIDE DEF filled
<1>15. slot \in SlotType /\ slot.name = Last(path)
  BY <1>6, SlotFacts
<1> HIDE DEF slot
<1>16. new # NONE /\ i # NONE =>
         /\ entered.inode = formed.inode
         /\ entered.zone[z][i] = slot
         /\ \A j \in Slots : j # i => entered.zone[z][j] = filled.zone[z][j]
         /\ \A y \in Zones : y # z => entered.zone[y] = filled.zone[y]
  BY <1>6, <1>8, <1>14, <1>15, SetSlotFacts
<1> HIDE DEF entered
<1>17. \A m \in 1 .. BITS : d.inode[m].mode # "none" => w.inode[m] = d.inode[m]
  <2>1. \A m \in 1 .. BITS : m # n => w.inode[m] = d.inode[m]
    BY <1>2, <1>11, <1>12, <1>13, <1>14, <1>16
  <2> QED BY <1>7, <2>1
<1>18. ASSUME NEW y \in d.zmap, NEW j \in Slots, w.zone[y][j] # d.zone[y][j]
       PROVE  /\ \E e \in {path} : DirZone(d, e) = y
              /\ EntryFor(d, {path}, y, d.zone[y][j]) /\ EntryFor(d, {path}, y, w.zone[y][j])
  <2>1. y \in Zones
    BY InUse
  <2>2. new # NONE => y # new /\ filled.zone[y] = d.zone[y]
    BY <1>9, <1>14, <2>1
  <2>3. i # NONE /\ y = z /\ j = i /\ w.zone[y][j] = slot
    BY <1>2, <1>11, <1>12, <1>13, <1>16, <1>18, <2>1, <2>2
  <2>4. DirZone(d, path) = y
    BY <2>3 DEF z
  <2> QED BY <1>8, <1>15, <2>3, <2>4 DEF EntryFor
<1> QED BY <1>4, <1>17, <1>18, DiffersByEntries DEF w

LEMMA RenameDiffers ==
  ASSUME Undeleted, NEW d, Steady(d), NEW path \in Routes, NEW new \in Routes
  PROVE  LET s == Rename(d, path, new).writes
         IN  \A k \in 1 .. Len(s) : Differs(d, s[k], {path, new}, {})
<1> USE DEF Routes
<1> DEFINE z == DirZone(d, path)
           i == EntryOf(d.zone[z], Last(path))
           removed == Unlink(d, z, i)
           to == DirZone(d, new)
           j == FreeSlot(removed.zone[to])
           slot == Slot(d.zone[z][i].inode, Last(new))
           entered == SetSlot(removed, to, j, slot)
           s == Rename(d, path, new).writes
<1>1. \/ s = <<>>
      \/ /\ z # NONE /\ to # NONE /\ i # NONE
         /\ s = <<removed>> \/ (j # NONE /\ s = <<removed, entered>>)
  <2> HIDE DEF z, to, i, j
  <2> QED BY DEF Rename, Fails, z, to, i, j
<1> SUFFICES ASSUME NEW k \in 1 .. Len(s) PROVE Differs(d, s[k], {path, new}, {})
  OBVIOUS
<1> DEFINE w == s[k]
<1>2. /\ z # NONE /\ to # NONE /\ i # NONE
      /\ w = removed \/ (j # NONE /\ w = entered)
  <2> HIDE DEF z, to, i, j, removed, entered, s
  <2> QED BY <1>1
<1>3. s \in Seq(SteadyDisks)
  BY RenameSteps
<1>4. Typed(w)
  <2> HIDE DEF s
  <2> QED BY <1>3, WritesSteady
<1> HIDE DEF w, s
<1>5. d \in Disk /\ Typed(d)
  BY DEF Steady, Typed
<1>6. z \in Zones /\ to \in Zones /\ Last(path) \in Names /\ Last(new) \in Names
  BY <1>2, <1>5, DirZoneFacts
<1>7. i \in Slots /\ d.zone[z][i].name = Last(path)
  BY <1>2, EntryOfFacts
<1>8. j # NONE => j \in Slots /\ removed.zone[to][j].inode = 0
  BY FreeSlotFacts
<1> HIDE DEF j, i, z, to
<1>9. /\ removed \in Disk /\ removed.inode = d.inode /\ removed.zone[z][i] = Free
      /\ \A l \in Slots : l # i => removed.zone[z][l] = d.zone[z][l]
      /\ \A y \in Zones : y # z => removed.zone[y] = d.zone[y]
  BY <1>5, <1>6, <1>7, SetSlotFacts, FreeIsASlot DEF Unlink
<1> HIDE DEF removed
<1>10. slot \in SlotType /\ slot.name = Last(new)
  <2>1. d.zone[z][i].inode \in 0 .. BITS + 1
    BY <1>5, <1>6, <1>7, DiskParts DEF SlotType
  <2> QED BY <1>6, <2>1, SlotFacts
<1> HIDE DEF slot
<1>11. j # NONE =>
         /\ entered.inode = d.inode /\ entered.zone[to][j] = slot
         /\ \A l \in Slots : l # j => entered.zone[to][l] = removed.zone[to][l]
         /\ \A y \in Zones : y # to => entered.zone[y] = removed.zone[y]
  BY <1>6, <1>8, <1>9, <1>10, SetSlotFacts
<1> HIDE DEF entered
<1>12. \A m \in 1 .. BITS : d.inode[m].mode # "none" => w.inode[m] = d.inode[m]
  BY <1>2, <1>9, <1>11
<1>13. ASSUME NEW y \in d.zmap, NEW l \in Slots, w.zone[y][l] # d.zone[y][l]
       PROVE  /\ \E e \in {path, new} : DirZone(d, e) = y
              /\ EntryFor(d, {path, new}, y, d.zone[y][l])
              /\ EntryFor(d, {path, new}, y, w.zone[y][l])
  <2>1. y \in Zones
    BY InUse
  <2>2. CASE y = z /\ l = i /\ w.zone[y][l] = Free
    <3>1. DirZone(d, path) = y
      BY <2>2 DEF z
    <3> QED BY <1>7, <2>2, <3>1, FreeIsASlot DEF EntryFor
  <2>3. CASE j # NONE /\ y = to /\ l = j /\ w.zone[y][l] = slot
    <3>1. DirZone(d, new) = y
      BY <2>3 DEF to
    <3>2. IsEntry(d.zone[y][l]) => y = z /\ l = i
      BY <1>8, <1>9, <2>1, <2>3 DEF IsEntry
    <3>3. y = z => DirZone(d, path) = y
      BY DEF z
    <3> QED BY <1>7, <1>10, <2>3, <3>1, <3>2, <3>3 DEF EntryFor
  <2>4. \/ y = z /\ l = i /\ w.zone[y][l] = Free
        \/ j # NONE /\ y = to /\ l = j /\ w.zone[y][l] = slot
    BY <1>2, <1>9, <1>11, <1>13, <2>1
  <2> QED BY <2>2, <2>3, <2>4
<1> QED BY <1>4, <1>12, <1>13, DiffersByEntries DEF w

(* A write on the way to rewriting inode n and zone y. *)
Writing(d, w, n, y, inode) ==
  /\ \A m \in 1 .. BITS : m # n => w.inode[m] = d.inode[m]
  /\ w.inode[n] = d.inode[n] \/ w.inode[n] = inode
  /\ \A x \in Zones : x # y => w.zone[x] = d.zone[x]

(* Inode n's zone, or a free one, is rewritten, and the inode.              *)
Rewrites(d, c, n, size, input, count) ==
  \E y \in Zones \ {0} :
    /\ n \in 2 .. BITS /\ n \in 1 .. BITS /\ c.ret = Clamped(count) /\ c.writes # <<>>
    /\ d.inode[n].zone = y \/ (d.inode[n].zone = 0 /\ y \notin d.zmap)
    /\ \A k \in 1 .. Len(c.writes) :
         Writing(d, c.writes[k], n, y, Inode(d.inode[n].mode, size, y))
    /\ Last(c.writes).inode[n] = Inode(d.inode[n].mode, size, y)
    /\ Last(c.writes).zone[y] =
         [i \in Slots |-> IF i < Clamped(count) THEN input[i] ELSE Free]

LEMMA Joined ==
  ASSUME NEW a, NEW b, NEW c
  PROVE  <<a>> \o <<b, c>> = <<a, b, c>> /\ <<>> \o <<b, c>> = <<b, c>>
<1> DEFINE S == {a, b, c}
<1>1. /\ <<a>> \in Seq(S) /\ Len(<<a>>) = 1 /\ <<b, c>> \in Seq(S) /\ Len(<<b, c>>) = 2
      /\ <<a, b, c>> \in Seq(S) /\ Len(<<a, b, c>>) = 3
  OBVIOUS
<1>2. /\ <<a>>[1] = a /\ <<b, c>>[1] = b /\ <<b, c>>[2] = c
      /\ <<a, b, c>>[1] = a /\ <<a, b, c>>[2] = b /\ <<a, b, c>>[3] = c
  OBVIOUS
<1> DEFINE s == <<a>>
           t == <<b, c>>
           u == <<a, b, c>>
<1>3. s \in Seq(S) /\ t \in Seq(S) /\ u \in Seq(S) /\ Len(s) = 1 /\ Len(t) = 2 /\ Len(u) = 3
      /\ u[1] = s[1] /\ u[2] = t[1] /\ u[3] = t[2]
  BY <1>1, <1>2
<1> HIDE DEF s, t, u, S
<1>4. /\ s \o t \in Seq(S) /\ Len(s \o t) = Len(s) + Len(t)
      /\ \A i \in 1 .. Len(s) + Len(t) : (s \o t)[i] = IF i <= Len(s) THEN s[i] ELSE t[i - Len(s)]
  BY <1>3, ConcatProperties
<1>5. Len(s \o t) = 3 /\ (s \o t)[1] = u[1] /\ (s \o t)[2] = u[2] /\ (s \o t)[3] = u[3]
  BY <1>3, <1>4
<1>6. \A i \in 1 .. 3 : i = 1 \/ i = 2 \/ i = 3
  OBVIOUS
<1>7. s \o t = u
  BY <1>3, <1>4, <1>5, <1>6, SeqEqual
<1>8. <<>> \o <<b, c>> = <<b, c>>
  OBVIOUS
<1> QED BY <1>7, <1>8 DEF s, t, u

LEMMA WriteFileIs ==
  ASSUME NEW d, Steady(d), NEW path \in Routes,
         NEW input \in Sector, NEW count \in Nat,
         NEW n, n = FindEntry(d, path), NEW c, c = WriteFile(d, path, input, count),
         NEW size, size = Grown(d.inode[n].size, Clamped(count))
  PROVE  (c.writes = <<>> /\ ~(c.ret >= 0)) \/ Rewrites(d, c, n, size, input, count)
<1> USE DEF Routes
<1> DEFINE fresh == d.inode[n].zone = 0
           z == IF fresh THEN NextZone(d) ELSE d.inode[n].zone
           zoned == TakeZone(d, z)
           to_write == Clamped(count)
           base == IF fresh THEN zoned ELSE d
           sector == [i \in Slots |-> IF i < to_write THEN input[i] ELSE Free]
           filled == SetSector(base, z, sector)
           inode == Inode(d.inode[n].mode, size, z)
           ended == SetInode(filled, n, inode)
<1>1. c = IF n = 0 THEN Fails(ENOENT)
          ELSE IF z = NONE THEN Fails(ENOSPC)
          ELSE [ret |-> to_write,
                writes |-> (IF fresh THEN <<zoned>> ELSE <<>>) \o <<filled, ended>>]
  BY Zenon DEF WriteFile, SetSector
<1>2. d \in Disk /\ Typed(d)
  BY DEF Steady, Typed
<1>3. CASE n = 0 \/ z = NONE
  <2> HIDE DEF z, fresh, zoned, filled, ended
  <2>1. c = Fails(ENOENT) \/ c = Fails(ENOSPC)
    BY <1>1, <1>3
  <2> QED BY <2>1 DEF Fails, ENOENT, ENOSPC
<1>4. CASE n # 0 /\ z # NONE
  <2>1. n \in 2 .. BITS /\ n \in 1 .. BITS
    <3>1. n \in 2 .. BITS
      BY <1>2, <1>4, DirZoneFacts
    <3> QED BY <3>1
  <2>2. d.inode[n] \in InodeType
    BY <1>2, <2>1, DiskParts
  <2>3. /\ d.inode[n].mode \in {"none", "file", "dir"} /\ d.inode[n].size \in 0 .. SLOTS
        /\ d.inode[n].zone \in Zones
    BY <2>2 DEF InodeType
  <2>4. z \in Zones \ {0} /\ (fresh => z \notin d.zmap) /\ (~fresh => d.inode[n].zone = z)
    <3>1. CASE fresh
      <4>1. z \in Zones /\ z \notin d.zmap
        BY <1>4, <3>1, NextZoneFacts
      <4> QED BY <3>1, <4>1 DEF Steady, Owned
    <3>2. CASE ~fresh
      <4>1. z = d.inode[n].zone
        BY <3>2, Zenon
      <4> QED BY <2>3, <3>2, <4>1
    <3> QED BY <3>1, <3>2
  <2>5. c.ret = to_write /\ c.writes = (IF fresh THEN <<zoned>> ELSE <<>>) \o <<filled, ended>>
    <3> DEFINE s == (IF fresh THEN <<zoned>> ELSE <<>>) \o <<filled, ended>>
    <3> HIDE DEF fresh, z, zoned, to_write, base, sector, filled, inode, ended
    <3>1. c = [ret |-> to_write, writes |-> s]
      BY <1>1, <1>4, Zenon
    <3> HIDE DEF s
    <3>2. c.ret = to_write /\ c.writes = s
      BY <3>1
    <3> QED BY <3>2 DEF s
  <2> HIDE DEF z
  <2>6. /\ base \in Disk /\ base.inode = d.inode /\ base.zone = d.zone
        /\ fresh => base = zoned
    BY <1>2, <2>4, TakeZoneFacts
  <2>7. to_write \in 0 .. SLOTS /\ size \in 0 .. SLOTS
    BY <2>3, ClampedFacts
  <2>8. sector \in Sector
    BY FreeIsASlot DEF Sector
  <2> HIDE DEF to_write, base, zoned
  <2>9. /\ filled \in Disk /\ filled.inode = d.inode /\ filled.zone[z] = sector
        /\ \A x \in Zones : x # z => filled.zone[x] = d.zone[x]
    <3> HIDE DEF sector
    <3> QED BY <2>4, <2>6, <2>8, SetSectorFacts
  <2> HIDE DEF filled
  <2>10. inode \in InodeType
    BY <2>3, <2>4, <2>7 DEF InodeType, Inode
  <2> HIDE DEF inode
  <2>11. /\ ended.inode[n] = inode /\ ended.zone = filled.zone
         /\ \A m \in 1 .. BITS : m # n => ended.inode[m] = d.inode[m]
    BY <2>1, <2>9, <2>10, SetInodeFacts
  <2> HIDE DEF ended, fresh
  <2>12. \/ fresh /\ c.writes = <<zoned, filled, ended>>
         \/ c.writes = <<filled, ended>>
    BY <2>5, Joined
  <2>13. /\ fresh => Writing(d, zoned, n, z, inode)
         /\ Writing(d, filled, n, z, inode) /\ Writing(d, ended, n, z, inode)
    BY <2>6, <2>9, <2>11 DEF Writing
  <2>14. \A k \in 1 .. Len(c.writes) : Writing(d, c.writes[k], n, z, inode)
    BY <2>12, <2>13
  <2>15. Last(c.writes) = ended
    <3>1. CASE c.writes = <<filled, ended>>
      BY <3>1 DEF Last
    <3>2. CASE c.writes = <<zoned, filled, ended>>
      BY <3>2 DEF Last
    <3> QED BY <2>12, <3>1, <3>2
  <2>16. d.inode[n].zone = z \/ (d.inode[n].zone = 0 /\ z \notin d.zmap)
    BY <2>4 DEF fresh
  <2>17. /\ Last(c.writes).inode[n] = Inode(d.inode[n].mode, size, z)
         /\ Last(c.writes).zone[z] = sector
    BY <2>9, <2>11, <2>15 DEF inode
  <2>18. c.writes # <<>>
    <3>1. <<filled, ended>> # <<>> /\ <<zoned, filled, ended>> # <<>>
      OBVIOUS
    <3> QED BY <2>12, <3>1
  <2> HIDE DEF sector
  <2>19. Rewrites(d, c, n, size, input, count)
    BY <2>1, <2>4, <2>5, <2>18, <2>14, <2>16, <2>17 DEF Rewrites, inode, sector, to_write
  <2> QED BY <2>19
<1> HIDE DEF fresh, z, zoned, to_write, base, sector, filled, inode, ended
<1> QED BY <1>3, <1>4

LEMMA WriteFileDiffers ==
  ASSUME Undeleted, NEW d, Steady(d), NEW path \in Routes,
         NEW input \in Sector, NEW count \in Nat
  PROVE  LET s == WriteFile(d, path, input, count).writes
         IN  \A k \in 1 .. Len(s) : Differs(d, s[k], {}, {path})
<1> DEFINE n == FindEntry(d, path)
           c == WriteFile(d, path, input, count)
           size == Grown(d.inode[n].size, Clamped(count))
<1> HIDE DEF n, c, size
<1>1. c.writes = <<>> \/ Rewrites(d, c, n, size, input, count)
  BY WriteFileIs DEF n, c, size
<1> SUFFICES ASSUME NEW k \in 1 .. Len(c.writes) PROVE Differs(d, c.writes[k], {}, {path})
  BY DEF c
<1> DEFINE w == c.writes[k]
<1>2. PICK y \in Zones \ {0} :
        /\ n \in 1 .. BITS
        /\ d.inode[n].zone = y \/ (d.inode[n].zone = 0 /\ y \notin d.zmap)
        /\ Writing(d, w, n, y, Inode(d.inode[n].mode, size, y))
  <2>1. Rewrites(d, c, n, size, input, count)
    BY <1>1
  <2> QED BY <2>1 DEF Rewrites
<1> HIDE DEF w
<1>3. /\ \A m \in 1 .. BITS : m # n => w.inode[m] = d.inode[m]
      /\ w.inode[n] = d.inode[n] \/ w.inode[n] = Inode(d.inode[n].mode, size, y)
      /\ \A x \in Zones : x # y => w.zone[x] = d.zone[x]
  BY <1>2 DEF Writing
<1>4. /\ d.inode[n].mode = "dir" => d.inode[n].zone # 0
      /\ \A m \in 1 .. BITS : m # n /\ d.inode[n].zone # 0 => d.inode[m].zone # d.inode[n].zone
  BY <1>2 DEF Steady, Owned
<1>5. /\ w.inode[n].mode = d.inode[n].mode
      /\ d.inode[n].mode = "dir" => w.inode[n].zone = d.inode[n].zone
  BY <1>2, <1>3, <1>4 DEF Inode
<1>6. FindEntry(d, path) = n
  BY DEF n
<1>7. ASSUME NEW m \in 1 .. BITS, w.inode[m] # d.inode[m]
      PROVE  m = n
  BY <1>3, <1>7
<1>8. ASSUME NEW z \in Zones, IsDirectory(d, z), w.zone[z] # d.zone[z]
      PROVE  n # 0 /\ d.inode[n].zone = z
  <2>1. z = y
    BY <1>3, <1>8
  <2>2. z \in d.zmap
    BY <1>8, InUse
  <2> QED BY <1>2, <2>1, <2>2
<1>9. ASSUME NEW m \in 1 .. BITS, d.inode[m].zone # 0,
             w.zone[d.inode[m].zone] # d.zone[d.inode[m].zone]
      PROVE  m = n
  <2>1. d.inode[m].zone \in d.zmap /\ d.inode[m].zone \in Zones
    BY <1>9, InUse
  <2>2. d.inode[m].zone = y
    BY <1>3, <1>9, <2>1
  <2> QED BY <1>2, <1>4, <1>9, <2>1, <2>2
<1>10. Differs(d, w, {}, {path})
  BY <1>5, <1>6, <1>7, <1>8, <1>9 DEF Differs
<1> QED BY <1>10 DEF w

(* What ReadFile reads of a path that is found, asked for a sector. *)
LEMMA ReadIs ==
  ASSUME NEW d, Typed(d), NEW path \in Routes, NEW n, n = FindEntry(d, path), n # 0
  PROVE  ReadFile(d, path, SLOTS) =
           [ret |-> d.inode[n].size,
            output |-> [i \in Slots |-> IF i < d.inode[n].size
                                        THEN IF d.inode[n].zone # 0
                                             THEN d.zone[d.inode[n].zone][i] ELSE Untouched[i]
                                        ELSE Free]]
<1> USE DEF Routes
<1> DEFINE size == d.inode[n].size
           z == d.inode[n].zone
           actual == IF SLOTS > size THEN size ELSE SLOTS
           wanted == [i \in Slots |->
                        CASE i < actual /\ z # 0        -> d.zone[z][i]
                          [] i >= actual /\ i < SLOTS   -> Free
                          [] OTHER                      -> Untouched[i]]
           had == [i \in Slots |-> IF i < size THEN IF z # 0 THEN d.zone[z][i] ELSE Untouched[i]
                                   ELSE Free]
<1>1. n \in 1 .. BITS
  <2>1. n \in 2 .. BITS
    BY DirZoneFacts
  <2> QED BY <2>1
<1>2. size \in 0 .. SLOTS /\ SLOTS \in Nat
  <2>1. d.inode[n] \in InodeType
    BY <1>1, DiskParts DEF Typed
  <2> QED BY <2>1, BitsAssumption DEF InodeType
<1>3. ReadFile(d, path, SLOTS) = [ret |-> actual, output |-> wanted]
  BY DEF ReadFile
<1> HIDE DEF size, z
<1>4. actual = size
  BY <1>2
<1> HIDE DEF actual
<1>5. ASSUME NEW i \in Slots PROVE wanted[i] = had[i]
  <2>1. i \in Nat /\ i < SLOTS
    BY <1>2 DEF Slots
  <2>2. CASE i < size /\ z # 0
    <3>1. wanted[i] = d.zone[z][i]
      BY <1>2, <1>4, <2>1, <2>2
    <3>2. had[i] = d.zone[z][i]
      BY <2>2
    <3> QED BY <3>1, <3>2
  <2>3. CASE i < size /\ z = 0
    <3>1. ~(i >= actual)
      BY <1>2, <1>4, <2>1, <2>3
    <3>2. wanted[i] = Untouched[i]
      BY <2>3, <3>1
    <3>3. had[i] = Untouched[i]
      BY <2>3
    <3> QED BY <3>2, <3>3
  <2>4. CASE ~(i < size)
    <3>1. i >= actual /\ ~(i < actual)
      BY <1>2, <1>4, <2>1, <2>4
    <3>2. wanted[i] = Free
      BY <2>1, <3>1
    <3>3. had[i] = Free
      BY <2>4
    <3> QED BY <3>2, <3>3
  <2> QED BY <2>2, <2>3, <2>4
<1>6. wanted = had
  <2>1. wanted = [i \in Slots |-> wanted[i]] /\ had = [i \in Slots |-> had[i]]
    OBVIOUS
  <2> HIDE DEF wanted, had
  <2> QED BY <1>5, <2>1
<1> HIDE DEF wanted
<1> QED BY <1>3, <1>4, <1>6 DEF size, z

(* Two walks are together for as long as their names are the same.          *)
LEMMA SameStart ==
  ASSUME NEW d, NEW p, NEW at, IsWalk(at, d, p), NEW q, NEW to, IsWalk(to, d, q),
         NEW k \in Nat, k \in 0 .. Len(p) - 1, k \in 0 .. Len(q) - 1,
         \A l \in 1 .. k : p[l] = q[l]
  PROVE  \A j \in 0 .. k : at[j] = to[j]
<1> DEFINE S == {j \in 0 .. k : at[j] = to[j]}
<1>1. 0 \in S
  BY DEF IsWalk
<1>2. ASSUME NEW j \in 0 .. k - 1, j \in S PROVE j + 1 \in S
  <2> DEFINE l == j + 1
  <2>1. /\ l \in 1 .. k /\ l \in 0 .. k /\ l - 1 = j
        /\ l \in 1 .. Len(p) - 1 /\ l \in 1 .. Len(q) - 1
    OBVIOUS
  <2> HIDE DEF l
  <2>2. at[l] = Descend(d, at[j], p[l]) /\ to[l] = Descend(d, to[j], q[l])
    BY <2>1 DEF IsWalk
  <2>3. p[l] = q[l] /\ at[j] = to[j]
    BY <1>2, <2>1
  <2>4. l \in S
    BY <2>1, <2>2, <2>3
  <2> QED BY <2>4 DEF l
<1> HIDE DEF S
<1>3. 0 .. k \subseteq S
  BY <1>1, <1>2, BoundedInduction
<1> QED BY <1>3 DEF S

(* One name further than a path that leads to a directory.                  *)
LEMMA Deeper ==
  ASSUME NEW d, Steady(d), NEW p \in Routes, NEW x,
         FindEntry(d, p) # 0, d.inode[FindEntry(d, p)].mode = "dir"
  PROVE  DirZone(d, Append(p, x)) = d.inode[FindEntry(d, p)].zone
<1> USE DEF Routes
<1> DEFINE n == FindEntry(d, p)
           q == Append(p, x)
           N == Len(p)
<1>1. Typed(d)
  BY DEF Steady
<1>2. N \in Nat \ {0} /\ N - 1 \in Nat /\ (\A k \in 1 .. N : p[k] \in Names)
      /\ Last(p) = p[N]
  BY PathFacts
<1>3. Len(q) = N + 1 /\ \A k \in 1 .. N : q[k] = p[k]
  <2> DEFINE S == Names \cup {x}
  <2>1. p \in Seq(S) /\ x \in S
    OBVIOUS
  <2> HIDE DEF S
  <2> QED BY <2>1, AppendProperties
<1>4. /\ DirZone(d, p) # NONE /\ n = Lookup(d.zone[DirZone(d, p)], Last(p))
      /\ n \in 2 .. BITS
  BY <1>1, DirZoneFacts
<1> HIDE DEF n, q
<1>5. PICK at : IsWalk(at, d, p)
  BY <1>1, WalkExists
<1>6. DirZone(d, p) = at[N - 1]
  BY <1>5, WalkEnds
<1> HIDE DEF N
<1>7. Len(q) - 1 = N /\ Len(q) - 1 \in Nat /\ N - 1 \in 0 .. N - 1 /\ N - 1 \in 0 .. N
      /\ N \in 1 .. N /\ N - 1 \in Nat /\ \A l \in 1 .. N - 1 : l \in 1 .. N
  BY <1>2, <1>3
<1>8. PICK to : IsWalk(to, d, q)
  <2>1. \A k \in 1 .. Len(q) - 1 : q[k] \in Names
    BY <1>2, <1>3, <1>7
  <2> QED BY <1>1, <1>7, <2>1, WalkExistsTo
<1>9. to[N - 1] = at[N - 1]
  <2>1. \A l \in 1 .. N - 1 : p[l] = q[l]
    BY <1>3, <1>7
  <2>2. N - 1 \in 0 .. Len(p) - 1 /\ N - 1 \in 0 .. Len(q) - 1 /\ N - 1 \in 0 .. N - 1
    BY <1>7 DEF N
  <2> DEFINE k == N - 1
  <2>3. \A j \in 0 .. k : at[j] = to[j]
    <3>1. k \in Nat /\ k \in 0 .. Len(p) - 1 /\ k \in 0 .. Len(q) - 1
          /\ \A l \in 1 .. k : p[l] = q[l]
      BY <1>7, <2>1, <2>2
    <3> HIDE DEF k
    <3> QED BY <1>5, <1>8, <3>1, SameStart, SMTT(30)
  <2> QED BY <2>2, <2>3
<1>10. to[N] = Descend(d, at[N - 1], Last(p))
  BY <1>2, <1>3, <1>7, <1>8, <1>9 DEF IsWalk
<1>11. to[N] = d.inode[n].zone
  BY <1>4, <1>6, <1>10 DEF Descend, n
<1>12. d.inode[n].zone # 0
  <2>1. n \in 1 .. BITS /\ d.inode[n].mode = "dir"
    BY <1>4 DEF n
  <2> QED BY <2>1 DEF Steady, Owned
<1>13. DirZone(d, q) = to[N]
  BY <1>7, <1>8, <1>11, <1>12 DEF IsWalk
<1> QED BY <1>11, <1>13 DEF n, q

(* Where a path is found, every path that it begins with is.                *)
LEMMA PrefixFound ==
  ASSUME NEW d, Steady(d), NEW p \in Routes, NEW q \in Routes, IsPrefix(q, p),
         FindEntry(d, p) # 0
  PROVE  FindEntry(d, q) # 0
<1> USE DEF Routes
<1> DEFINE N == Len(p) - 1
           k == Len(q)
<1>1. Typed(d)
  BY DEF Steady
<1>2. /\ N \in Nat /\ k \in Nat \ {0} /\ Len(p) = N + 1
      /\ \A l \in 1 .. Len(p) : p[l] \in Names
      /\ Last(p) = p[Len(p)] /\ Last(q) = q[k]
  BY PathFacts
<1>3. k \in 0 .. Len(p) /\ \A l \in 1 .. k : q[l] = p[l]
  <2>1. p \in Seq(Names) /\ q \in Seq(Names)
    OBVIOUS
  <2> QED BY <2>1, PrefixStarts DEF Starts
<1>4. PICK at : IsWalk(at, d, p)
  BY <1>1, WalkExists
<1>5. PICK to : IsWalk(to, d, q)
  BY <1>1, WalkExists
<1>6. at[N] # NONE /\ Lookup(d.zone[at[N]], Last(p)) # 0
  <2>1. DirZone(d, p) = at[N]
    BY <1>4, WalkEnds
  <2> HIDE DEF N
  <2> QED BY <2>1 DEF FindEntry
<1>7. DirZone(d, q) = to[k - 1]
  BY <1>5, WalkEnds
<1>8. to[k - 1] = at[k - 1]
  <2> DEFINE m == k - 1
  <2>1. m \in Nat /\ m \in 0 .. Len(p) - 1 /\ m \in 0 .. Len(q) - 1 /\ m \in 0 .. m
        /\ \A l \in 1 .. m : p[l] = q[l]
    BY <1>2, <1>3
  <2> HIDE DEF m, k, N
  <2>2. at[m] = to[m]
    BY <1>4, <1>5, <2>1, SameStart
  <2> QED BY <2>2 DEF m
<1>9. ASSUME NEW b \in 0 .. N, at[b] = NONE PROVE FALSE
  <2> DEFINE S == {j \in 0 .. N : j >= b => at[j] = NONE}
  <2>1. 0 \in S
    BY <1>2, <1>9
  <2>2. ASSUME NEW j \in 0 .. N - 1, j \in S PROVE j + 1 \in S
    <3> DEFINE l == j + 1
    <3>1. l \in 1 .. Len(p) - 1 /\ l \in 0 .. N /\ l - 1 = j /\ l \in Nat /\ j \in Nat
          /\ (l >= b => j >= b \/ l = b)
      BY <1>2
    <3> HIDE DEF l
    <3>2. at[l] = Descend(d, at[j], p[l])
      BY <1>4, <3>1 DEF IsWalk
    <3>3. at[j] = NONE => at[l] = NONE
      BY <3>2 DEF Descend
    <3>4. l \in S
      BY <1>9, <2>2, <3>1, <3>3
    <3> QED BY <3>4 DEF l
  <2> HIDE DEF S
  <2>3. 0 .. N \subseteq S
    BY <1>2, <2>1, <2>2, BoundedInduction
  <2>4. N \in 0 .. N /\ N >= b
    BY <1>2
  <2>5. at[N] = NONE
    BY <2>3, <2>4 DEF S
  <2> QED BY <1>6, <2>5
<1>10. at[k - 1] # NONE
  <2>1. k - 1 \in 0 .. N
    BY <1>2, <1>3
  <2> QED BY <1>9, <2>1
<1>11. Lookup(d.zone[at[k - 1]], p[k]) # 0
  <2>1. CASE k = Len(p)
    BY <1>2, <1>6, <2>1, SMTT(30)
  <2>2. CASE k # Len(p)
    <3>1. k \in 1 .. Len(p) - 1 /\ k \in 0 .. N
      BY <1>2, <1>3, <2>2
    <3> HIDE DEF k, N
    <3>2. at[k] # NONE /\ at[k] = Descend(d, at[k - 1], p[k])
      BY <1>4, <1>9, <3>1 DEF IsWalk
    <3> QED BY <1>10, <3>2 DEF Descend
  <2> QED BY <2>1, <2>2
<1>12. Last(q) = p[k]
  BY <1>2, <1>3
<1> HIDE DEF k
<1> QED BY <1>7, <1>8, <1>10, <1>11, <1>12 DEF FindEntry

(* CreateFile: the new file is empty.                                       *)
LEMMA CreateFileJob ==
  ASSUME Undeleted, NEW d, Steady(d), NEW path \in Routes,
         NEW c, c = CreateFile(d, path), c.ret >= 0
  PROVE  /\ c.ret = 0 /\ FindEntry(d, path) = 0
         /\ c.writes \in Seq(SteadyDisks) /\ Len(c.writes) = 3
         /\ Last(c.writes) \in SteadyDisks
         /\ FindEntry(Last(c.writes), path) \in 2 .. BITS
         /\ Last(c.writes).inode[FindEntry(Last(c.writes), path)] = Inode("file", 0, 0)
<1> USE DEF Routes
<1>1. c.ret = 0 /\ FindEntry(d, path) = 0
  <2>1. \/ c.ret = -EEXIST \/ c.ret = -ENOENT \/ c.ret = -ENOSPC
        \/ c.ret = 0 /\ FindEntry(d, path) = 0
    BY DEF CreateFile, Fails
  <2> QED BY <2>1 DEF EEXIST, ENOENT, ENOSPC
<1>2. /\ c.writes \in Seq(SteadyDisks)
      /\ LET w == Last(c.writes)
         IN  /\ Len(c.writes) = 3 /\ w \in SteadyDisks
             /\ Undeleted => /\ FindEntry(w, path) \in 2 .. BITS
                             /\ w.inode[FindEntry(w, path)] = Inode("file", 0, 0)
  BY <1>1, CreateFileSteps
<1> QED BY <1>1, <1>2

LEMMA FileIsMade ==
  ASSUME NEW w, Typed(w), NEW path \in Routes, FindEntry(w, path) \in 2 .. BITS,
         w.inode[FindEntry(w, path)] = Inode("file", 0, 0)
  PROVE  FileMade(w, path)
<1> DEFINE n == FindEntry(w, path)
<1>1. n # 0 /\ w.inode[n].mode = "file" /\ w.inode[n].size = 0 /\ w.inode[n].zone = 0
  BY DEF Inode
<1> HIDE DEF n
<1>2. ReadFile(w, path, SLOTS) =
        [ret |-> w.inode[n].size,
         output |-> [i \in Slots |-> IF i < w.inode[n].size
                                     THEN IF w.inode[n].zone # 0
                                          THEN w.zone[w.inode[n].zone][i] ELSE Untouched[i]
                                     ELSE Free]]
  BY <1>1, ReadIs DEF n
<1>3. ReadFile(w, path, SLOTS) = [ret |-> 0, output |-> Blank]
  <2>1. \A i \in Slots : ~(i < 0)
    BY DEF Slots
  <2> QED BY <1>1, <1>2, <2>1 DEF Blank
<1> QED BY <1>1, <1>3 DEF FileMade, View, n

(* CreateDir: the new directory has no names.                               *)
LEMMA DirIsMade ==
  ASSUME NEW w, Steady(w), NEW path \in Routes, EmptyDirAt(w, path)
  PROVE  DirMade(w, path)
<1> DEFINE n == FindEntry(w, path)
           z == w.inode[n].zone
<1>1. n # 0 /\ w.inode[n].mode = "dir" /\ \A s \in Slots : ~IsEntry(w.zone[z][s])
  BY DEF EmptyDirAt
<1>2. DirZone(w, Append(path, "")) = z
  BY <1>1, Deeper
<1>3. NamedIn(w, z) = {}
  <2> HIDE DEF z
  <2> QED BY <1>1 DEF NamedIn, IsEntry
<1>4. View(w, path) = <<"dir">>
  BY <1>1 DEF View
<1> QED BY <1>2, <1>3, <1>4 DEF DirMade

(* WriteFile: what was written is read back, with zeros behind it.          *)
LEMMA WriteFileJob ==
  ASSUME Undeleted, NEW d, Steady(d), NEW path \in Routes,
         NEW input \in Sector, Tidy(input), NEW count \in Nat,
         \/ \A i \in Slots : ~IsEntry(input[i])
         \/ d.inode[FindEntry(d, path)].mode # "dir",
         NEW c, c = WriteFile(d, path, input, count), c.ret >= 0
  PROVE  /\ c.writes \in Seq(SteadyDisks) /\ c.writes # <<>> /\ FindEntry(d, path) \in 2 .. BITS
         /\ c.ret = Clamped(count)
         /\ ReadFile(Last(c.writes), path, SLOTS) =
              [ret |-> Grown(d.inode[FindEntry(d, path)].size, Clamped(count)),
               output |-> [i \in Slots |-> IF i < Clamped(count) THEN input[i] ELSE Free]]
<1> USE DEF Routes
<1> DEFINE n == FindEntry(d, path)
           tw == Clamped(count)
           size == Grown(d.inode[n].size, tw)
           w == Last(c.writes)
<1>1. c.writes \in Seq(SteadyDisks)
  BY WriteFileSteps
<1> HIDE DEF n, size, w
<1>2. Rewrites(d, c, n, size, input, count)
  <2>1. (c.writes = <<>> /\ ~(c.ret >= 0)) \/ Rewrites(d, c, n, size, input, count)
    BY WriteFileIs DEF n, size
  <2> QED BY <2>1
<1>3. PICK y \in Zones \ {0} :
        /\ n \in 2 .. BITS /\ n \in 1 .. BITS /\ c.ret = tw /\ c.writes # <<>>
        /\ w.inode[n] = Inode(d.inode[n].mode, size, y)
        /\ w.zone[y] = [i \in Slots |-> IF i < tw THEN input[i] ELSE Free]
  BY <1>2 DEF Rewrites, w
<1>4. Typed(w) /\ Differs(d, w, {}, {path})
  <2> DEFINE s == c.writes
             k == Len(s)
  <2>1. s \in Seq(SteadyDisks) /\ s # <<>> /\ k \in 1 .. k /\ w = s[k]
    <3>1. Len(c.writes) \in Nat /\ Len(c.writes) # 0
      BY <1>1, <1>3, LenProperties, EmptySeq
    <3> QED BY <1>1, <1>3, <3>1 DEF w, Last
  <2>2. \A l \in 1 .. Len(s) : Differs(d, s[l], {}, {path})
    BY WriteFileDiffers
  <2> HIDE DEF s
  <2>3. Typed(s[k])
    BY <2>1, WritesSteady
  <2> QED BY <2>1, <2>2, <2>3
<1>5. FindEntry(w, path) = n
  <2>1. {} \in SUBSET Routes /\ {path} \in SUBSET Routes
    OBVIOUS
  <2>2. Beside({}, path) /\ Beside({path}, path) /\ path \notin {}
    BY DEF Beside
  <2>3. FindEntry(w, path) = FindEntry(d, path)
    BY <1>4, <2>1, <2>2, SamePlace
  <2> QED BY <2>3 DEF n
<1>6. /\ w.inode[n].size = size /\ w.inode[n].zone = y /\ y # 0
      /\ n # 0
  BY <1>3 DEF Inode
<1>7. ReadFile(w, path, SLOTS) =
        [ret |-> size,
         output |-> [i \in Slots |-> IF i < size THEN w.zone[y][i] ELSE Free]]
  <2>1. ReadFile(w, path, SLOTS) =
          [ret |-> w.inode[n].size,
           output |-> [i \in Slots |-> IF i < w.inode[n].size
                                       THEN IF w.inode[n].zone # 0
                                            THEN w.zone[w.inode[n].zone][i] ELSE Untouched[i]
                                       ELSE Free]]
    BY <1>4, <1>5, <1>6, ReadIs
  <2> QED BY <1>6, <2>1
<1>8. ASSUME NEW i \in Slots
      PROVE  (IF i < size THEN w.zone[y][i] ELSE Free) = (IF i < tw THEN input[i] ELSE Free)
  <2>1. tw <= size /\ tw \in Nat /\ size \in Nat /\ i \in Nat
    <3>1. d.inode[n] \in InodeType
      BY <1>3, DiskParts DEF Steady, Typed
    <3>2. tw \in 0 .. SLOTS /\ d.inode[n].size \in 0 .. SLOTS
      BY <3>1, ClampedFacts DEF InodeType
    <3> HIDE DEF tw
    <3>3. tw <= size /\ tw \in Nat /\ size \in Nat
      BY <3>2 DEF Grown, size
    <3> QED BY <3>3 DEF Slots
  <2> HIDE DEF tw
  <2>2. w.zone[y][i] = IF i < tw THEN input[i] ELSE Free
    BY <1>3
  <2> QED BY <2>1, <2>2
<1> QED BY <1>1, <1>3, <1>7, <1>8 DEF n, size, w

LEMMA LastWrite ==
  ASSUME NEW s \in Seq(SteadyDisks), s # <<>>
  PROVE  /\ Len(s) \in Nat \ {0} /\ Len(s) \in 1 .. Len(s) /\ Last(s) = s[Len(s)]
         /\ Steady(Last(s)) /\ Typed(Last(s)) /\ Last(s) \in SteadyDisks
<1>1. Len(s) \in Nat \ {0} /\ Len(s) \in 1 .. Len(s) /\ Last(s) = s[Len(s)]
  <2>1. Len(s) \in Nat /\ Len(s) # 0
    BY LenProperties, EmptySeq
  <2> QED BY <2>1 DEF Last
<1>2. Last(s) \in SteadyDisks
  BY <1>1, LenProperties
<1> QED BY <1>1, <1>2 DEF SteadyDisks, Steady

LEMMA JoinedWrites ==
  ASSUME NEW S, NEW s \in Seq(S), NEW t \in Seq(S)
  PROVE  /\ s \o t \in Seq(S)
         /\ t # <<>> => s \o t # <<>> /\ Last(s \o t) = Last(t)
         /\ \A k \in 1 .. Len(s \o t) :
              \/ k \in 1 .. Len(s) /\ (s \o t)[k] = s[k]
              \/ \E l \in 1 .. Len(t) : (s \o t)[k] = t[l]
<1> DEFINE a == Len(s)
           b == Len(t)
           u == s \o t
<1>1. a \in Nat /\ b \in Nat /\ (t # <<>> => b # 0)
  BY LenProperties, EmptySeq
<1>2. /\ u \in Seq(S) /\ Len(u) = a + b
      /\ \A k \in 1 .. a + b : u[k] = IF k <= a THEN s[k] ELSE t[k - a]
  BY ConcatProperties
<1> HIDE DEF a, b, u
<1>3. ASSUME t # <<>> PROVE u # <<>> /\ Last(u) = Last(t)
  <2>1. b # 0 /\ a + b # 0 /\ a + b \in 1 .. a + b /\ ~(a + b <= a) /\ (a + b) - a = b
    BY <1>1, <1>3
  <2>2. u[a + b] = t[b]
    BY <1>2, <2>1
  <2>3. Last(u) = u[a + b] /\ Last(t) = t[b]
    BY <1>2 DEF Last, b
  <2>4. u # <<>>
    BY <1>2, <2>1
  <2> QED BY <2>2, <2>3, <2>4
<1>4. ASSUME NEW k \in 1 .. Len(u)
      PROVE  (k \in 1 .. a /\ u[k] = s[k]) \/ \E l \in 1 .. b : u[k] = t[l]
  <2>1. k \in 1 .. a + b
    BY <1>2
  <2>2. CASE k <= a
    BY <1>1, <1>2, <2>1, <2>2
  <2>3. CASE ~(k <= a)
    <3>1. u[k] = t[k - a] /\ k - a \in 1 .. b
      BY <1>1, <1>2, <2>1, <2>3
    <3> QED BY <3>1
  <2> QED BY <2>2, <2>3
<1> QED BY <1>2, <1>3, <1>4 DEF a, b, u

(* A copy that comes to its writing: what was read, and the file made.      *)
Copying(d, path, dest, read, created, written, c) ==
  LET w == Last(created.writes)
  IN  /\ FindEntry(d, path) # 0 /\ FindEntry(d, dest) = 0
      /\ read.output \in Sector /\ Tidy(read.output) /\ read.ret \in 0 .. SLOTS
      /\ created.writes \in Seq(SteadyDisks) /\ created.writes # <<>>
      /\ FindEntry(w, dest) \in 2 .. BITS
      /\ w.inode[FindEntry(w, dest)] = Inode("file", 0, 0)
      /\ written.writes \in Seq(SteadyDisks)
      /\ c.writes = created.writes \o written.writes
      /\ c.ret >= 0 => written.ret = read.ret

LEMMA CopyFileIs ==
  ASSUME WellNamed, Undeleted, NEW d, Steady(d), NEW path \in Routes, NEW dest \in Routes
  PROVE  LET read    == ReadFile(d, path, SLOTS)
             created == CreateFile(d, dest)
             written == WriteFile(Last(created.writes), dest, read.output, read.ret)
             c       == CopyFile(d, path, dest)
         IN  \/ c.writes = <<>> /\ ~(c.ret >= 0)
             \/ c = created /\ ~(c.ret >= 0)
             \/ Copying(d, path, dest, read, created, written, c)
<1> USE DEF Routes
<1> DEFINE read    == ReadFile(d, path, SLOTS)
           created == CreateFile(d, dest)
           w == Last(created.writes)
           written == WriteFile(w, dest, read.output, read.ret)
           c == CopyFile(d, path, dest)
<1>1. c = IF read.ret < 0 THEN [ret |-> read.ret, writes |-> <<>>]
          ELSE IF created.ret # 0 THEN created
          ELSE [ret |-> IF written.ret # read.ret THEN -1 ELSE 0,
                writes |-> created.writes \o written.writes]
  BY DEF CopyFile
<1> SUFFICES \/ c.writes = <<>> /\ ~(c.ret >= 0)
             \/ c = created /\ ~(c.ret >= 0)
             \/ Copying(d, path, dest, read, created, written, c)
  OBVIOUS
<1>2. /\ read.output \in Sector
      /\ FindEntry(d, path) = 0 => read.ret < 0 /\ ~(read.ret >= 0)
      /\ FindEntry(d, path) # 0 => read.ret \in 0 .. SLOTS /\ Tidy(read.output)
  <2>1. SLOTS \in Nat /\ Typed(d)
    BY BitsAssumption DEF Steady
  <2>2. FindEntry(d, path) = 0 => read.ret = -ENOENT
    BY DEF ReadFile
  <2>3. FindEntry(d, path) = 0 => read.ret < 0 /\ ~(read.ret >= 0)
    BY <2>2 DEF ENOENT
  <2> QED BY <2>1, <2>3, ReadFileFacts
<1> HIDE DEF read, c
<1>3. CASE FindEntry(d, path) = 0
  <2>1. c = [ret |-> read.ret, writes |-> <<>>]
    BY <1>1, <1>2, <1>3
  <2> QED BY <1>2, <1>3, <2>1
<1>4. CASE FindEntry(d, path) # 0 /\ ~(created.ret >= 0)
  <2>1. ~(read.ret < 0) /\ created.ret # 0
    BY <1>2, <1>4
  <2>2. c = created
    BY <1>1, <2>1
  <2> QED BY <1>4, <2>2
<1>5. CASE FindEntry(d, path) # 0 /\ created.ret >= 0
  <2>1. ~(read.ret < 0) /\ read.ret \in 0 .. SLOTS /\ read.ret \in Nat
    BY <1>2, <1>5, BitsAssumption
  <2>2. /\ created.ret = 0 /\ FindEntry(d, dest) = 0
        /\ created.writes \in Seq(SteadyDisks) /\ Len(created.writes) = 3
        /\ w \in SteadyDisks /\ FindEntry(w, dest) \in 2 .. BITS
        /\ w.inode[FindEntry(w, dest)] = Inode("file", 0, 0)
    BY <1>5, CreateFileJob
  <2> HIDE DEF w, created
  <2>3. created.writes # <<>>
    <3>1. created.writes \in Seq(SteadyDisks) /\ Len(created.writes) = 3
      BY <2>2
    <3>2. Len(created.writes) # 0
      BY <3>1
    <3> QED BY <3>1, <3>2, EmptySeq, Zenon
  <2>4. written.writes \in Seq(SteadyDisks)
    <3>1. Steady(w) /\ w.inode[FindEntry(w, dest)].mode # "dir"
      BY <2>2 DEF SteadyDisks, Inode
    <3>2. Tidy(read.output)
      BY <1>2, <1>5
    <3>3. written = WriteFile(w, dest, read.output, read.ret)
      OBVIOUS
    <3> QED BY <1>2, <2>1, <3>1, <3>2, <3>3, WriteFileSteps
  <2> HIDE DEF written
  <2>5. c = [ret |-> IF written.ret # read.ret THEN -1 ELSE 0,
             writes |-> created.writes \o written.writes]
    BY <1>1, <2>1, <2>2
  <2>6. ASSUME written.ret # read.ret PROVE ~(c.ret >= 0)
    <3>1. c.ret = IF written.ret # read.ret THEN -1 ELSE 0
      BY <2>5, Zenon
    <3>2. c.ret = -1
      BY <2>6, <3>1
    <3> QED BY <3>2
  <2>7. c.writes = created.writes \o written.writes
    BY <2>5, Zenon
  <2>8. c.writes = created.writes \o written.writes /\ (c.ret >= 0 => written.ret = read.ret)
    BY <2>6, <2>7
  <2> QED BY <1>2, <1>5, <2>1, <2>2, <2>3, <2>4, <2>8 DEF Copying, w
<1> QED BY <1>3, <1>4, <1>5

LEMMA Together ==
  ASSUME NEW r \in Routes PROVE IsPrefix(r, r)
<1>1. Len(r) \in Nat /\ r \in Seq(Names)
  BY LenProperties DEF Routes
<1>2. Len(r) \in 0 .. Len(r) /\ Starts(r, r, Len(r))
  BY <1>1 DEF Starts
<1> QED BY <1>1, <1>2, StartsIs

LEMMA SameRead ==
  ASSUME Undeleted, NEW d, Steady(d), NEW w, Typed(w),
         NEW E \in SUBSET Routes, NEW F \in SUBSET Routes, Differs(d, w, E, F),
         NEW r \in Routes, Beside(E, r), Beside(F, r), r \notin E, r \notin F,
         \A e \in E : ~IsPrefix(r, e)
  PROVE  /\ FindEntry(w, r) = FindEntry(d, r)
         /\ ReadFile(w, r, SLOTS) = ReadFile(d, r, SLOTS)
<1> DEFINE n == FindEntry(d, r)
<1>1. FindEntry(d, r) = n
  OBVIOUS
<1> HIDE DEF n
<1>2. FindEntry(w, r) = n /\ \A count \in Nat : ReadFile(w, r, count) = ReadFile(d, r, count)
  BY <1>1, SameReading
<1>3. SLOTS \in Nat
  BY BitsAssumption
<1> QED BY <1>1, <1>2, <1>3

(* CopyFile: the copy reads as its source, which reads as it did.           *)
LEMMA CopyFileJob ==
  ASSUME WellNamed, Undeleted, NEW d, Steady(d), NEW path \in Routes, NEW dest \in Routes,
         NEW c, c = CopyFile(d, path, dest), c.ret >= 0, c.writes # <<>>
  PROVE  Copied(Last(c.writes), path, dest)
<1> DEFINE read    == ReadFile(d, path, SLOTS)
           created == CreateFile(d, dest)
           w == Last(created.writes)
           written == WriteFile(w, dest, read.output, read.ret)
           v == Last(c.writes)
<1>1. CopyFile(d, path, dest) = c
  OBVIOUS
<1> HIDE DEF read, created, written
<1>2. Copying(d, path, dest, read, created, written, c)
  <2>1. \/ c.writes = <<>> /\ ~(c.ret >= 0)
        \/ c = created /\ ~(c.ret >= 0)
        \/ Copying(d, path, dest, read, created, written, c)
    BY CopyFileIs DEF read, created, written
  <2> QED BY <2>1
<1>3. /\ FindEntry(d, path) # 0 /\ FindEntry(d, dest) = 0
      /\ read.output \in Sector /\ Tidy(read.output) /\ read.ret \in 0 .. SLOTS
      /\ created.writes \in Seq(SteadyDisks) /\ created.writes # <<>>
      /\ FindEntry(w, dest) \in 2 .. BITS
      /\ w.inode[FindEntry(w, dest)] = Inode("file", 0, 0)
      /\ written.writes \in Seq(SteadyDisks)
      /\ c.writes = created.writes \o written.writes /\ written.ret = read.ret
  BY <1>2 DEF Copying
<1>4. Steady(w) /\ Typed(w) /\ Differs(d, w, {dest}, {})
  <2>1. \A k \in 1 .. Len(created.writes) : Differs(d, created.writes[k], {dest}, {})
    BY CreateFileDiffers DEF created
  <2> QED BY <1>3, <2>1, LastWrite
<1> HIDE DEF w
<1>5. /\ written.ret >= 0 /\ read.ret \in Nat /\ Clamped(read.ret) = read.ret
      /\ Grown(0, read.ret) = read.ret
  <2>1. read.ret \in Nat /\ read.ret <= SLOTS /\ SLOTS \in Nat
    BY <1>3, BitsAssumption
  <2> QED BY <1>3, <2>1 DEF Clamped, Grown
<1>6. /\ written.writes # <<>>
      /\ ReadFile(Last(written.writes), dest, SLOTS) =
           [ret |-> read.ret,
            output |-> [i \in Slots |-> IF i < read.ret THEN read.output[i] ELSE Free]]
  <2>1. /\ w.inode[FindEntry(w, dest)].mode # "dir"
        /\ w.inode[FindEntry(w, dest)].size = 0
    BY <1>3 DEF Inode
  <2>2. written = WriteFile(w, dest, read.output, read.ret)
    BY DEF written
  <2>3. /\ written.writes # <<>>
        /\ ReadFile(Last(written.writes), dest, SLOTS) =
             [ret |-> Grown(w.inode[FindEntry(w, dest)].size, Clamped(read.ret)),
              output |-> [i \in Slots |-> IF i < Clamped(read.ret) THEN read.output[i] ELSE Free]]
    <3> DEFINE input == read.output
               count == read.ret
    <3>1. /\ Steady(w) /\ dest \in Routes /\ input \in Sector /\ Tidy(input) /\ count \in Nat
          /\ written = WriteFile(w, dest, input, count) /\ written.ret >= 0
          /\ w.inode[FindEntry(w, dest)].mode # "dir"
      BY <1>3, <1>4, <1>5, <2>1, <2>2
    <3> HIDE DEF input, count
    <3>2. /\ written.writes # <<>>
          /\ ReadFile(Last(written.writes), dest, SLOTS) =
               [ret |-> Grown(w.inode[FindEntry(w, dest)].size, Clamped(count)),
                output |-> [i \in Slots |-> IF i < Clamped(count) THEN input[i] ELSE Free]]
      BY <3>1, WriteFileJob
    <3> QED BY <3>2 DEF input, count
  <2> QED BY <1>5, <2>1, <2>3
<1>7. /\ v = Last(written.writes) /\ Typed(v) /\ Differs(w, v, {}, {dest})
  <2>1. v = Last(written.writes)
    BY <1>3, <1>6, JoinedWrites
  <2>2. \A k \in 1 .. Len(written.writes) : Differs(w, written.writes[k], {}, {dest})
    BY <1>3, <1>4, <1>5, WriteFileDiffers DEF written, w
  <2> HIDE DEF v
  <2> QED BY <1>3, <1>6, <2>1, <2>2, LastWrite
<1> HIDE DEF v
<1>8. read = [ret |-> read.ret,
              output |-> [i \in Slots |-> IF i < read.ret THEN read.output[i] ELSE Free]]
  <2> DEFINE n == FindEntry(d, path)
             size == d.inode[n].size
             had == [i \in Slots |-> IF i < size THEN IF d.inode[n].zone # 0
                                                     THEN d.zone[d.inode[n].zone][i]
                                                     ELSE Untouched[i]
                                     ELSE Free]
  <2>1. read = [ret |-> size, output |-> had]
    BY <1>3, ReadIs DEF read, Steady
  <2> HIDE DEF n, size
  <2>2. had = [i \in Slots |-> IF i < size THEN had[i] ELSE Free]
    OBVIOUS
  <2> HIDE DEF had
  <2> QED BY <2>1, <2>2
<1>9. SUFFICES ASSUME ~IsPrefix(path, dest)
               PROVE  ReadFile(v, dest, SLOTS) = ReadFile(v, path, SLOTS)
  BY DEF Copied, v
<1>10. ~IsPrefix(dest, path)
  BY <1>3, PrefixFound
<1>11. path # dest
  BY <1>9, Together
<1> DEFINE O == {}
           D == {dest}
<1>12. /\ O \in SUBSET Routes /\ D \in SUBSET Routes
       /\ Beside(O, path) /\ Beside(D, path) /\ path \notin O /\ path \notin D
       /\ (\A e \in D : ~IsPrefix(path, e)) /\ (\A e \in O : ~IsPrefix(path, e))
  BY <1>9, <1>10, <1>11 DEF Beside
<1>13. Differs(d, w, D, O) /\ Differs(w, v, O, D)
  BY <1>4, <1>7
<1> HIDE DEF O, D
<1>14. FindEntry(w, path) = FindEntry(d, path) /\ ReadFile(w, path, SLOTS) = read
  BY <1>3, <1>4, <1>12, <1>13, SameRead DEF read
<1>15. ReadFile(v, path, SLOTS) = ReadFile(w, path, SLOTS)
  BY <1>3, <1>4, <1>7, <1>12, <1>13, <1>14, SameRead
<1> QED BY <1>6, <1>7, <1>8, <1>14, <1>15

(* Rename: the entry is found under its new path, and not under its old.    *)
LEMMA RenameJob ==
  ASSUME Undeleted, NEW d, Steady(d), NEW path \in Routes, NEW new \in Routes,
         LET c == Rename(d, path, new) IN c.ret >= 0 /\ c.writes # <<>>
  PROVE  Moved(Last(Rename(d, path, new).writes), path, new)
<1> USE DEF Routes
<1> DEFINE z == DirZone(d, path)
           i == EntryOf(d.zone[z], Last(path))
           removed == Unlink(d, z, i)
           to == DirZone(d, new)
           j == FreeSlot(removed.zone[to])
           n == d.zone[z][i].inode
           slot == Slot(n, Last(new))
           entered == SetSlot(removed, to, j, slot)
           c == Rename(d, path, new)
<1>1. /\ z # NONE /\ to # NONE /\ FindEntry(d, new) = 0 /\ i # NONE /\ j # NONE
      /\ c.writes = <<removed, entered>>
  <2>1. \/ c.writes = <<>>
        \/ c.ret = -ENOSPC
        \/ /\ z # NONE /\ to # NONE /\ FindEntry(d, new) = 0 /\ i # NONE /\ j # NONE
           /\ c.writes = <<removed, entered>>
    <3> HIDE DEF z, to, i, j, removed, entered
    <3> QED BY DEF Rename, Fails, removed, entered, z, to, i, j
  <2> HIDE DEF c, removed, entered, z, to, i, j
  <2>2. c.ret >= 0 /\ c.writes # <<>>
    BY DEF c
  <2>3. c.ret # -ENOSPC
    BY <2>2 DEF ENOSPC
  <2> QED BY <2>1, <2>2, <2>3
<1>2. Typed(entered) /\ Differs(d, entered, {path, new}, {})
  <2> DEFINE s == c.writes
  <2>1. s \in Seq(SteadyDisks)
    BY RenameSteps
  <2>2. \A k \in 1 .. Len(s) : Differs(d, s[k], {path, new}, {})
    BY RenameDiffers
  <2>3. 2 \in 1 .. Len(s) /\ s[2] = entered
    <3> HIDE DEF removed, entered
    <3> QED BY <1>1
  <2> HIDE DEF s, entered
  <2>4. Typed(s[2])
    BY <2>1, <2>3, WritesSteady
  <2> QED BY <2>2, <2>3, <2>4
<1>3. Last(c.writes) = entered
  <2> HIDE DEF removed, entered, c
  <2> QED BY <1>1 DEF Last
<1> HIDE DEF c
<1>4. d \in Disk /\ Typed(d)
  BY DEF Steady, Typed
<1>5. z \in Zones /\ to \in Zones /\ Last(path) \in Names /\ Last(new) \in Names
  BY <1>1, <1>4, DirZoneFacts
<1>6. /\ i \in Slots /\ d.zone[z][i].inode # 0 /\ d.zone[z][i].name = Last(path)
  BY <1>1, EntryOfFacts
<1>7. j \in Slots /\ removed.zone[to][j].inode = 0
  BY <1>1, FreeSlotFacts
<1>8. Lookup(d.zone[to], Last(new)) = 0
  BY <1>1 DEF FindEntry
<1> HIDE DEF j, i, z, to
<1>9. IsEntry(d.zone[z][i]) /\ Tidy(d.zone[z]) /\ n \in 2 .. BITS /\ n \in 0 .. BITS + 1
  <2>1. IsEntry(d.zone[z][i]) /\ Tidy(d.zone[z])
    BY <1>4, <1>5, <1>6 DEF Typed, IsEntry
  <2>2. n \in 2 .. BITS
    BY <1>6, <2>1 DEF Tidy
  <2> HIDE DEF n
  <2> QED BY <2>1, <2>2, BitsAssumption
<1>10. /\ removed \in Disk /\ removed.zone[z][i] = Free
       /\ \A l \in Slots : l # i => removed.zone[z][l] = d.zone[z][l]
       /\ \A y \in Zones : y # z => removed.zone[y] = d.zone[y]
  BY <1>4, <1>5, <1>6, SetSlotFacts, FreeIsASlot DEF Unlink
<1> HIDE DEF removed
<1>11. slot \in SlotType /\ slot.name = Last(new) /\ slot.inode = n /\ IsEntry(slot)
  BY <1>5, <1>9, SlotFacts DEF IsEntry
<1> HIDE DEF slot
<1>12. /\ entered.zone[to][j] = slot
       /\ \A l \in Slots : l # j => entered.zone[to][l] = removed.zone[to][l]
       /\ \A y \in Zones : y # to => entered.zone[y] = removed.zone[y]
  BY <1>5, <1>7, <1>10, <1>11, SetSlotFacts
<1> HIDE DEF entered
<1>13. FindEntry(d, path) # 0
  <2>1. Lookup(d.zone[z], Last(path)) = n
    BY <1>5, <1>6, <1>9, LookupFacts
  <2> QED BY <1>1, <1>9, <2>1 DEF FindEntry, z
<1>14. SUFFICES ASSUME ~IsPrefix(path, new)
                PROVE  FindEntry(entered, path) = 0 /\ FindEntry(entered, new) # 0
  BY <1>3 DEF Moved, c
<1>15. ~IsPrefix(new, path)
  BY <1>1, <1>13, PrefixFound
<1>16. DirZone(entered, path) = z /\ DirZone(entered, new) = to
  <2> DEFINE E == {path, new}
             F == {}
  <2>1. /\ E \in SUBSET Routes /\ F \in SUBSET Routes
        /\ Beside(E, path) /\ Beside(F, path) /\ Beside(E, new) /\ Beside(F, new)
    BY <1>14, <1>15 DEF Beside
  <2>2. Differs(d, entered, E, F)
    BY <1>2
  <2> HIDE DEF E, F
  <2> QED BY <1>2, <2>1, <2>2, SamePlace DEF z, to
<1>17. Tidy(entered.zone[z]) /\ Tidy(entered.zone[to])
  BY <1>2, <1>5 DEF Typed
<1>18. FindEntry(entered, new) # 0
  <2>1. Lookup(entered.zone[to], Last(new)) = n
    BY <1>5, <1>7, <1>11, <1>12, <1>17, LookupFacts
  <2> QED BY <1>1, <1>9, <1>16, <2>1 DEF FindEntry
<1>19. Lookup(entered.zone[z], Last(path)) = 0
  <2>1. SUFFICES ASSUME Lookup(entered.zone[z], Last(path)) # 0 PROVE FALSE
    OBVIOUS
  <2>2. PICK l \in Slots : /\ IsEntry(entered.zone[z][l])
                           /\ entered.zone[z][l].name = Last(path)
    BY <1>5, <1>17, <2>1, LookupFacts, SMTT(30)
  <2>3. CASE z = to /\ l = j
    <3>1. Last(new) = Last(path) /\ IsEntry(d.zone[to][i]) /\ d.zone[to][i].name = Last(new)
      BY <1>6, <1>9, <1>11, <1>12, <2>2, <2>3
    <3>2. Tidy(d.zone[to])
      BY <1>9, <2>3
    <3> QED BY <1>5, <1>6, <1>8, <3>1, <3>2, LookupFacts
  <2>4. CASE ~(z = to /\ l = j)
    <3>1. entered.zone[z][l] = removed.zone[z][l]
      BY <1>5, <1>12, <2>2, <2>4
    <3>2. l # i
      BY <1>10, <2>2, <3>1, FreeIsASlot
    <3>3. entered.zone[z][l] = d.zone[z][l]
      BY <1>10, <2>2, <3>1, <3>2
    <3>4. IsEntry(d.zone[z][l]) /\ d.zone[z][l].name = d.zone[z][i].name
      BY <1>6, <2>2, <3>3
    <3> QED BY <1>6, <1>9, <2>2, <3>2, <3>4 DEF Tidy
  <2> QED BY <2>3, <2>4
<1>20. FindEntry(entered, path) = 0
  BY <1>1, <1>16, <1>19 DEF FindEntry
<1> QED BY <1>18, <1>20

-----------------------------------------------------------------------------
(* Every disk that an operation leads through looks as the one it began     *)
(* with does, beside the paths it changes.                                  *)
AllAlike(s, d, C) == \A k \in 1 .. Len(s) : LooksLike(s[k], d, C)

LEMMA DiffersLooks ==
  ASSUME WellNamed, Undeleted, NEW d, Steady(d), NEW w, Typed(w),
         NEW E \in SUBSET Routes, NEW F \in SUBSET Routes, Differs(d, w, E, F),
         NEW C, E \cup F \subseteq C
  PROVE  LooksLike(w, d, C)
<1> SUFFICES ASSUME NEW p \in Paths, \A q \in C : ~IsPrefix(q, p)
             PROVE  View(w, p) = View(d, p)
  BY DEF LooksLike
<1>1. p \in Routes /\ \A c \in E \cup F : ~IsPrefix(c, p)
  BY DEF WellNamed, Routes
<1> QED BY <1>1, SameView

LEMMA AlikeByEntries ==
  ASSUME WellNamed, Undeleted, NEW d, Steady(d), NEW E \in SUBSET Routes,
         NEW s \in Seq(SteadyDisks), \A k \in 1 .. Len(s) : Differs(d, s[k], E, {})
  PROVE  AllAlike(s, d, E)
<1> SUFFICES ASSUME NEW k \in 1 .. Len(s) PROVE LooksLike(s[k], d, E)
  BY DEF AllAlike
<1> DEFINE w == s[k]
           O == {}
<1>1. Typed(w) /\ Differs(d, w, E, O) /\ O \in SUBSET Routes /\ E \cup O \subseteq E
  BY WritesSteady
<1> HIDE DEF w, O
<1>2. LooksLike(w, d, E)
  BY <1>1, DiffersLooks
<1> QED BY <1>2 DEF w

LEMMA AlikeByContents ==
  ASSUME WellNamed, Undeleted, NEW d, Steady(d), NEW F \in SUBSET Routes,
         NEW s \in Seq(SteadyDisks), \A k \in 1 .. Len(s) : Differs(d, s[k], {}, F)
  PROVE  AllAlike(s, d, F)
<1> SUFFICES ASSUME NEW k \in 1 .. Len(s) PROVE LooksLike(s[k], d, F)
  BY DEF AllAlike
<1> DEFINE w == s[k]
           O == {}
<1>1. Typed(w) /\ Differs(d, w, O, F) /\ O \in SUBSET Routes /\ O \cup F \subseteq F
  BY WritesSteady
<1> HIDE DEF w, O
<1>2. LooksLike(w, d, F)
  BY <1>1, DiffersLooks
<1> QED BY <1>2 DEF w

(* CopyFile looks different only at the copy, at each of its two halves'    *)
(* writes.                                                                  *)
LEMMA CopyFileAlike ==
  ASSUME WellNamed, Undeleted, NEW d, Steady(d), NEW path \in Routes, NEW dest \in Routes
  PROVE  AllAlike(CopyFile(d, path, dest).writes, d, {dest})
<1> USE DEF Routes
<1> DEFINE read    == ReadFile(d, path, SLOTS)
           created == CreateFile(d, dest)
           w == Last(created.writes)
           written == WriteFile(w, dest, read.output, read.ret)
           c == CopyFile(d, path, dest)
           D == {dest}
<1>1. AllAlike(created.writes, d, D)
  <2>1. created.writes \in Seq(SteadyDisks)
    BY CreateFileSteps
  <2>2. \A k \in 1 .. Len(created.writes) : Differs(d, created.writes[k], D, {})
    BY CreateFileDiffers
  <2>3. D \in SUBSET Routes
    OBVIOUS
  <2> HIDE DEF created, D
  <2> QED BY <2>1, <2>2, <2>3, AlikeByEntries
<1>2. \/ c.writes = <<>>
      \/ c = created
      \/ Copying(d, path, dest, read, created, written, c)
  BY CopyFileIs
<1>3. ASSUME Copying(d, path, dest, read, created, written, c)
      PROVE  AllAlike(c.writes, d, D)
  <2> HIDE DEF read, created, written, c
  <2>1. /\ read.output \in Sector /\ read.ret \in 0 .. SLOTS
        /\ created.writes \in Seq(SteadyDisks) /\ created.writes # <<>>
        /\ written.writes \in Seq(SteadyDisks)
        /\ c.writes = created.writes \o written.writes
    BY <1>3 DEF Copying
  <2>2. Steady(w) /\ LooksLike(w, d, D)
    BY <1>1, <2>1, LastWrite DEF AllAlike
  <2> HIDE DEF w
  <2>3. AllAlike(written.writes, w, D)
    <3>1. read.ret \in Nat
      BY <2>1, BitsAssumption
    <3>2. \A k \in 1 .. Len(written.writes) : Differs(w, written.writes[k], {}, {dest})
      BY <2>1, <2>2, <3>1, WriteFileDiffers DEF written, w
    <3>4. \A k \in 1 .. Len(written.writes) : Differs(w, written.writes[k], {}, D)
      BY <3>2 DEF D
    <3>3. D \in SUBSET Routes
      OBVIOUS
    <3> HIDE DEF D
    <3> QED BY <2>1, <2>2, <3>4, <3>3, AlikeByContents
  <2>4. ASSUME NEW l \in 1 .. Len(written.writes) PROVE LooksLike(written.writes[l], d, D)
    <3>1. LooksLike(written.writes[l], w, D)
      BY <2>3 DEF AllAlike
    <3> HIDE DEF D
    <3> QED BY <2>2, <3>1 DEF LooksLike
  <2>5. ASSUME NEW k \in 1 .. Len(c.writes) PROVE LooksLike(c.writes[k], d, D)
    <3>1. \/ k \in 1 .. Len(created.writes) /\ c.writes[k] = created.writes[k]
          \/ \E l \in 1 .. Len(written.writes) : c.writes[k] = written.writes[l]
      <4> DEFINE s == created.writes
                 t == written.writes
      <4>1. s \in Seq(SteadyDisks) /\ t \in Seq(SteadyDisks) /\ c.writes = s \o t
        BY <2>1
      <4> HIDE DEF s, t
      <4>2. \A l \in 1 .. Len(s \o t) : \/ l \in 1 .. Len(s) /\ (s \o t)[l] = s[l]
                                       \/ \E m \in 1 .. Len(t) : (s \o t)[l] = t[m]
        BY <4>1, JoinedWrites
      <4>3. \A l \in 1 .. Len(c.writes) : \/ l \in 1 .. Len(s) /\ c.writes[l] = s[l]
                                         \/ \E m \in 1 .. Len(t) : c.writes[l] = t[m]
        BY <4>1, <4>2, Zenon
      <4> QED BY <4>3 DEF s, t
    <3> HIDE DEF D
    <3> QED BY <1>1, <2>4, <3>1 DEF AllAlike
  <2> QED BY <2>5 DEF AllAlike
<1>4. ASSUME c.writes = <<>> PROVE AllAlike(c.writes, d, D)
  <2>1. 1 .. Len(<<>>) = {}
    OBVIOUS
  <2> HIDE DEF c
  <2> QED BY <1>4, <2>1 DEF AllAlike
<1> HIDE DEF c, created, written, read
<1> QED BY <1>1, <1>2, <1>3, <1>4 DEF c

-----------------------------------------------------------------------------
(* The promise and the likeness are kept *)

LEMMA CallPromises ==
  ASSUME NEW op, NEW paths, NEW input, NEW outcome, Call(op, paths, input, outcome),
         outcome.ret >= 0 => JobDone(op, paths, input, outcome.ret, Last(outcome.writes)),
         AllAlike(outcome.writes, disk, ChangedBy(op, paths))
  PROVE  Promise' /\ Alike'
<1>1. /\ disk' = disk /\ todo' = outcome.writes /\ todo' # <<>>
      /\ call'.op = op /\ call'.paths = paths /\ call'.input = input
      /\ call'.ret = outcome.ret
  BY DEF Call
<1>2. Final' = Last(outcome.writes)
  BY <1>1 DEF Final
<1>3. Promise'
  BY <1>1, <1>2 DEF Promise
<1>4. Alike'
  <2>1. ASSUME NEW k \in 1 .. Len(todo')
        PROVE  LooksLike(todo'[k], disk', ChangedBy(call'.op, call'.paths))
    BY <1>1 DEF AllAlike
  <2> QED BY <2>1 DEF Alike
<1> QED BY <1>3, <1>4

(* The operations' arguments, as JobDone and ChangedBy take them apart.     *)
LEMMA Arguments ==
  ASSUME NEW p, NEW q
  PROVE  /\ <<p>>[1] = p /\ <<p, q>>[1] = p /\ <<p, q>>[2] = q
         /\ Range(<<p>>) = {p} /\ Range(<<p, q>>) = {p, q}
         /\ \A op : op # "CopyFile" => /\ ChangedBy(op, <<p>>) = {p}
                                      /\ ChangedBy(op, <<p, q>>) = {p, q}
         /\ ChangedBy("CopyFile", <<p, q>>) = {q}
<1>1. DOMAIN <<p>> = {1} /\ DOMAIN <<p, q>> = {1, 2}
  OBVIOUS
<1>2. Range(<<p>>) = {p}
  BY <1>1 DEF Range
<1>3. Range(<<p, q>>) = {p, q}
  BY <1>1 DEF Range
<1>4. <<p>>[1] = p /\ <<p, q>>[1] = p /\ <<p, q>>[2] = q
  OBVIOUS
<1> QED BY <1>2, <1>3, <1>4 DEF ChangedBy

LEMMA CreateFilePromises ==
  ASSUME WellNamed, Undeleted, IInv, Steady(disk), CallCreateFile
  PROVE  Promise' /\ Alike'
<1>1. PICK p \in Paths : Call("CreateFile", <<p>>, <<>>, CreateFile(disk, p))
  BY DEF CallCreateFile
<1> DEFINE c == CreateFile(disk, p)
<1>2. p \in Routes /\ p \in Seq(Names) \ {<<>>}
  BY DEF WellNamed, Routes
<1>3. ASSUME c.ret >= 0 PROVE FileMade(Last(c.writes), p)
  <2>1. /\ Last(c.writes) \in SteadyDisks /\ FindEntry(Last(c.writes), p) \in 2 .. BITS
        /\ Last(c.writes).inode[FindEntry(Last(c.writes), p)] = Inode("file", 0, 0)
    BY <1>2, <1>3, CreateFileJob
  <2> DEFINE w == Last(c.writes)
  <2>2. /\ Typed(w) /\ FindEntry(w, p) \in 2 .. BITS
        /\ w.inode[FindEntry(w, p)] = Inode("file", 0, 0)
    BY <2>1 DEF SteadyDisks, Steady
  <2> HIDE DEF w
  <2>3. FileMade(w, p)
    BY <1>2, <2>2, FileIsMade
  <2> QED BY <2>3 DEF w
<1>4. AllAlike(c.writes, disk, {p})
  <2>1. c.writes \in Seq(SteadyDisks)
    BY <1>2, CreateFileSteps
  <2>2. \A k \in 1 .. Len(c.writes) : Differs(disk, c.writes[k], {p}, {})
    BY <1>2, CreateFileDiffers
  <2> DEFINE E == {p}
  <2>3. E \in SUBSET Routes /\ \A k \in 1 .. Len(c.writes) : Differs(disk, c.writes[k], E, {})
    BY <1>2, <2>2
  <2> HIDE DEF c, E
  <2>4. AllAlike(c.writes, disk, E)
    BY <2>1, <2>3, AlikeByEntries
  <2> QED BY <2>4 DEF E
<1> HIDE DEF c
<1>5. c.ret >= 0 => JobDone("CreateFile", <<p>>, <<>>, c.ret, Last(c.writes))
  BY <1>3, Arguments DEF JobDone
<1>6. AllAlike(c.writes, disk, ChangedBy("CreateFile", <<p>>))
  BY <1>4, Arguments
<1>7. Call("CreateFile", <<p>>, <<>>, c)
  BY <1>1 DEF c
<1> QED BY <1>5, <1>6, <1>7, CallPromises

LEMMA CreateDirPromises ==
  ASSUME WellNamed, Undeleted, IInv, Steady(disk), CallCreateDir
  PROVE  Promise' /\ Alike'
<1>1. PICK p \in Paths : Call("CreateDir", <<p>>, <<>>, CreateDir(disk, p))
  BY DEF CallCreateDir
<1> DEFINE c == CreateDir(disk, p)
<1>2. p \in Routes /\ p \in Seq(Names) \ {<<>>}
  BY DEF WellNamed, Routes
<1>3. c.writes # <<>> /\ c.writes \in Seq(SteadyDisks)
  BY <1>1, <1>2, CreateDirSteps DEF Call
<1>4. ASSUME c.ret >= 0 PROVE DirMade(Last(c.writes), p)
  <2>1. EmptyDirAt(Last(c.writes), p)
    BY <1>2, <1>3, <1>4, CreateDirSteps
  <2> HIDE DEF c
  <2>2. Steady(Last(c.writes))
    BY <1>3, LastWrite
  <2> DEFINE w == Last(c.writes)
  <2>3. Steady(w) /\ EmptyDirAt(w, p)
    BY <2>1, <2>2
  <2> HIDE DEF w
  <2>4. DirMade(w, p)
    BY <1>2, <2>3, DirIsMade
  <2> QED BY <2>4 DEF w
<1>5. AllAlike(c.writes, disk, {p})
  <2>1. \A k \in 1 .. Len(c.writes) : Differs(disk, c.writes[k], {p}, {})
    BY <1>2, CreateDirDiffers
  <2> DEFINE E == {p}
  <2>2. E \in SUBSET Routes /\ \A k \in 1 .. Len(c.writes) : Differs(disk, c.writes[k], E, {})
    BY <1>2, <2>1
  <2> HIDE DEF c, E
  <2>3. AllAlike(c.writes, disk, E)
    BY <1>3, <2>2, AlikeByEntries
  <2> QED BY <2>3 DEF E
<1> HIDE DEF c
<1>6. c.ret >= 0 => JobDone("CreateDir", <<p>>, <<>>, c.ret, Last(c.writes))
  BY <1>4, Arguments DEF JobDone
<1>7. AllAlike(c.writes, disk, ChangedBy("CreateDir", <<p>>))
  BY <1>5, Arguments
<1>8. Call("CreateDir", <<p>>, <<>>, c)
  BY <1>1 DEF c
<1> QED BY <1>6, <1>7, <1>8, CallPromises

LEMMA RenamePromises ==
  ASSUME WellNamed, Undeleted, IInv, Steady(disk), CallRename
  PROVE  Promise' /\ Alike'
<1>1. PICK p \in Paths, q \in Paths : Call("Rename", <<p, q>>, <<>>, Rename(disk, p, q))
  BY DEF CallRename
<1> DEFINE c == Rename(disk, p, q)
<1>2. /\ p \in Routes /\ p \in Seq(Names) \ {<<>>}
      /\ q \in Routes /\ q \in Seq(Names) \ {<<>>}
  BY DEF WellNamed, Routes
<1>3. c.writes # <<>> /\ c.writes \in Seq(SteadyDisks)
  BY <1>1, <1>2, RenameSteps DEF Call
<1>4. ASSUME c.ret >= 0 PROVE Moved(Last(c.writes), p, q)
  <2>1. LET o == Rename(disk, p, q) IN o.ret >= 0 /\ o.writes # <<>>
    BY <1>3, <1>4
  <2> HIDE DEF c
  <2>2. Moved(Last(Rename(disk, p, q).writes), p, q)
    BY <1>2, <2>1, RenameJob
  <2> QED BY <2>2 DEF c
<1>5. AllAlike(c.writes, disk, {p, q})
  <2>1. \A k \in 1 .. Len(c.writes) : Differs(disk, c.writes[k], {p, q}, {})
    BY <1>2, RenameDiffers
  <2> DEFINE E == {p, q}
  <2>2. E \in SUBSET Routes /\ \A k \in 1 .. Len(c.writes) : Differs(disk, c.writes[k], E, {})
    BY <1>2, <2>1
  <2> HIDE DEF c, E
  <2>3. AllAlike(c.writes, disk, E)
    BY <1>3, <2>2, AlikeByEntries
  <2> QED BY <2>3 DEF E
<1> HIDE DEF c
<1>6. c.ret >= 0 => JobDone("Rename", <<p, q>>, <<>>, c.ret, Last(c.writes))
  BY <1>4, Arguments DEF JobDone
<1>7. AllAlike(c.writes, disk, ChangedBy("Rename", <<p, q>>))
  <2>1. ChangedBy("Rename", <<p, q>>) = {p, q}
    BY Arguments, ZenonT(30) DEF ChangedBy
  <2> QED BY <1>5, <2>1, Zenon
<1>8. Call("Rename", <<p, q>>, <<>>, c)
  BY <1>1 DEF c
<1> QED BY <1>6, <1>7, <1>8, CallPromises

LEMMA CopyFilePromises ==
  ASSUME WellNamed, Undeleted, IInv, Steady(disk), CallCopyFile
  PROVE  Promise' /\ Alike'
<1>1. PICK p \in Paths, q \in Paths : Call("CopyFile", <<p, q>>, <<>>, CopyFile(disk, p, q))
  BY DEF CallCopyFile
<1> DEFINE c == CopyFile(disk, p, q)
<1>2. p \in Routes /\ q \in Routes
  BY DEF WellNamed, Routes
<1>3. c.writes # <<>>
  BY <1>1 DEF Call
<1>4. ASSUME c.ret >= 0 PROVE Copied(Last(c.writes), p, q)
  <2>1. c = CopyFile(disk, p, q)
    OBVIOUS
  <2> HIDE DEF c
  <2> QED BY <1>2, <1>3, <1>4, <2>1, CopyFileJob
<1>5. AllAlike(c.writes, disk, {q})
  BY <1>2, CopyFileAlike
<1> HIDE DEF c
<1>6. c.ret >= 0 => JobDone("CopyFile", <<p, q>>, <<>>, c.ret, Last(c.writes))
  BY <1>4, Arguments DEF JobDone
<1>7. AllAlike(c.writes, disk, ChangedBy("CopyFile", <<p, q>>))
  <2>1. ChangedBy("CopyFile", <<p, q>>) = {q}
    BY Arguments, ZenonT(30) DEF ChangedBy
  <2> QED BY <1>5, <2>1, Zenon
<1>8. Call("CopyFile", <<p, q>>, <<>>, c)
  BY <1>1 DEF c
<1> QED BY <1>6, <1>7, <1>8, CallPromises

LEMMA WriteFilePromises ==
  ASSUME WellNamed, Undeleted, IInv, Steady(disk), CallWriteFile
  PROVE  Promise' /\ Alike'
<1>1. PICK p \in Paths, data \in Data, count \in Counts :
        Call("WriteFile", <<p>>, <<data, count>>,
             WriteFile(disk, p, [i \in Slots |-> Bytes(data)], count))
  BY DEF CallWriteFile
<1> DEFINE input == [i \in Slots |-> Bytes(data)]
           c == WriteFile(disk, p, input, count)
           w == Last(c.writes)
<1>2. p \in Routes /\ p \in Seq(Names) \ {<<>>} /\ count \in Nat
  BY DEF WellNamed, Routes
<1>3. \A i \in Slots : input[i] \in SlotType /\ ~IsEntry(input[i]) /\ input[i] = Bytes(data)
  <2>1. data \in OtherNames
    BY DEF OtherNames
  <2> QED BY <2>1, BytesAreNoEntry
<1>4. input \in Sector /\ Tidy(input)
  BY <1>3 DEF Sector, Tidy
<1>5. Call("WriteFile", <<p>>, <<data, count>>, c)
  BY <1>1
<1> HIDE DEF input
<1>6. c.writes # <<>> /\ c.writes \in Seq(SteadyDisks)
  BY <1>2, <1>3, <1>4, <1>5, WriteFileSteps DEF Call
<1>7. ASSUME c.ret >= 0 PROVE Written(w, p, <<data, count>>, c.ret)
  <2> DEFINE n == FindEntry(disk, p)
             size == disk.inode[n].size
  <2>1. /\ n \in 2 .. BITS /\ c.ret = Clamped(count)
        /\ ReadFile(w, p, SLOTS) =
             [ret |-> Grown(size, Clamped(count)),
              output |-> [i \in Slots |-> IF i < Clamped(count) THEN input[i] ELSE Free]]
    BY <1>2, <1>3, <1>4, <1>7, WriteFileJob
  <2>2. size \in 0 .. SLOTS /\ Clamped(count) \in Nat
    <3>1. disk \in Disk
      BY DEF Steady, Typed
    <3> QED BY <1>2, <2>1, <3>1, BitsAssumption DEF Disk, InodeType, Clamped
  <2> HIDE DEF c, w, n, size
  <2>3. Grown(size, Clamped(count)) >= Clamped(count)
    BY <2>2, BitsAssumption DEF Grown
  <2>4. <<data, count>>[1] = data /\ <<data, count>>[2] = count
    OBVIOUS
  <2>5. [i \in Slots |-> IF i < Clamped(count) THEN input[i] ELSE Free]
          = [i \in Slots |-> IF i < Clamped(count) THEN Bytes(data) ELSE Free]
    BY <1>3
  <2> QED BY <2>1, <2>3, <2>4, <2>5 DEF Written
<1>8. AllAlike(c.writes, disk, {p})
  <2>1. \A k \in 1 .. Len(c.writes) : Differs(disk, c.writes[k], {}, {p})
    BY <1>2, <1>4, WriteFileDiffers
  <2> DEFINE F == {p}
  <2>2. F \in SUBSET Routes /\ \A k \in 1 .. Len(c.writes) : Differs(disk, c.writes[k], {}, F)
    BY <1>2, <2>1
  <2> HIDE DEF c, F
  <2>3. AllAlike(c.writes, disk, F)
    BY <1>6, <2>2, AlikeByContents
  <2> QED BY <2>3 DEF F
<1> HIDE DEF c
<1>9. c.ret >= 0 => JobDone("WriteFile", <<p>>, <<data, count>>, c.ret, Last(c.writes))
  BY <1>7, Arguments DEF JobDone
<1>10. AllAlike(c.writes, disk, ChangedBy("WriteFile", <<p>>))
  BY <1>8, Arguments
<1> QED BY <1>5, <1>9, <1>10, CallPromises

LEMMA WriteKeepsPromise ==
  ASSUME Undeleted, IInv, Promise, Alike, WriteSector
  PROVE  Promise' /\ Alike'
<1>1. /\ todo # <<>> /\ disk' = Head(todo) /\ todo' = Tail(todo) /\ call' = call
      /\ todo \in Seq(SteadyDisks)
  BY DEF WriteSector, IInv, Undeleted, Deletions
<1>2. /\ Last(todo) = IF todo' = <<>> THEN disk' ELSE Last(todo')
      /\ disk' = todo[1] /\ 1 \in 1 .. Len(todo)
      /\ \A k \in 1 .. Len(todo') : k + 1 \in 1 .. Len(todo) /\ todo'[k] = todo[k + 1]
  BY <1>1, FirstWritten
<1>3. Promise'
  <2>1. Final' = Final
    BY <1>1, <1>2 DEF Final
  <2> QED BY <1>1, <2>1 DEF Promise
<1>4. Alike'
  <2> DEFINE C == ChangedBy(call.op, call.paths)
  <2>1. ASSUME NEW k \in 1 .. Len(todo') PROVE LooksLike(todo'[k], disk', C)
    <3>1. LooksLike(todo[1], disk, C) /\ LooksLike(todo[k + 1], disk, C)
      BY <1>2 DEF Alike
    <3>2. LooksLike(disk', disk, C) /\ LooksLike(todo'[k], disk, C)
      BY <1>2, <3>1
    <3> HIDE DEF C
    <3> QED BY <3>2 DEF LooksLike
  <2> QED BY <1>1, <2>1 DEF Alike
<1> QED BY <1>3, <1>4

(* A machine that has returned, or starts again, has promised nothing.      *)
LEMMA IdlePromisesNothing ==
  ASSUME call' = Idle, todo' = <<>>
  PROVE  Promise' /\ Alike'
<1>1. call'.op = "none" /\ 1 .. Len(todo') = {}
  BY DEF Idle
<1> QED BY <1>1 DEF Promise, Alike

LEMMA StepPromises ==
  ASSUME WellNamed, Undeleted
  PROVE  IInv /\ Promise /\ Alike /\ [Next]_vars => Promise' /\ Alike'
<1> SUFFICES ASSUME IInv, Promise, Alike, [Next]_vars PROVE Promise' /\ Alike'
  OBVIOUS
<1>1. call = Idle => Steady(disk)
  BY DEF IInv, Idle, Deletions, SteadyDisks
<1>2. CASE CallCreateFile
  BY <1>1, <1>2, CreateFilePromises DEF CallCreateFile, Call
<1>3. CASE CallCreateDir
  BY <1>1, <1>3, CreateDirPromises DEF CallCreateDir, Call
<1>4. CASE CallRename
  BY <1>1, <1>4, RenamePromises DEF CallRename, Call
<1>5. CASE CallCopyFile
  BY <1>1, <1>5, CopyFilePromises DEF CallCopyFile, Call
<1>6. CASE CallWriteFile
  BY <1>1, <1>6, WriteFilePromises DEF CallWriteFile, Call
<1>7. ASSUME CallDeleteFile \/ CallDeleteDir PROVE FALSE
  BY <1>7 DEF CallDeleteFile, CallDeleteDir, Call, Undeleted, Deletions
<1>8. CASE WriteSector
  BY <1>8, WriteKeepsPromise
<1>9. CASE Return
  BY <1>9, IdlePromisesNothing DEF Return
<1>10. CASE Reset
  BY <1>10, IdlePromisesNothing DEF Reset
<1>11. CASE UNCHANGED vars
  <2>1. disk' = disk /\ call' = call /\ todo' = todo
    BY <1>11 DEF vars
  <2> QED BY <2>1 DEF Promise, Alike, Final
<1> QED BY <1>2, <1>3, <1>4, <1>5, <1>6, <1>7, <1>8, <1>9, <1>10, <1>11 DEF Next

LEMMA PromiseKept ==
  ASSUME WellNamed, Cared, Undeleted
  PROVE  Spec => [](IInv /\ Promise /\ Alike)
<1>1. Init => Promise /\ Alike
  <2>1. ASSUME Init PROVE call.op = "none" /\ 1 .. Len(todo) = {}
    BY <2>1 DEF Init, Idle
  <2> QED BY <2>1 DEF Promise, Alike
<1>2. IInv /\ Promise /\ Alike /\ [Next]_vars => Promise' /\ Alike'
  BY StepPromises
<1> QED BY <1>1, <1>2, Invariant, PTL DEF Spec

(* CallsDoTheirJob: for every workload without deletions, on a disk whose   *)
(* zone bitmap is as in Cared, an operation that reports success has done   *)
(* what its name says once its last write is made.                          *)
THEOREM CallsDoTheirJobHolds ==
  ASSUME WellNamed, Cared, Undeleted
  PROVE  Spec => []CallsDoTheirJob
<1>1. ASSUME Promise PROVE CallsDoTheirJob
  <2>1. ASSUME NEW op \in {"CreateFile", "CreateDir", "WriteFile", "CopyFile", "Rename"},
               Succeeded(op)
        PROVE  call.op = op /\ JobDone(op, call.paths, call.input, call.ret, disk)
    <3>1. call.op = op /\ op # "none" /\ call.ret >= 0 /\ Final = disk
      BY <2>1 DEF Succeeded, Final
    <3> QED BY <1>1, <3>1 DEF Promise
  <2>2. Succeeded("CreateFile") => FileMade(disk, call.paths[1])
    BY <2>1 DEF JobDone
  <2>3. Succeeded("CreateDir") => DirMade(disk, call.paths[1])
    BY <2>1 DEF JobDone
  <2>4. Succeeded("WriteFile") => Written(disk, call.paths[1], call.input, call.ret)
    BY <2>1 DEF JobDone
  <2>5. Succeeded("CopyFile") => Copied(disk, call.paths[1], call.paths[2])
    BY <2>1 DEF JobDone
  <2>6. Succeeded("Rename") => Moved(disk, call.paths[1], call.paths[2])
    BY <2>1 DEF JobDone
  <2>7. \A z : NamedIn(disk, z) = Named(z)
    BY DEF NamedIn, Named
  <2> QED BY <2>2, <2>3, <2>4, <2>5, <2>6, <2>7, Zenon
          DEF CallsDoTheirJob, FileMade, Blank, DirMade, Written, Copied, Moved
<1> QED BY <1>1, PromiseKept, PTL

(* FrameKept: for every workload without deletions, on a disk whose zone    *)
(* bitmap is as in Cared, no write of an operation, whether or not the      *)
(* machine is reset after it, changes what is found at a path beside the    *)
(* ones the operation is to change.                                         *)
THEOREM FrameKeptHolds ==
  ASSUME WellNamed, Cared, Undeleted
  PROVE  Spec => FrameKept
<1> DEFINE Framed == \A p \in Paths : (\A q \in Changed : ~IsPrefix(q, p))
                                        => View(disk', p) = View(disk, p)
<1>1. ASSUME IInv, Alike, [Next]_vars, disk' # disk PROVE Framed
  <2>1. WriteSector
    BY <1>1 DEF Next, vars, CallCreateFile, CallCreateDir, CallDeleteFile, CallDeleteDir,
                CallRename, CallCopyFile, CallWriteFile, Call, Return, Reset
  <2>2. todo # <<>> /\ disk' = Head(todo) /\ todo \in Seq(SteadyDisks)
    BY <1>1, <2>1 DEF WriteSector, IInv, Undeleted, Deletions
  <2>3. disk' = todo[1] /\ 1 \in 1 .. Len(todo)
    BY <2>2, FirstWritten
  <2>4. LooksLike(disk', disk, ChangedBy(call.op, call.paths))
    BY <1>1, <2>3 DEF Alike
  <2>5. Changed = ChangedBy(call.op, call.paths)
    BY DEF Changed, ChangedBy
  <2>6. LooksLike(disk', disk, Changed)
    BY <2>4, <2>5
  <2> QED BY <2>6 DEF LooksLike
<1>2. IInv /\ Alike /\ [Next]_vars => [Framed]_disk
  BY <1>1
<1> QED BY <1>2, PromiseKept, PTL DEF Spec, FrameKept

=============================================================================
