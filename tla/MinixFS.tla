------------------------------- MODULE MinixFS -------------------------------
(***************************************************************************)
(* The Minix file system driver (kernel/fs/minix/), reached through the    *)
(* table of vfs.c: what each operation writes to the disk, one sector at a *)
(* time, with a reset of the machine between any two writes and the mount  *)
(* check of the next boot.  One caller at a time.                          *)
(*                                                                         *)
(* A disk is a record:                                                     *)
(*   imap  the bits set in sector 2, where superblock.c finds the          *)
(*         superblock and inode.c the inode bitmap;                        *)
(*   zmap  the bits set in sector 3, the zone bitmap;                      *)
(*   inode the inode table; zone is i_zone[0], the only one ever set;      *)
(*   zone  the first sector of each zone, as 32-byte slots: a directory    *)
(*         entry, or as much of a file.  (The driver uses no other.)       *)
(* Sizes are counted in slots.  Some zones lie under the metadata: once    *)
(* one of those is written as data nothing more is said of the disk        *)
(* (Intact), except whether it mounts.  A path is a sequence of names,     *)
(* none of them "." or "..".                                               *)
(***************************************************************************)
EXTENDS Integers, SequencesExt

CONSTANTS
  BITS,        \* bits in a bitmap sector, and inodes in the table
  SLOTS,       \* slots in a sector
  ZONES,       \* zones on the disk
  ROOT_ZONE,   \* where the root directory is
  MetaZones,   \* zones whose first sector belongs to the metadata
  SuperZone,   \* the one whose first sector is sector 2
  Super,       \* the bits of sector 2 that the superblock's fields set
  MagicField,  \* the bits of s_magic
  Magics,      \* the values s_magic may have, as sets of bits
  ZonesTaken,  \* the bits of sector 3 when the machine is first started
  Names, Paths, Data, Counts, Operations, Resets \* bound: what is tried

ASSUME BitsAssumption ==
  /\ BITS \in Nat \ {0} /\ SLOTS \in Nat /\ SLOTS >= 2
  /\ Super \subseteq 0 .. BITS - 1 /\ MagicField \subseteq 0 .. BITS - 1
  /\ Super \cap MagicField \in Magics
ASSUME ZonesAssumption ==
  /\ ZONES \in Nat /\ ROOT_ZONE \in 1 .. ZONES - 1 /\ ROOT_ZONE \notin MetaZones
  /\ SuperZone \in MetaZones /\ MetaZones \subseteq 1 .. ZONES - 1
  /\ ZonesTaken \subseteq 0 .. ZONES - 1

EPERM   == 1
ENOENT  == 2
EACCES  == 13
EEXIST  == 17
ENOTDIR == 20
ENOSPC  == 28

VARIABLES
  disk,
  call,  \* the operation under way, and what it will return
  todo,  \* the disks its remaining writes lead through
  up     \* FALSE once start_kernel has panicked

vars == <<disk, call, todo, up>>

NONE  == -1
ROOT  == 1             \* the root's inode number
Bits  == 0 .. BITS - 1
Slots == 0 .. SLOTS - 1
Zones == 0 .. ZONES - 1

Slot(n, name) == [inode |-> n, name |-> name]
Free == Slot(0, "")
(* File contents, read as an entry, are taken for one that no path names.   *)
Bytes(data) == Slot(BITS + 1, data)
Metadata  == [i \in Slots |-> Bytes("metadata")]
Untouched == [i \in Slots |-> Bytes("untouched")]

Inode(mode, size, z) == [mode |-> mode, size |-> size, zone |-> z]
Erased == Inode("none", 0, 0)

SetInode(d, n, inode) == [d EXCEPT !.inode[n] = inode]
SetSlot(d, z, i, slot) == [d EXCEPT !.zone[z][i] = slot]

-----------------------------------------------------------------------------
(* Looking things up. *)

\* The first element of a set of positions, as the scans find it, or NONE.
First(S) == IF S = {} THEN NONE ELSE Min(S)

AnyFreeSlot(block) == 0 \* mutant: the test for inode == 0 dropped

FreeSlot(block) == First({i \in Slots : block[i].inode = 0})

EntryBeforeLast(block, name) == \* mutant: the loop ends one entry early
  First({i \in 0 .. SLOTS - 2 : block[i].inode # 0 /\ block[i].name = name})

EntryOf(block, name) ==
  First({i \in Slots : block[i].inode # 0 /\ block[i].name = name})

\* The inode number a directory's sector has for a name, or 0.
Lookup(block, name) ==
  LET i == EntryOf(block, name) IN IF i = NONE THEN 0 ELSE block[i].inode

\* One name of a path, from the directory in zone z to the next one.
Descend(d, z, name) ==
  LET n == IF z = NONE THEN 0 ELSE Lookup(d.zone[z], name)
  IN  IF n # 0 /\ d.inode[n].mode = "dir" THEN d.inode[n].zone ELSE NONE

\* FindSectorOfPathDir: the zone of the directory a path ends in.  Sector 0
\* is the answer for "not found".
DirZone(d, path) ==
  LET at[k \in 0 .. Len(path) - 1] ==
        IF k = 0 THEN ROOT_ZONE ELSE Descend(d, at[k - 1], path[k])
      z == at[Len(path) - 1]
  IN  IF z = 0 THEN NONE ELSE z

FindEntry(d, path) ==
  LET z == DirZone(d, path) IN IF z = NONE THEN 0 ELSE Lookup(d.zone[z], Last(path))

NextInode(d) == \* minix_AllocateInode's search
  LET b == First({b \in Bits \ d.imap : b + 1 > 2}) IN IF b = NONE THEN 0 ELSE b + 1

NextZone(d) == First(Zones \ d.zmap)

-----------------------------------------------------------------------------
(* The operations: what each returns, and the disks after each of its       *)
(* writes.                                                                  *)
Fails(errno) == [ret |-> -errno, writes |-> <<>>]

TakeNoInode(d, n) == d \* mutant: the bitmap is not written back

TakeInode(d, n) == [d EXCEPT !.imap = @ \cup {n - 1}]
TakeNoZone(d, z) == d \* mutant: the bitmap is not written back

TakeZone(d, z) == [d EXCEPT !.zmap = @ \cup {z}]

CreateFile(d, path) ==
  LET z == DirZone(d, path)
      n == NextInode(d)
      i == FreeSlot(d.zone[z])
      taken  == TakeInode(d, n)
      formed == SetInode(taken, n, Inode("file", 0, 0))
  IN  IF FindEntry(d, path) # 0 THEN Fails(EEXIST)
      ELSE IF z = NONE THEN Fails(ENOENT)
      ELSE IF n = 0 THEN Fails(ENOSPC)
      ELSE IF i = NONE THEN [ret |-> -ENOSPC, writes |-> <<taken, formed>>]
      ELSE [ret |-> 0,
            writes |-> <<taken, formed, SetSlot(formed, z, i, Slot(n, Last(path)))>>]

CreateDir(d, path) ==
  LET z == DirZone(d, path)
      n == NextInode(d)
      new == NextZone(d)
      i == FreeSlot(d.zone[z])
      taken  == TakeInode(d, n)
      zoned  == TakeZone(taken, new)
      formed == SetInode(zoned, n, Inode("dir", 2, new))
      filled == [formed EXCEPT !.zone[new] =
                   [s \in Slots |-> CASE s = 0 -> Slot(n, ".")
                                      [] s = 1 -> Slot(d.zone[z][0].inode, "..")
                                      [] OTHER -> Free]]
  IN  IF FindEntry(d, path) # 0 THEN Fails(EEXIST)
      ELSE IF z = NONE THEN Fails(ENOENT)
      ELSE IF n = 0 THEN Fails(ENOSPC)
      ELSE IF new = NONE THEN [ret |-> -ENOSPC, writes |-> <<taken>>]
      ELSE IF i = NONE
           THEN [ret |-> -ENOSPC, writes |-> <<taken, zoned, formed, filled>>]
      ELSE [ret |-> 0, writes |-> <<taken, zoned, formed, filled,
                                    SetSlot(filled, z, i, Slot(n, Last(path)))>>]

FreeNextZone(d, z) == [d EXCEPT !.zmap = @ \ {z + 1}] \* mutant: off by one

FreeZone(d, z) == [d EXCEPT !.zmap = @ \ {z}]

\* The clean-up DeleteFile and DeleteDir have in common.  The inode's bit is
\* n - 1; the bit cleared is n.
Erase(d, n) ==
  LET z == d.inode[n].zone
      freed  == IF z = 0 THEN d ELSE FreeZone(d, z)
      erased == SetInode(freed, n, Erased)
  IN  (IF z = 0 THEN <<>> ELSE <<freed>>)
        \o <<erased, [erased EXCEPT !.imap = @ \ {n}]>>

UnlinkFirst(d, z, i) == SetSlot(d, z, 0, Free) \* mutant: entry_index stays 0

Unlink(d, z, i) == SetSlot(d, z, i, Free)

DeleteFile(d, path) ==
  LET z == DirZone(d, path)
      i == EntryOf(d.zone[z], Last(path))
      steps == Erase(d, d.zone[z][i].inode)
  IN  IF z = NONE THEN Fails(ENOENT)
      ELSE IF Last(path) \in {".", ".."} THEN Fails(EACCES)
      ELSE IF i = NONE THEN Fails(ENOENT)
      ELSE [ret |-> 0, writes |-> Append(steps, Unlink(Last(steps), z, i))]

\* Takes away the directory's first entry with that inode number, whatever
\* its name.
DeleteDir(d, path) ==
  LET z == DirZone(d, path)
      n == FindEntry(d, path)
      steps == Erase(d, n)
      i == First({s \in Slots : Last(steps).zone[z][s].inode = n})
  IN  IF z = NONE THEN Fails(ENOENT)
      ELSE IF Last(path) \in {".", ".."} THEN Fails(EPERM)
      ELSE IF n = 0 THEN Fails(ENOENT)
      ELSE IF d.inode[n].mode # "dir" THEN Fails(ENOTDIR)
      ELSE IF d.inode[n].size > 2 THEN Fails(EPERM)
      ELSE [ret |-> 0, writes |-> Append(steps, Unlink(Last(steps), z, i))]

Rename(d, path, new) ==
  LET z == DirZone(d, path)
      i == EntryOf(d.zone[z], Last(path))
      removed == Unlink(d, z, i)
      to == DirZone(d, new)
      j == FreeSlot(removed.zone[to])
  IN  IF z = NONE \/ to = NONE THEN Fails(ENOENT)
      ELSE IF FindEntry(d, new) # 0 THEN Fails(EEXIST)
      ELSE IF i = NONE THEN Fails(ENOENT)
      ELSE IF j = NONE THEN [ret |-> -ENOSPC, writes |-> <<removed>>]
      ELSE [ret |-> 0,
            writes |-> <<removed, SetSlot(removed, to, j,
                                          Slot(d.zone[z][i].inode, Last(new)))>>]

Unclamped(count) == count \* mutant: all of count

Clamped(count) == IF count > SLOTS THEN SLOTS ELSE count

\* ReadFile: how much was read, and the caller's buffer of one sector.
ReadFile(d, path, count) ==
  LET n == FindEntry(d, path)
      actual == IF count > d.inode[n].size THEN d.inode[n].size ELSE count
      z == d.inode[n].zone
  IN  IF n = 0 THEN [ret |-> -ENOENT, output |-> Untouched]
      ELSE [ret |-> actual,
            output |-> [i \in Slots |->
                          CASE i < actual /\ z # 0        -> d.zone[z][i]
                            [] i >= actual /\ i < count   -> Free
                            [] OTHER                      -> Untouched[i]]]

NotGrown(size, to_write) == size \* mutant: i_size not updated

Grown(size, to_write) == IF size < to_write THEN to_write ELSE size

WriteFile(d, path, input, count) ==
  LET n == FindEntry(d, path)
      fresh == d.inode[n].zone = 0
      z == IF fresh THEN NextZone(d) ELSE d.inode[n].zone
      zoned == TakeZone(d, z)
      to_write == Clamped(count)
      filled == [(IF fresh THEN zoned ELSE d) EXCEPT !.zone[z] =
                   [i \in Slots |-> IF i < to_write THEN input[i] ELSE Free]]
  IN  IF n = 0 THEN Fails(ENOENT)
      ELSE IF z = NONE THEN Fails(ENOSPC)
      ELSE [ret |-> to_write,
            writes |-> (IF fresh THEN <<zoned>> ELSE <<>>) \o
              <<filled,
                SetInode(filled, n,
                  Inode(d.inode[n].mode, Grown(d.inode[n].size, to_write), z))>>]

CopyFile(d, path, dest) ==
  LET read    == ReadFile(d, path, SLOTS)
      created == CreateFile(d, dest)
      written == WriteFile(Last(created.writes), dest, read.output, read.ret)
  IN  IF read.ret < 0 THEN [ret |-> read.ret, writes |-> <<>>]
      ELSE IF created.ret # 0 THEN created
      ELSE [ret |-> IF written.ret # read.ret THEN -1 ELSE 0,
            writes |-> created.writes \o written.writes]

-----------------------------------------------------------------------------
\* The superblock's check of the mount: its magic number, where sector 2 is
\* still a superblock with inode bits in it.
Mounts(d) ==
  /\ d.zone[SuperZone] = Metadata
  /\ d.imap \cap MagicField \in Magics

Intact == \A z \in MetaZones : disk.zone[z] = Metadata

Idle == [op |-> "none", paths |-> <<>>, input |-> <<>>, ret |-> 0]

\* A call begins, whose writes the steps of WriteSector make.  One that fails
\* before its first write changes nothing and is not represented.
Call(op, paths, input, outcome) ==
  /\ up /\ Intact /\ call = Idle /\ op \in Operations /\ outcome.writes # <<>>
  /\ call' = [op |-> op, paths |-> paths, input |-> input, ret |-> outcome.ret]
  /\ todo' = outcome.writes
  /\ UNCHANGED <<disk, up>>

CallCreateFile ==
  \E p \in Paths : Call("CreateFile", <<p>>, <<>>, CreateFile(disk, p))
CallCreateDir ==
  \E p \in Paths : Call("CreateDir", <<p>>, <<>>, CreateDir(disk, p))
(* bound: inode number BITS is never deleted.  Its bit, cleared as number    *)
(* BITS, lies in the byte behind the buffer.                                *)
Deletable == {p \in Paths : FindEntry(disk, p) # BITS}
CallDeleteFile ==
  \E p \in Deletable : Call("DeleteFile", <<p>>, <<>>, DeleteFile(disk, p))
CallDeleteDir ==
  \E p \in Deletable : Call("DeleteDir", <<p>>, <<>>, DeleteDir(disk, p))
CallRename ==
  \E p, q \in Paths : Call("Rename", <<p, q>>, <<>>, Rename(disk, p, q))
CallCopyFile ==
  \E p, q \in Paths : Call("CopyFile", <<p, q>>, <<>>, CopyFile(disk, p, q))
CallWriteFile ==
  \E p \in Paths, data \in Data, count \in Counts :
    Call("WriteFile", <<p>>, <<data, count>>,
         WriteFile(disk, p, [i \in Slots |-> Bytes(data)], count))

WriteSector ==
  /\ up /\ Intact /\ todo # <<>>
  /\ disk' = Head(todo) /\ todo' = Tail(todo)
  /\ UNCHANGED <<call, up>>

Return ==
  /\ up /\ Intact /\ todo = <<>> /\ call # Idle
  /\ call' = Idle
  /\ UNCHANGED <<disk, todo, up>>

\* The machine starts again, at any moment: fs_init mounts the disk or panics.
Reset ==
  /\ Resets
  /\ up' = Mounts(disk) /\ call' = Idle /\ todo' = <<>>
  /\ UNCHANGED disk

Init ==
  /\ disk = [imap  |-> Super,
             zmap  |-> ZonesTaken,
             inode |-> [n \in 1 .. BITS |->
                          IF n = ROOT THEN Inode("dir", 2, ROOT_ZONE) ELSE Erased],
             zone  |-> [z \in Zones |->
                          IF z \in MetaZones THEN Metadata
                          ELSE [i \in Slots |->
                                 CASE z = ROOT_ZONE /\ i = 0 -> Slot(ROOT, ".")
                                   [] z = ROOT_ZONE /\ i = 1 -> Slot(ROOT, "..")
                                   [] OTHER                  -> Free]]]
  /\ call = Idle /\ todo = <<>> /\ up = TRUE

Next ==
  \/ CallCreateFile \/ CallCreateDir \/ CallDeleteFile \/ CallDeleteDir
  \/ CallRename \/ CallCopyFile \/ CallWriteFile
  \/ WriteSector \/ Return \/ Reset

Spec == Init /\ [][Next]_vars

-----------------------------------------------------------------------------
(* Properties. *)

SlotType == [inode : 0 .. BITS + 1,
             name  : Names \cup Data \cup {"", ".", "..", "metadata", "untouched"}]

(* Every size fits the one sector ReadFile copies from (file.c:206-208), and *)
(* every number an entry or an inode holds is one the disk has.             *)
TypeOK ==
  /\ disk.imap \subseteq Bits /\ disk.zmap \subseteq Zones
  /\ disk.inode \in [1 .. BITS -> [mode : {"none", "file", "dir"},
                                   size : 0 .. SLOTS, zone : Zones]]
  /\ disk.zone \in [Zones -> [Slots -> SlotType]]
  /\ call.op \in Operations \cup {"none"} /\ Len(todo) <= 6
  /\ up \in BOOLEAN

\* The names a directory's sector has, by slot; and the directories below the
\* root, by zone.
Named(z) == {i \in Slots : disk.zone[z][i].inode \in 1 .. BITS
                             /\ disk.zone[z][i].name \in Names}
Subdirectories(z) ==
  {n \in {disk.zone[z][i].inode : i \in Named(z)} : disk.inode[n].mode = "dir"}
DirectoriesTo[k \in 0 .. BITS] ==
  IF k = 0 THEN {ROOT_ZONE}
  ELSE DirectoriesTo[k - 1] \cup
         {disk.inode[n].zone : n \in UNION {Subdirectories(z) : z \in DirectoriesTo[k - 1]}}
Directories == DirectoriesTo[BITS]
Entries == UNION {{<<z, i>> : i \in Named(z)} : z \in Directories}
InodeAt(e) == disk.zone[e[1]][e[2]].inode

(* An entry reaches an inode that is allocated and formatted, and no other   *)
(* entry reaches the same one, at every moment and so after a reset at any  *)
(* moment: bit, inode and entry are written in that order, and a rename     *)
(* removes before it adds.  For as long as nothing is deleted.              *)
EntriesBacked ==
  /\ \A e \in Entries : /\ InodeAt(e) - 1 \in disk.imap
                        /\ disk.inode[InodeAt(e)].mode # "none"
  /\ \A e, f \in Entries : e # f => InodeAt(e) # InodeAt(f)

(* No directory has two entries of one name: every operation that enters a   *)
(* name looks for it first, in the directory it will enter it in.           *)
NamesUnique ==
  \A z \in Directories : \A i, j \in Named(z) :
    i # j => disk.zone[z][i].name # disk.zone[z][j].name

(* A zone an inode holds is marked in the zone bitmap and no other inode     *)
(* holds it, except in the middle of a deletion, which frees it first.      *)
ZonesOwned ==
  LET holders == {n \in 1 .. BITS : disk.inode[n].zone # 0}
  IN  call.op \notin {"DeleteFile", "DeleteDir"} =>
        /\ \A n \in holders : disk.inode[n].zone \in disk.zmap
        /\ \A m, n \in holders : m # n => disk.inode[m].zone # disk.inode[n].zone

\* What a user of the file system finds at a path.
View(d, p) ==
  LET n == FindEntry(d, p)
  IN  IF n = 0 THEN <<"absent">>
      ELSE IF d.inode[n].mode = "file" THEN <<"file", ReadFile(d, p, SLOTS)>>
      ELSE <<d.inode[n].mode>>

\* The paths a call is meant to change.
Changed == IF call.op = "CopyFile" THEN {call.paths[2]} ELSE Range(call.paths)

(* No write of an operation, also one that the machine is reset after,       *)
(* changes what is found at a path other than the ones it was given and     *)
(* those below: sectors, inodes and zones are shared, and found by number.  *)
FrameKept ==
  [][\A p \in Paths : (\A q \in Changed : ~IsPrefix(q, p))
                         => View(disk', p) = View(disk, p)]_disk

Succeeded(op) == call.op = op /\ todo = <<>> /\ call.ret >= 0

(* An operation that reports success has done what its name says, over all   *)
(* its writes: the new file is empty, the new directory has no names, what  *)
(* was written is read back with zeros behind it, a copy reads as its       *)
(* source, and a renamed entry has moved.  (Not one that moves or copies a  *)
(* directory into itself.)                                                  *)
CallsDoTheirJob ==
  LET p == call.paths[1]
      q == call.paths[2]
      blank == [i \in Slots |-> Free]
  IN  /\ Succeeded("CreateFile") =>
           View(disk, p) = <<"file", [ret |-> 0, output |-> blank]>>
      /\ Succeeded("CreateDir") =>
           View(disk, p) = <<"dir">> /\ Named(DirZone(disk, Append(p, ""))) = {}
      /\ Succeeded("WriteFile") =>
           LET read == ReadFile(disk, p, SLOTS)
           IN  /\ call.ret = Clamped(call.input[2]) /\ read.ret >= call.ret
               /\ read.output = [i \in Slots |-> IF i < call.ret
                                                 THEN Bytes(call.input[1]) ELSE Free]
      /\ Succeeded("CopyFile") /\ ~IsPrefix(p, q) =>
           ReadFile(disk, q, SLOTS) = ReadFile(disk, p, SLOTS)
      /\ Succeeded("Rename") /\ ~IsPrefix(p, q) =>
           FindEntry(disk, p) = 0 /\ FindEntry(disk, q) # 0

(* A file that DeleteFile reports deleted is found no more.                  *)
DeletedIsGone ==
  Succeeded("DeleteFile") => FindEntry(disk, call.paths[1]) = 0

(* start_kernel panics ("FS Mount Error!", init.c:38-40) when the file       *)
(* system does not mount: using it must not bring that about.               *)
Mountable == up

=============================================================================
