----------------------------- MODULE MCMinixFS ------------------------------
(***************************************************************************)
(* A sector of 7 bits and 4 slots, and two names.  Bit 3 is set by a field *)
(* of the superblock; bits 4 to 6 are its magic number, whose lowest bit   *)
(* may be either (0x2478 and 0x2479).                                      *)
(***************************************************************************)
EXTENDS MinixFS, TLC

MCSuper      == {3, 6}
MCMagicField == {4, 5, 6}
MCMagics     == {{6}, {4, 6}}

(* A bit less of everything for the deletions, which free bits of Super too. *)
SmallSuper      == {3, 5}
SmallMagicField == {5}
SmallMagics     == {{5}}

(* The root has room for two entries; so has a directory.                   *)
MCNames == {"a", "b"}
MCPaths == {<<"a">>, <<"b">>, <<"a", "b">>}

(* A file shorter than a sector, and more than a sector.                    *)
MCCounts == {1, 5}

AllOperations == {"CreateFile", "CreateDir", "DeleteFile", "DeleteDir",
                  "Rename", "CopyFile", "WriteFile"}
NoDeletion == AllOperations \ {"DeleteFile", "DeleteDir"}

(* Zone 1 is sector 2, zone 2 the inode table, zone 3 the root directory.   *)
MCMetaZones == {1, 2}

(* A zone bitmap that knows the metadata; and sector 3 of src/disk.img, in  *)
(* which only bit 0 is set.                                                 *)
Reserved == 0 .. 3
AsShipped == {0}

=============================================================================
