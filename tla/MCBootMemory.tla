---------------------------- MODULE MCBootMemory ----------------------------
(***************************************************************************)
(* Four units to a page, a bitmap of 20 blocks and tables of three levels  *)
(* of four entries.  The kernel's image begins and ends inside a page.     *)
(***************************************************************************)
EXTENDS BootMemory, TLC

(* In units.  Memory to the end of the bitmap and beyond, exactly enough    *)
(* for the first framebuffer; the same in regions that overlap and whose    *)
(* ends are inside pages; exactly enough without a framebuffer; one block   *)
(* less, which the heap lacks, because no loop comes to the last block of a *)
(* region that begins late in a page; and too little for the tables.        *)
MCMemoryMaps ==
  { << <<0, 3>>, <<4, 80>> >>,
    << <<0, 4>>, <<6, 40>>, <<30, 49>> >>,
    << <<16, 52>> >>, << <<19, 46>> >>, << <<4, 40>> >> }

(* None; one; one whose second mapping wraps around to a low page.          *)
MCFramebuffers ==
  { [addr |-> 0, size |-> 0], [addr |-> 20, size |-> 2], [addr |-> 33, size |-> 1] }

(* In the low megabyte, and just behind the kernel.                         *)
MCMbiAddresses == {1, 17}

(* The theorems about the tables are about what is checked here.            *)
ASSUME MCLoader == LoaderPasses

=============================================================================
