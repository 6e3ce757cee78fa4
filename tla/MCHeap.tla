------------------------------- MODULE MCHeap -------------------------------
(***************************************************************************)
(* A heap small enough to run out: 160 bytes hold at most three blocks of  *)
(* these sizes, and only some mixtures of them.                            *)
(***************************************************************************)
EXTENDS Heap, TLC

(* 0 (a bitmap without pixels), a size that is rounded up, one that is not. *)
MCRequests == {0, 10, 40}

=============================================================================
