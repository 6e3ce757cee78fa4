----------------------------- MODULE AtomicDisk -----------------------------
(***************************************************************************)
(* What the file system expects of ide_read_sector and ide_write_sector    *)
(* (include/LySys/file/ide.h): a read returns the content its sector has   *)
(* at one moment of the call, a write changes its own sector and no other, *)
(* once, before it returns.  Neither function reports an error, so on a    *)
(* defective sector a read may return anything and a write do nothing.     *)
(***************************************************************************)
CONSTANTS Callers, Lbas, Sectors, Bad, Contents, Unread

VARIABLES medium,   (* content of every sector                             *)
          request,  (* what each caller is waiting for                     *)
          data      (* each caller's buffer, Unread while a read fills it  *)

vars == <<medium, request, data>>

NoRequest == [op |-> "none"]

Init ==
  /\ medium \in [Lbas -> Contents]
  /\ request = [c \in Callers |-> NoRequest]
  /\ data \in [Callers -> Contents]

Call(c, op, lba, b) ==
  /\ request[c] = NoRequest
  /\ request' = [request EXCEPT ![c] = [op |-> op, lba |-> lba]]
  /\ data' = [data EXCEPT ![c] = IF op = "read" THEN Unread ELSE b]
  /\ UNCHANGED medium

Read(c) ==
  /\ request[c] # NoRequest
  /\ request[c].op = "read"
  /\ \E b \in IF request[c].lba \in Bad THEN Contents
                                        ELSE {medium[request[c].lba]} :
        data' = [data EXCEPT ![c] = b]
  /\ request' = [request EXCEPT ![c] = NoRequest]
  /\ UNCHANGED medium

Write(c) ==
  /\ request[c] # NoRequest
  /\ request[c].op = "write"
  /\ IF request[c].lba \in Bad
       THEN UNCHANGED medium
       ELSE medium' = [medium EXCEPT ![request[c].lba] = data[c]]
  /\ request' = [request EXCEPT ![c].op = "written"]
  /\ UNCHANGED data

Return(c) ==
  /\ request[c] # NoRequest
  /\ request[c].op = "written"
  /\ request' = [request EXCEPT ![c] = NoRequest]
  /\ UNCHANGED <<medium, data>>

Next ==
  \E c \in Callers :
    \/ \E op \in {"read", "write"}, lba \in Sectors, b \in Contents :
          Call(c, op, lba, b)
    \/ Read(c) \/ Write(c) \/ Return(c)

Spec == Init /\ [][Next]_vars

=============================================================================
