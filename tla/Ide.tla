-------------------------------- MODULE Ide ---------------------------------
(***************************************************************************)
(* The ATA driver (kernel/drivers/ide.c), the interrupt handler that wakes *)
(* it (ide_handler of kernel/IRQ/traps.c) and the drive they talk to.      *)
(*                                                                         *)
(* One action is one access to a register or to ide_irq_fired: the driver  *)
(* is interrupted between any two of them.  A polling loop is the step     *)
(* that leaves it.  The drive (external) works on its own, and its         *)
(* interrupt is latched until it is taken: before the next step of a       *)
(* caller that has interrupts enabled, never during a call made with       *)
(* interrupts masked (a task switched to by the timer's Schedule() runs    *)
(* so).                                                                    *)
(*                                                                         *)
(* Nothing in the driver keeps two tasks out of it at the same time, and   *)
(* nothing keeps a caller from masking interrupts.  Serial and MaskedOps   *)
(* say how it is used; README.md says what breaks without them.            *)
(***************************************************************************)
EXTENDS Naturals

CONSTANTS
  Callers,    (* tasks that use the disk                                   *)
  Parts,      (* how many registers hold a sector's number: 4 in the code  *)
  Bytes,      (* the values such a register takes                          *)
  Sectors,    (* sectors the file system asks for                          *)
  Bad,        (* sectors the drive cannot access                           *)
  Words,      (* words of a sector: 256                                    *)
  Values,     (* values of a word                                          *)
  Buffers,    (* contents that are written                                 *)
  Serial,     (* TRUE: a call begins only when no other is in progress     *)
  MaskedOps,  (* the calls that are also made with interrupts masked       *)
  Unread      (* what is in a buffer that is being filled                  *)

Lbas == [1..Parts -> Bytes]
Contents == [1..Words -> Values]
Ops == {"read", "write"}

ASSUME ConstantsAssumption ==
  /\ Parts \in Nat \ {0} /\ Words \in Nat \ {0} /\ Values # {}
  /\ Sectors \subseteq Lbas /\ Bad \subseteq Lbas
  /\ Buffers \subseteq Contents /\ Buffers # {}
  /\ Serial \in BOOLEAN /\ MaskedOps \subseteq Ops

VARIABLES
  pc,        (* each caller's place in ide_read_sector or ide_write_sector *)
  call,      (* the call it makes: function, sector, interrupts masked     *)
  buf,       (* its buffer                                                 *)
  idx,       (* its loop counter                                           *)
  fired,     (* ide_irq_fired                                              *)
  latched,   (* IRQ 14 waits in the PIC                                    *)
  phase,     (* what the drive is doing                                    *)
  nIEN,      (* the drive's interrupt is switched off                      *)
  regs,      (* LBA and drive registers                                    *)
  xfer,      (* the drive's sector buffer                                  *)
  pos,       (* the word of it that is moved next                          *)
  medium     (* the sectors                                                *)

host == <<pc, call, buf, idx, fired>>
drive == <<phase, nIEN, regs, xfer, pos, medium>>
vars == <<pc, call, buf, idx, fired, latched,
          phase, nIEN, regs, xfer, pos, medium>>

Points == {"idle", "control", "ready", "select", "clear", "command", "test",
           "hlt", "halted", "consume", "in", "drq", "out", "flush", "settle"}
Busy == phase \in {"seeking", "preparing", "writing", "flushing"}

TypeOK ==
  /\ pc \in [Callers -> Points]
  /\ call \in [Callers -> [op : Ops, lba : Lbas, masked : BOOLEAN]]
  /\ buf \in [Callers -> Contents]
  /\ idx \in [Callers -> Nat \ {0}]
  /\ fired \in BOOLEAN /\ latched \in BOOLEAN /\ nIEN \in BOOLEAN
  /\ phase \in {"idle", "seeking", "data_in", "preparing", "data_out",
                "writing", "flushing"}
  /\ regs \in Lbas /\ xfer \in Contents /\ pos \in Nat \ {0}
  /\ medium \in [Lbas -> Contents]

(* The firmware may leave the drive's interrupt off and an old one latched. *)
Init ==
  /\ \E b \in Buffers, l \in Sectors :
       /\ call = [c \in Callers |-> [op |-> "read", lba |-> l, masked |-> FALSE]]
       /\ buf = [c \in Callers |-> b]
       /\ regs = l
       /\ xfer = b
       /\ medium = [s \in Lbas |-> b]
  /\ pc = [c \in Callers |-> "idle"]
  /\ idx = [c \in Callers |-> 1]
  /\ fired = FALSE /\ latched \in BOOLEAN /\ nIEN \in BOOLEAN
  /\ phase = "idle" /\ pos = 1

-----------------------------------------------------------------------------
(* The processor *)

(* c executes its next instruction: the processor is not halted, no other   *)
(* caller holds it with interrupts masked, and no interrupt comes first.    *)
CanRun(c) ==
  /\ \A d \in Callers : pc[d] # "halted"
  /\ \A d \in Callers \ {c} : ~call[d].masked
  /\ latched => call[c].masked

At(c, p) == pc[c] = p /\ CanRun(c)
Goto(c, p) == pc' = [pc EXCEPT ![c] = p]
Reset(c) == idx' = [idx EXCEPT ![c] = 1]

(* The caller gets its buffer back. *)
Finish(c) == Goto(c, "idle") /\ call' = [call EXCEPT ![c].masked = FALSE]

(* Any interrupt ends hlt. *)
Wake == pc' = [c \in Callers |-> IF pc[c] = "halted" THEN "test" ELSE pc[c]]

(* ide_handler; vector 47 runs it too, so an interrupt whose line dropped   *)
(* before it was acknowledged still arrives.                                *)
IdeHandler ==
  /\ latched
  /\ \A c \in Callers : ~call[c].masked
  /\ latched' = FALSE
  /\ fired' = TRUE
  /\ Wake
  /\ UNCHANGED <<call, buf, idx, drive>>

(* The timer interrupt, as far as it matters here. *)
Tick ==
  /\ \A c \in Callers : ~call[c].masked
  /\ \E c \in Callers : pc[c] = "halted"
  /\ Wake
  /\ UNCHANGED <<call, buf, idx, fired, latched, drive>>

-----------------------------------------------------------------------------
(* ide_read_sector and ide_write_sector *)

Begin(c, op, lba, b, masked) ==
  /\ pc[c] = "idle"
  /\ \A d \in Callers : pc[d] # "halted" /\ ~call[d].masked
  /\ Serial => \A d \in Callers : pc[d] = "idle"
  /\ masked => op \in MaskedOps
  /\ Goto(c, "control")
  /\ call' = [call EXCEPT ![c] = [op |-> op, lba |-> lba, masked |-> masked]]
  /\ buf' = [buf EXCEPT ![c] = b]
  /\ UNCHANGED <<idx, fired, latched, drive>>

(* mutant: the drive's interrupt stays as the firmware left it. *)
ControlNoEnable(c) ==
  /\ At(c, "control")
  /\ Goto(c, "ready")
  /\ UNCHANGED <<call, buf, idx, fired, latched, drive>>

(* outb(0x3F6, 0x00) switches the drive's interrupt on. *)
Control(c) ==
  /\ At(c, "control")
  /\ nIEN' = FALSE
  /\ Goto(c, "ready")
  /\ UNCHANGED <<call, buf, idx, fired, latched, phase, regs, xfer, pos, medium>>

WaitReady(c) ==
  /\ At(c, "ready")
  /\ ~Busy
  /\ Goto(c, "select") /\ Reset(c)
  /\ UNCHANGED <<call, buf, fired, latched, drive>>

(* One register of the sector's number. *)
Select(c) ==
  /\ At(c, "select")
  /\ regs' = [regs EXCEPT ![idx[c]] = call[c].lba[idx[c]]]
  /\ IF idx[c] = Parts
       THEN Goto(c, "clear") /\ UNCHANGED idx
       ELSE idx' = [idx EXCEPT ![c] = @ + 1] /\ UNCHANGED pc
  /\ UNCHANGED <<call, buf, fired, latched, phase, nIEN, xfer, pos, medium>>

(* mutant: the flag keeps what the interrupts of a write left in it. *)
ClearFiredNot(c) ==
  /\ At(c, "clear")
  /\ Goto(c, "command")
  /\ UNCHANGED <<call, buf, idx, fired, latched, drive>>

ClearFired(c) ==
  /\ At(c, "clear")
  /\ fired' = FALSE
  /\ Goto(c, "command")
  /\ UNCHANGED <<call, buf, idx, latched, drive>>

(* The drive ignores a command while it is busy. *)
Command(c) ==
  /\ At(c, "command")
  /\ IF Busy
       THEN UNCHANGED <<phase, pos>>
       ELSE /\ phase' = IF call[c].op = "read" THEN "seeking" ELSE "preparing"
            /\ pos' = 1
  /\ Goto(c, IF call[c].op = "read" THEN "test" ELSE "drq")
  /\ UNCHANGED <<call, buf, idx, fired, latched, nIEN, regs, xfer, medium>>

(* ide_wait_irq: the test of the flag, the hlt, the reset.                  *)
TestFired(c) ==
  /\ At(c, "test")
  /\ Goto(c, IF fired THEN "consume" ELSE "hlt")
  /\ UNCHANGED <<call, buf, idx, fired, latched, drive>>

Halt(c) ==
  /\ At(c, "hlt")
  /\ Goto(c, "halted")
  /\ UNCHANGED <<call, buf, idx, fired, latched, drive>>

Consume(c) ==
  /\ At(c, "consume")
  /\ fired' = FALSE
  /\ Goto(c, "in") /\ Reset(c)
  /\ UNCHANGED <<call, buf, latched, drive>>

(* The loop moves on to the next word, or ends. *)
MoveWord(c, done) ==
  IF idx[c] = Words
    THEN done /\ UNCHANGED idx
    ELSE idx' = [idx EXCEPT ![c] = @ + 1] /\ UNCHANGED <<pc, call>>
DriveMoves(next) ==
  /\ phase' = IF pos = Words THEN next ELSE phase
  /\ pos' = IF pos = Words THEN 1 ELSE pos + 1

(* ptr[i] = inw(ATA_PRIMARY_DATA): any value when the drive offers none.    *)
InWord(c) ==
  /\ At(c, "in")
  /\ \E w \in IF phase = "data_in" THEN {xfer[pos]} ELSE Values :
       buf' = [buf EXCEPT ![c][idx[c]] = w]
  /\ MoveWord(c, Finish(c))
  /\ IF phase = "data_in" THEN DriveMoves("idle") ELSE UNCHANGED <<phase, pos>>
  /\ UNCHANGED <<fired, latched, nIEN, regs, xfer, medium>>

WaitDrq(c) ==
  /\ At(c, "drq")
  /\ ~Busy
  /\ Goto(c, "out") /\ Reset(c)
  /\ UNCHANGED <<call, buf, fired, latched, drive>>

(* outw(ATA_PRIMARY_DATA, ptr[i]): lost when the drive does not ask for it. *)
OutWord(c) ==
  /\ At(c, "out")
  /\ IF phase = "data_out"
       THEN xfer' = [xfer EXCEPT ![pos] = buf[c][idx[c]]] /\ DriveMoves("writing")
       ELSE UNCHANGED <<phase, xfer, pos>>
  /\ MoveWord(c, Goto(c, "flush") /\ UNCHANGED call)
  /\ UNCHANGED <<buf, fired, latched, nIEN, regs, medium>>

(* FLUSH CACHE is sent without waiting for the write: a drive that is still *)
(* busy with it ignores the command.                                        *)
Flush(c) ==
  /\ At(c, "flush")
  /\ phase' = IF Busy THEN phase ELSE "flushing"
  /\ Goto(c, "settle")
  /\ UNCHANGED <<call, buf, idx, fired, latched, nIEN, regs, xfer, pos, medium>>

(* mutant: a write returns without waiting for the drive. *)
SettleAtOnce(c) ==
  /\ At(c, "settle")
  /\ Finish(c)
  /\ UNCHANGED <<buf, idx, fired, latched, drive>>

Settle(c) ==
  /\ At(c, "settle")
  /\ ~Busy
  /\ Finish(c)
  /\ UNCHANGED <<buf, idx, fired, latched, drive>>

Step(c) ==
  \/ Control(c) \/ WaitReady(c) \/ Select(c) \/ ClearFired(c) \/ Command(c)
  \/ TestFired(c) \/ Halt(c) \/ Consume(c) \/ InWord(c)
  \/ WaitDrq(c) \/ OutWord(c) \/ Flush(c) \/ Settle(c)

-----------------------------------------------------------------------------
(* The drive *)

Interrupt == latched' = (latched \/ ~nIEN)

(* The sector is in the buffer, or cannot be read: ERR, and no data. *)
DriveRead ==
  /\ phase = "seeking"
  /\ IF regs \in Bad
       THEN phase' = "idle" /\ UNCHANGED xfer
       ELSE phase' = "data_in" /\ xfer' = medium[regs]
  /\ Interrupt
  /\ UNCHANGED <<host, nIEN, regs, pos, medium>>

(* Ready for the data of a write: no interrupt. *)
DrivePrepare ==
  /\ phase = "preparing"
  /\ phase' = "data_out"
  /\ UNCHANGED <<host, latched, nIEN, regs, xfer, pos, medium>>

DriveWrite ==
  /\ phase = "writing"
  /\ phase' = "idle"
  /\ medium' = IF regs \in Bad THEN medium ELSE [medium EXCEPT ![regs] = xfer]
  /\ Interrupt
  /\ UNCHANGED <<host, nIEN, regs, xfer, pos>>

DriveFlush ==
  /\ phase = "flushing"
  /\ phase' = "idle"
  /\ Interrupt
  /\ UNCHANGED <<host, nIEN, regs, xfer, pos, medium>>

Drive == DriveRead \/ DrivePrepare \/ DriveWrite \/ DriveFlush

-----------------------------------------------------------------------------
Next ==
  \/ IdeHandler \/ Tick \/ Drive
  \/ \E c \in Callers :
       \/ Step(c)
       \/ \E op \in Ops, lba \in Sectors, b \in Buffers, m \in BOOLEAN :
            Begin(c, op, lba, b, m)

(* The drive finishes what it was told, the timer ticks, an interrupt that  *)
(* can be taken is taken, and a caller that can run runs.                   *)
Fairness ==
  /\ WF_vars(Drive) /\ WF_vars(Tick) /\ WF_vars(IdeHandler)
  /\ \A c \in Callers : WF_vars(Step(c))

Spec == Init /\ [][Next]_vars
FairSpec == Spec /\ Fairness

-----------------------------------------------------------------------------
(* Every word moves when the drive is at the same word of the same sector:  *)
(* the driver tests neither DRQ nor ERR and trusts ide_irq_fired for a read *)
(* and BSY for a write (ide.c:32-39, 49-57).                                *)
InStep ==
  \A c \in Callers :
    /\ pc[c] = "in" =>
         /\ regs = call[c].lba
         /\ phase = "data_in" => pos = idx[c]
         /\ phase # "data_in" => call[c].lba \in Bad
    /\ pc[c] = "out" =>
         regs = call[c].lba /\ phase = "data_out" /\ pos = idx[c]

(* A write has been carried out once its data are in and the drive is no    *)
(* longer busy with them.                                                   *)
Written(c) == pc[c] \in {"flush", "settle"} /\ phase # "writing"

Request(c) ==
  IF pc[c] = "idle" THEN [op |-> "none"]
  ELSE [op |-> IF Written(c) THEN "written" ELSE call[c].op, lba |-> call[c].lba]

Disk == INSTANCE AtomicDisk WITH
  request <- [c \in Callers |-> Request(c)],
  data <- [c \in Callers |->
             IF pc[c] # "idle" /\ call[c].op = "read" THEN Unread
                                                            ELSE buf[c]]

(* A caller that reads gets the content of its own sector, neither the      *)
(* buffer's old content, nor another sector's, nor words taken before the   *)
(* drive had them; a write reaches its own sector once, before the call     *)
(* returns (ide.c:19-62).                                                   *)
Implements == Disk!Spec

(* No call lasts forever: not when the interrupt comes between the test of  *)
(* ide_irq_fired and hlt, not when it is late, not on a defective sector    *)
(* (ide.c:11-16).                                                           *)
CallsReturn == \A c \in Callers : pc[c] # "idle" ~> pc[c] = "idle"

=============================================================================
