----------------------------- MODULE IdeProofs ------------------------------
(***************************************************************************)
(* Proofs about the ATA driver, for any number of callers, registers and   *)
(* words and any calls made with interrupts masked, when one call is in    *)
(* progress at a time.                                                     *)
(***************************************************************************)
EXTENDS Ide, TLAPS

(* Nobody else is inside the driver.                                        *)
OneInside ==
  \A c, d \in Callers : pc[c] # "idle" /\ pc[d] # "idle" => c = d

(* Between two calls the drive has finished.                                *)
Quiet == (\A c \in Callers : pc[c] = "idle") => phase = "idle"

Before == {"control", "ready", "select", "clear", "command"}
Waiting == {"test", "hlt", "halted", "consume"}
Reading == Waiting \cup {"in"}
Writing == {"drq", "out", "flush", "settle"}

(* How far c has come, how far the drive has, and that the flag tells it.   *)
Before_OK(c) ==
  /\ pc[c] \in Before => phase = "idle"
  /\ pc[c] = "select" =>
       /\ idx[c] \in 1..Parts
       /\ \A j \in 1..(idx[c] - 1) : regs[j] = call[c].lba[j]
  /\ pc[c] \in {"clear", "command"} \cup Reading \cup Writing =>
       regs = call[c].lba
  /\ pc[c] = "command" => ~fired /\ (latched => call[c].masked)

Reading_OK(c) ==
  /\ pc[c] \in Reading =>
       /\ call[c].op = "read"
       /\ phase \in {"seeking", "data_in", "idle"}
       /\ phase = "idle" => call[c].lba \in Bad
       /\ phase = "data_in" => xfer = medium[call[c].lba]
  /\ pc[c] \in Waiting =>
       /\ pos = 1
       /\ phase = "seeking" => ~fired /\ (latched => call[c].masked)
  /\ pc[c] \in {"consume", "in"} => phase # "seeking"
  /\ pc[c] = "in" =>
       /\ idx[c] \in 1..Words
       /\ phase = "data_in" =>
            /\ pos = idx[c]
            /\ \A j \in 1..(idx[c] - 1) : buf[c][j] = xfer[j]

Writing_OK(c) ==
  /\ pc[c] \in Writing => call[c].op = "write"
  /\ pc[c] = "drq" => phase \in {"preparing", "data_out"} /\ pos = 1
  /\ pc[c] = "out" =>
       /\ phase = "data_out"
       /\ idx[c] \in 1..Words /\ pos = idx[c]
       /\ \A j \in 1..(idx[c] - 1) : xfer[j] = buf[c][j]
  /\ pc[c] = "flush" => phase \in {"writing", "idle"}
  /\ pc[c] = "settle" => phase \in {"writing", "flushing", "idle"}
  /\ pc[c] \in {"flush", "settle"} /\ phase = "writing" =>
       xfer = buf[c]

IInv ==
  /\ TypeOK
  /\ OneInside
  /\ Quiet
  /\ \A c \in Callers : Before_OK(c) /\ Reading_OK(c) /\ Writing_OK(c)

-----------------------------------------------------------------------------

-----------------------------------------------------------------------------
(* The initial states satisfy the invariant. *)
LEMMA InitInv == Init => IInv
<1> SUFFICES ASSUME Init PROVE IInv
  OBVIOUS
<1> USE ConstantsAssumption DEF Init
<1>1. PICK b \in Buffers, l \in Sectors :
        /\ call = [c \in Callers |-> [op |-> "read", lba |-> l, masked |-> FALSE]]
        /\ buf = [c \in Callers |-> b]
        /\ regs = l
        /\ xfer = b
        /\ medium = [s \in Lbas |-> b]
  OBVIOUS
<1>2. b \in Contents /\ l \in Lbas
  OBVIOUS
<1>3. TypeOK
  <2>1. [op |-> "read", lba |-> l, masked |-> FALSE]
           \in [op : Ops, lba : Lbas, masked : BOOLEAN]
    BY <1>2 DEF Ops
  <2>2. call \in [Callers -> [op : Ops, lba : Lbas, masked : BOOLEAN]]
    BY <1>1, <2>1
  <2>3. buf \in [Callers -> Contents] /\ medium \in [Lbas -> Contents]
    BY <1>1, <1>2
  <2>4. pc \in [Callers -> Points] /\ idx \in [Callers -> Nat \ {0}]
    BY DEF Points
  <2>5. /\ fired \in BOOLEAN /\ latched \in BOOLEAN /\ nIEN \in BOOLEAN
    OBVIOUS
  <2>6. pos \in Nat \ {0} /\ phase = "idle"
    OBVIOUS
  <2> QED
    BY <1>1, <1>2, <2>2, <2>3, <2>4, <2>5, <2>6 DEF TypeOK
<1>4. \A c \in Callers : pc[c] = "idle"
  OBVIOUS
<1> QED
  BY <1>3, <1>4 DEF IInv, OneInside, Quiet, Before_OK, Reading_OK, Writing_OK,
     Before, Waiting, Reading, Writing

-----------------------------------------------------------------------------
(* Types *)

(* What the type invariant says of one caller. *)
LEMMA CallerType ==
  ASSUME TypeOK, NEW c \in Callers
  PROVE  /\ pc[c] \in Points
         /\ call[c].op \in Ops /\ call[c].lba \in Lbas
         /\ call[c].masked \in BOOLEAN
         /\ buf[c] \in Contents /\ idx[c] \in Nat \ {0}
BY DEF TypeOK

(* A caller's step keeps every variable in its type. *)
LEMMA StepType ==
  ASSUME TypeOK, NEW c \in Callers, Step(c),
         pc[c] = "select" => idx[c] \in 1..Parts,
         pc[c] \in {"in", "out"} => idx[c] \in 1..Words,
         phase \in {"data_in", "data_out"} /\ pc[c] \in {"in", "out"} =>
           pos \in 1..Words
  PROVE  TypeOK'
<1> USE ConstantsAssumption, CallerType
<1>1. CASE Control(c)
  BY <1>1 DEF Control, Goto, At, TypeOK, Points
<1>2. CASE WaitReady(c)
  BY <1>2 DEF WaitReady, Goto, Reset, At, drive, TypeOK, Points
<1>3. CASE Select(c)
  <2>1. idx[c] \in 1..Parts /\ call[c].lba[idx[c]] \in Bytes
    BY <1>3 DEF Select, At, Lbas
  <2>2. regs' \in Lbas
    BY <1>3, <2>1 DEF Select, Lbas, TypeOK
  <2> QED
    BY <1>3, <2>1, <2>2 DEF Select, Goto, TypeOK, Points
<1>4. CASE ClearFired(c)
  BY <1>4 DEF ClearFired, Goto, drive, TypeOK, Points
<1>5. CASE Command(c)
  BY <1>5 DEF Command, Goto, TypeOK, Points
<1>6. CASE TestFired(c)
  BY <1>6 DEF TestFired, Goto, drive, TypeOK, Points
<1>7. CASE Halt(c)
  BY <1>7 DEF Halt, Goto, drive, TypeOK, Points
<1>8. CASE Consume(c)
  <2>1. pc' \in [Callers -> Points] /\ idx' \in [Callers -> Nat \ {0}]
    BY <1>8 DEF Consume, Goto, Reset, TypeOK, Points
  <2> QED
    BY <1>8, <2>1 DEF Consume, drive, TypeOK
<1>9. CASE InWord(c)
  <2>1. PICK w \in IF phase = "data_in" THEN {xfer[pos]} ELSE Values :
          buf' = [buf EXCEPT ![c][idx[c]] = w]
    BY <1>9 DEF InWord
  <2>2. w \in Values
    BY <1>9 DEF InWord, At, Contents, TypeOK
  <2>3. buf' \in [Callers -> Contents]
    BY <2>1, <2>2 DEF Contents, TypeOK
  <2>4. call' \in [Callers -> [op : Ops, lba : Lbas, masked : BOOLEAN]]
    <3>1. CASE idx[c] = Words
      <4>1. call' = [call EXCEPT ![c].masked = FALSE]
        BY <1>9, <3>1 DEF InWord, MoveWord, Finish
      <4> QED
        BY <4>1 DEF TypeOK
    <3>2. CASE idx[c] # Words
      BY <1>9, <3>2 DEF InWord, MoveWord, TypeOK
    <3> QED
      BY <3>1, <3>2
  <2>5. pc' \in [Callers -> Points] /\ idx' \in [Callers -> Nat \ {0}]
    <3>1. \/ pc' = pc /\ idx' = [idx EXCEPT ![c] = @ + 1]
          \/ pc' = [pc EXCEPT ![c] = "idle"] /\ idx' = idx
      BY <1>9 DEF InWord, MoveWord, Finish, Goto
    <3> QED
      BY <3>1, SMTT(30) DEF TypeOK, Points
  <2>6. phase' \in {phase, "idle"} /\ pos' \in Nat \ {0}
    BY <1>9 DEF InWord, DriveMoves, TypeOK
  <2> QED
    BY <1>9, <2>3, <2>4, <2>5, <2>6 DEF InWord, TypeOK
<1>10. CASE WaitDrq(c)
  BY <1>10 DEF WaitDrq, Goto, Reset, drive, TypeOK, Points
<1>11. CASE OutWord(c)
  <2>1. buf[c][idx[c]] \in Values
    BY <1>11 DEF OutWord, At, Contents
  <2>2. xfer' \in Contents
    BY <1>11, <2>1 DEF OutWord, At, Contents, TypeOK
  <2>3. pc' \in [Callers -> Points] /\ idx' \in [Callers -> Nat \ {0}]
    BY <1>11 DEF OutWord, MoveWord, Goto, TypeOK, Points
  <2>4. phase' \in {phase, "writing"} /\ pos' \in Nat \ {0}
    BY <1>11 DEF OutWord, DriveMoves, TypeOK
  <2>5. UNCHANGED <<call, buf, fired, latched, nIEN, regs, medium>>
    BY <1>11 DEF OutWord, MoveWord
  <2> QED
    BY <2>2, <2>3, <2>4, <2>5 DEF TypeOK
<1>12. CASE Flush(c)
  BY <1>12 DEF Flush, Goto, TypeOK, Points
<1>13. CASE Settle(c)
  <2>1. call' \in [Callers -> [op : Ops, lba : Lbas, masked : BOOLEAN]]
    BY <1>13 DEF Settle, Finish, TypeOK
  <2> QED
    BY <1>13, <2>1 DEF Settle, Finish, Goto, drive, TypeOK, Points
<1> QED
  BY <1>1, <1>2, <1>3, <1>4, <1>5, <1>6, <1>7, <1>8, <1>9, <1>10, <1>11,
     <1>12, <1>13 DEF Step

(* So do a new call, the interrupt handlers and the drive. *)
LEMMA OtherType ==
  ASSUME TypeOK,
         \/ IdeHandler \/ Tick \/ Drive
         \/ \E c \in Callers, op \in Ops, lba \in Sectors, b \in Buffers,
               m \in BOOLEAN : Begin(c, op, lba, b, m)
  PROVE  TypeOK'
<1> USE ConstantsAssumption
<1>1. CASE IdeHandler
  BY <1>1 DEF IdeHandler, Wake, drive, TypeOK, Points
<1>2. CASE Tick
  BY <1>2 DEF Tick, Wake, drive, TypeOK, Points
<1>3. CASE Drive
  <2>1. latched' \in BOOLEAN
    BY <1>3 DEF Drive, DriveRead, DrivePrepare, DriveWrite, DriveFlush,
       Interrupt, TypeOK
  <2> QED
    BY <1>3, <2>1 DEF Drive, DriveRead, DrivePrepare, DriveWrite, DriveFlush,
       host, TypeOK
<1>4. ASSUME NEW c \in Callers, NEW op \in Ops, NEW lba \in Sectors,
             NEW b \in Buffers, NEW m \in BOOLEAN, Begin(c, op, lba, b, m)
      PROVE  TypeOK'
  <2>1. [op |-> op, lba |-> lba, masked |-> m]
           \in [op : Ops, lba : Lbas, masked : BOOLEAN]
    OBVIOUS
  <2>2. call' \in [Callers -> [op : Ops, lba : Lbas, masked : BOOLEAN]]
    BY <1>4, <2>1 DEF Begin, TypeOK
  <2> QED
    BY <1>4, <2>2 DEF Begin, Goto, drive, TypeOK, Points
<1> QED
  BY <1>1, <1>2, <1>3, <1>4

-----------------------------------------------------------------------------
(* The invariant *)

(* One caller's part of the invariant is enough when the others are idle. *)
LEMMA Assemble ==
  ASSUME TypeOK', NEW c \in Callers,
         \A d \in Callers \ {c} : pc'[d] = "idle",
         pc'[c] = "idle" => phase' = "idle",
         Before_OK(c)', Reading_OK(c)', Writing_OK(c)'
  PROVE  IInv'
<1>1. OneInside' /\ Quiet'
  BY DEF OneInside, Quiet
<1>2. ASSUME NEW d \in Callers, d # c
      PROVE  (Before_OK(d) /\ Reading_OK(d) /\ Writing_OK(d))'
  BY <1>2 DEF Before_OK, Reading_OK, Writing_OK, Before, Waiting, Reading, Writing
<1> QED
  BY <1>1, <1>2 DEF IInv

(* A step is taken by the one caller that is inside, and moves no other. *)
LEMMA StepAlone ==
  ASSUME IInv, NEW c \in Callers, Step(c)
  PROVE  /\ pc[c] # "idle"
         /\ \A d \in Callers \ {c} : pc[d] = "idle" /\ pc'[d] = "idle"
<1>1. pc[c] # "idle"
  BY DEF Step, Control, WaitReady, Select, ClearFired, Command, TestFired, Halt,
     Consume, InWord, WaitDrq, OutWord, Flush, Settle, At
<1>2. \E p \in Points : pc' = [pc EXCEPT ![c] = p] \/ pc' = pc
  BY DEF Step, Control, WaitReady, Select, ClearFired, Command, TestFired, Halt,
     Consume, InWord, WaitDrq, OutWord, Flush, Settle, Goto, Finish, MoveWord,
     Points
<1> QED
  BY <1>1, <1>2 DEF IInv, OneInside, TypeOK

(* The steps up to the command keep the caller's part. *)
LEMMA BeforeSteps ==
  ASSUME IInv, NEW c \in Callers,
         Control(c) \/ WaitReady(c) \/ Select(c) \/ ClearFired(c) \/ Command(c)
  PROVE  /\ Before_OK(c)' /\ Reading_OK(c)' /\ Writing_OK(c)'
         /\ pc'[c] # "idle"
<1> USE ConstantsAssumption, CallerType DEF IInv, At, Before, Waiting, Reading,
    Writing
<1>1. CASE Control(c)
  BY <1>1 DEF Control, Goto, TypeOK, Before_OK, Reading_OK, Writing_OK
<1>2. CASE WaitReady(c)
  <2>1. /\ pc'[c] = "select" /\ idx'[c] = 1
        /\ UNCHANGED <<call, buf, fired, latched, drive>> /\ pc[c] = "ready"
    BY <1>2 DEF WaitReady, Goto, Reset, TypeOK
  <2> QED
    BY <2>1 DEF drive, Before_OK, Reading_OK, Writing_OK
<1>3. CASE Select(c)
  <2>1. /\ pc[c] = "select" /\ phase = "idle" /\ idx[c] \in 1..Parts
        /\ \A j \in 1..(idx[c] - 1) : regs[j] = call[c].lba[j]
    BY <1>3 DEF Select, Before_OK
  <2>2. regs' = [regs EXCEPT ![idx[c]] = call[c].lba[idx[c]]]
    BY <1>3 DEF Select
  <2>3. regs \in [1..Parts -> Bytes] /\ call[c].lba \in [1..Parts -> Bytes]
    BY DEF TypeOK, Lbas
  <2>4. \A j \in 1..idx[c] : regs'[j] = call[c].lba[j]
    BY <2>1, <2>2, <2>3
  <2>5. CASE idx[c] = Parts
    <3>1. regs' = call[c].lba
      BY <2>2, <2>3, <2>4, <2>5
    <3>2. pc'[c] = "clear" /\ UNCHANGED <<call, phase>>
      BY <1>3, <2>5 DEF Select, Goto, TypeOK
    <3> QED
      BY <2>1, <3>1, <3>2 DEF Before_OK, Reading_OK, Writing_OK
  <2>6. CASE idx[c] # Parts
    <3>1. /\ pc'[c] = "select" /\ idx'[c] = idx[c] + 1
          /\ UNCHANGED <<call, phase>>
      BY <1>3, <2>1, <2>6 DEF Select, TypeOK
    <3>2. idx'[c] \in 1..Parts /\ idx'[c] - 1 = idx[c]
      BY <2>1, <2>6, <3>1
    <3> QED
      BY <2>1, <2>4, <3>1, <3>2 DEF Before_OK, Reading_OK, Writing_OK
  <2> QED
    BY <2>5, <2>6
<1>4. CASE ClearFired(c)
  <2>1. /\ pc[c] = "clear" /\ pc'[c] = "command" /\ ~fired'
        /\ latched => call[c].masked
        /\ UNCHANGED <<call, latched, drive>>
    BY <1>4 DEF ClearFired, Goto, TypeOK, CanRun
  <2> QED
    BY <2>1 DEF drive, Before_OK, Reading_OK, Writing_OK
<1>5. CASE Command(c)
  <2>1. /\ pc[c] = "command" /\ phase = "idle" /\ regs = call[c].lba
        /\ ~fired /\ (latched => call[c].masked)
    BY <1>5 DEF Command, Before_OK
  <2>2. /\ pos' = 1
        /\ phase' = IF call[c].op = "read" THEN "seeking" ELSE "preparing"
        /\ pc'[c] = IF call[c].op = "read" THEN "test" ELSE "drq"
        /\ UNCHANGED <<call, fired, latched, regs>>
    BY <1>5, <2>1 DEF Command, Busy, Goto, TypeOK
  <2>3. call[c].op # "read" => call[c].op = "write"
    BY DEF Ops
  <2> QED
    BY <2>1, <2>2, <2>3 DEF Before_OK, Reading_OK, Writing_OK
<1> QED
  BY <1>1, <1>2, <1>3, <1>4, <1>5,
     \A p \in {"ready", "select", "clear", "command", "test", "drq"} : p # "idle"
     DEF Control, WaitReady, Select, ClearFired, Command, Goto, TypeOK

(* The steps of a read after the command keep the caller's part. *)
LEMMA ReadSteps ==
  ASSUME IInv, NEW c \in Callers,
         TestFired(c) \/ Halt(c) \/ Consume(c) \/ InWord(c)
  PROVE  /\ Before_OK(c)' /\ Reading_OK(c)' /\ Writing_OK(c)'
         /\ pc'[c] = "idle" => phase' = "idle"
<1> USE ConstantsAssumption, CallerType DEF IInv, At, Before, Waiting, Reading,
    Writing
<1>1. CASE TestFired(c)
  <2>1. /\ pc[c] = "test" /\ pc'[c] = IF fired THEN "consume" ELSE "hlt"
        /\ UNCHANGED <<call, buf, idx, fired, latched, drive>>
    BY <1>1 DEF TestFired, Goto, TypeOK
  <2> QED
    BY <2>1 DEF drive, Before_OK, Reading_OK, Writing_OK
<1>2. CASE Halt(c)
  <2>1. /\ pc[c] = "hlt" /\ pc'[c] = "halted"
        /\ UNCHANGED <<call, buf, idx, fired, latched, drive>>
    BY <1>2 DEF Halt, Goto, TypeOK
  <2> QED
    BY <2>1 DEF drive, Before_OK, Reading_OK, Writing_OK
<1>3. CASE Consume(c)
  <2>1. /\ pc[c] = "consume" /\ pc'[c] = "in" /\ idx'[c] = 1
        /\ UNCHANGED <<call, buf, latched, drive>>
    BY <1>3 DEF Consume, Goto, Reset, TypeOK
  <2>2. 1 \in 1..Words /\ 1..(1 - 1) = {}
    OBVIOUS
  <2> QED
    BY <2>1, <2>2 DEF drive, Before_OK, Reading_OK, Writing_OK
<1>4. CASE InWord(c)
  <2>1. /\ pc[c] = "in" /\ call[c].op = "read" /\ regs = call[c].lba
        /\ phase \in {"data_in", "idle"} /\ idx[c] \in 1..Words
        /\ phase = "idle" => call[c].lba \in Bad
        /\ phase = "data_in" =>
             /\ xfer = medium[call[c].lba] /\ pos = idx[c]
             /\ \A j \in 1..(idx[c] - 1) : buf[c][j] = xfer[j]
    BY <1>4 DEF InWord, Before_OK, Reading_OK
  <2>2. UNCHANGED <<fired, latched, regs, xfer, medium>>
    BY <1>4 DEF InWord
  <2>3. CASE idx[c] = Words
    <3>1. pc'[c] = "idle"
      BY <1>4, <2>3 DEF InWord, MoveWord, Finish, Goto, TypeOK
    <3>2. phase' = "idle"
      BY <1>4, <2>1, <2>3 DEF InWord, DriveMoves
    <3> QED
      BY <3>1, <3>2 DEF Before_OK, Reading_OK, Writing_OK
  <2>4. CASE idx[c] # Words
    <3>1. pc'[c] = "in" /\ call' = call /\ idx'[c] = idx[c] + 1
      BY <1>4, <2>1, <2>4 DEF InWord, MoveWord, TypeOK
    <3>2. idx'[c] \in 1..Words /\ idx'[c] - 1 = idx[c]
      BY <2>1, <2>4, <3>1
    <3>3. phase' = phase /\ (phase = "data_in" => pos' = idx'[c])
      BY <1>4, <2>1, <2>4, <3>1 DEF InWord, DriveMoves
    <3>4. ASSUME phase = "data_in", NEW j \in 1..idx[c]
          PROVE  buf'[c][j] = xfer[j]
      <4>1. buf' = [buf EXCEPT ![c][idx[c]] = xfer[idx[c]]]
        BY <1>4, <2>1, <3>4 DEF InWord
      <4>2. buf'[c] = [buf[c] EXCEPT ![idx[c]] = xfer[idx[c]]]
        BY <4>1 DEF TypeOK
      <4>3. buf[c] \in [1..Words -> Values]
        BY DEF TypeOK, Contents
      <4> QED
        BY <2>1, <3>4, <4>2, <4>3
    <3> QED
      BY <2>1, <2>2, <3>1, <3>2, <3>3, <3>4 DEF Before_OK, Reading_OK, Writing_OK
  <2> QED
    BY <2>3, <2>4
<1> QED
  BY <1>1, <1>2, <1>3, <1>4 DEF TestFired, Halt, Consume, Goto, TypeOK

(* The steps of a write after the command keep the caller's part. *)
LEMMA WriteSteps ==
  ASSUME IInv, NEW c \in Callers,
         WaitDrq(c) \/ OutWord(c) \/ Flush(c) \/ Settle(c)
  PROVE  /\ Before_OK(c)' /\ Reading_OK(c)' /\ Writing_OK(c)'
         /\ pc'[c] = "idle" => phase' = "idle"
<1> USE ConstantsAssumption, CallerType DEF IInv, At, Before, Waiting, Reading,
    Writing
<1>1. CASE WaitDrq(c)
  <2>1. /\ pc[c] = "drq" /\ pc'[c] = "out" /\ idx'[c] = 1
        /\ UNCHANGED <<call, buf, fired, latched, drive>>
    BY <1>1 DEF WaitDrq, Goto, Reset, TypeOK
  <2>2. phase = "data_out" /\ pos = 1
    BY <1>1, <2>1 DEF WaitDrq, Busy, Writing_OK
  <2>3. 1 \in 1..Words /\ 1..(1 - 1) = {}
    OBVIOUS
  <2> QED
    BY <2>1, <2>2, <2>3 DEF drive, Before_OK, Reading_OK, Writing_OK
<1>2. CASE OutWord(c)
  <2>1. /\ pc[c] = "out" /\ call[c].op = "write" /\ regs = call[c].lba
        /\ phase = "data_out" /\ idx[c] \in 1..Words /\ pos = idx[c]
        /\ \A j \in 1..(idx[c] - 1) : xfer[j] = buf[c][j]
    BY <1>2 DEF OutWord, Before_OK, Writing_OK
  <2>2. /\ UNCHANGED <<buf, call, fired, latched, regs>>
        /\ xfer' = [xfer EXCEPT ![idx[c]] = buf[c][idx[c]]]
    BY <1>2, <2>1 DEF OutWord, MoveWord
  <2>3. xfer \in [1..Words -> Values] /\ buf[c] \in [1..Words -> Values]
    BY DEF TypeOK, Contents
  <2>4. \A j \in 1..idx[c] : xfer'[j] = buf[c][j]
    BY <2>1, <2>2, <2>3
  <2>5. CASE idx[c] = Words
    <3>1. pc'[c] = "flush" /\ phase' = "writing"
      BY <1>2, <2>1, <2>5 DEF OutWord, MoveWord, DriveMoves, Goto, TypeOK
    <3>2. xfer' = buf[c]
      BY <2>2, <2>3, <2>4, <2>5
    <3> QED
      BY <2>1, <2>2, <3>1, <3>2 DEF Before_OK, Reading_OK, Writing_OK
  <2>6. CASE idx[c] # Words
    <3>1. /\ pc'[c] = "out" /\ idx'[c] = idx[c] + 1
          /\ phase' = "data_out" /\ pos' = idx'[c]
      BY <1>2, <2>1, <2>6 DEF OutWord, MoveWord, DriveMoves, TypeOK
    <3>2. idx'[c] \in 1..Words /\ idx'[c] - 1 = idx[c]
      BY <2>1, <2>6, <3>1
    <3> QED
      BY <2>1, <2>2, <2>4, <3>1, <3>2 DEF Before_OK, Reading_OK, Writing_OK
  <2> QED
    BY <2>5, <2>6
<1>3. CASE Flush(c)
  <2>1. /\ pc[c] = "flush" /\ pc'[c] = "settle"
        /\ phase' = IF phase = "writing" THEN phase ELSE "flushing"
        /\ UNCHANGED <<call, buf, idx, fired, latched, regs, xfer, pos>>
    BY <1>3 DEF Flush, Goto, Busy, TypeOK, Writing_OK
  <2> QED
    BY <2>1 DEF Before_OK, Reading_OK, Writing_OK
<1>4. CASE Settle(c)
  <2>1. pc[c] = "settle" /\ pc'[c] = "idle" /\ UNCHANGED drive
    BY <1>4 DEF Settle, Finish, Goto, TypeOK
  <2>2. phase' = "idle"
    BY <1>4, <2>1 DEF Settle, Busy, Writing_OK, drive
  <2> QED
    BY <2>1, <2>2 DEF Before_OK, Reading_OK, Writing_OK
<1> QED
  BY <1>1, <1>2, <1>3, <1>4 DEF WaitDrq, OutWord, MoveWord, Flush, Goto, TypeOK

(* Every step of a caller keeps the invariant. *)
LEMMA StepInv ==
  ASSUME IInv, NEW c \in Callers, Step(c)
  PROVE  IInv'
<1>1. TypeOK'
  BY StepType DEF IInv, Before_OK, Reading_OK, Writing_OK, Reading, Waiting
<1>2. \A d \in Callers \ {c} : pc'[d] = "idle"
  BY StepAlone
<1>3. /\ Before_OK(c)' /\ Reading_OK(c)' /\ Writing_OK(c)'
      /\ pc'[c] = "idle" => phase' = "idle"
  BY BeforeSteps, ReadSteps, WriteSteps DEF Step
<1> QED
  BY <1>1, <1>2, <1>3, Assemble

(* An interrupt only wakes: the flag it sets tells the truth. *)
LEMMA HandlerInv ==
  ASSUME IInv, IdeHandler \/ Tick
  PROVE  IInv'
<1> USE DEF IInv, Before, Waiting, Reading, Writing
<1>1. TypeOK'
  BY OtherType
<1>2. /\ \A c \in Callers : /\ ~call[c].masked
                            /\ pc'[c] = IF pc[c] = "halted" THEN "test" ELSE pc[c]
      /\ UNCHANGED <<call, buf, idx, drive>>
      /\ UNCHANGED <<fired, latched>> \/ latched
  BY DEF IdeHandler, Tick, Wake
<1>3. OneInside' /\ Quiet'
  BY <1>2 DEF OneInside, Quiet, drive
<1>4. ASSUME NEW c \in Callers
      PROVE  (Before_OK(c) /\ Reading_OK(c) /\ Writing_OK(c))'
  BY <1>2 DEF drive, Before_OK, Reading_OK, Writing_OK
<1> QED
  BY <1>1, <1>3, <1>4

(* The drive moves on, and latches its interrupt, only inside a call. *)
LEMMA DriveInv ==
  ASSUME IInv, Drive
  PROVE  IInv'
<1> USE DEF IInv, Before, Waiting, Reading, Writing
<1>1. TypeOK'
  BY OtherType
<1>2. UNCHANGED <<host, regs, pos>> /\ phase # "idle"
  BY DEF Drive, DriveRead, DrivePrepare, DriveWrite, DriveFlush
<1>3. OneInside' /\ Quiet'
  BY <1>2 DEF OneInside, Quiet, host
<1>4. ASSUME NEW c \in Callers
      PROVE  (Before_OK(c) /\ Reading_OK(c) /\ Writing_OK(c))'
  <2>1. CASE pc[c] = "idle"
    BY <1>2, <2>1 DEF host, Before_OK, Reading_OK, Writing_OK
  <2>2. CASE pc[c] \in Before
    BY <1>2, <2>2 DEF Before_OK
  <2>3. CASE pc[c] \in Reading
    <3>1. DriveRead
      BY <2>3, <1>2 DEF Drive, DriveRead, DrivePrepare, DriveWrite, DriveFlush,
         Reading_OK
    <3>2. /\ phase = "seeking" /\ regs = call[c].lba /\ medium' = medium
          /\ \/ phase' = "idle" /\ call[c].lba \in Bad
             \/ phase' = "data_in" /\ xfer' = medium[call[c].lba]
      BY <3>1, <2>3 DEF DriveRead, Before_OK
    <3> QED
      BY <1>2, <2>3, <3>2 DEF host, Before_OK, Reading_OK, Writing_OK
  <2>4. CASE pc[c] \in Writing
    BY <1>2, <2>4 DEF Drive, DriveRead, DrivePrepare, DriveWrite, DriveFlush,
       host, Before_OK, Reading_OK, Writing_OK
  <2> QED
    BY <2>1, <2>2, <2>3, <2>4, CallerType DEF Points
<1> QED
  BY <1>1, <1>3, <1>4

(* A call that begins alone finds the drive idle. *)
LEMMA BeginInv ==
  ASSUME Serial, IInv, NEW c \in Callers, NEW op \in Ops, NEW lba \in Sectors,
         NEW b \in Buffers, NEW m \in BOOLEAN, Begin(c, op, lba, b, m)
  PROVE  IInv'
<1>1. TypeOK'
  BY OtherType DEF IInv
<1>2. /\ \A d \in Callers : pc[d] = "idle"
      /\ pc' = [pc EXCEPT ![c] = "control"]
      /\ UNCHANGED drive
  BY DEF Begin, Goto
<1>3. /\ phase = "idle" /\ phase' = "idle" /\ pc'[c] = "control"
      /\ \A d \in Callers \ {c} : pc'[d] = "idle"
  BY <1>2 DEF IInv, Quiet, TypeOK, drive
<1>4. Before_OK(c)' /\ Reading_OK(c)' /\ Writing_OK(c)'
  BY <1>3 DEF Before_OK, Reading_OK, Writing_OK, Before, Waiting, Reading, Writing
<1> QED
  BY <1>1, <1>3, <1>4, Assemble

LEMMA NextInv ==
  ASSUME Serial, IInv, [Next]_vars
  PROVE  IInv'
<1>1. CASE UNCHANGED vars
  BY <1>1 DEF vars, IInv, TypeOK, OneInside, Quiet, Before_OK, Reading_OK,
     Writing_OK
<1>2. CASE Next
  BY <1>2, StepInv, HandlerInv, DriveInv, BeginInv DEF Next
<1> QED
  BY <1>1, <1>2

(* The invariant holds as long as calls are made one at a time (ide.c has   *)
(* no lock; every caller of the file system must see to it).                *)
THEOREM Invariant ==
  ASSUME Serial
  PROVE  Spec => []IInv
BY InitInv, NextInv, PTL DEF Spec

(* Every word moves at the word of the sector where the drive stands:       *)
(* ide_irq_fired is never set by an older interrupt, whatever interrupts    *)
(* writes leave behind (ide.c:32-39, 49-57).                                *)
THEOREM InStepHolds ==
  ASSUME Serial
  PROVE  Spec => []InStep
<1>1. IInv => InStep
  BY CallerType DEF IInv, InStep, Before_OK, Reading_OK, Writing_OK, Waiting,
     Reading, Writing
<1> QED
  BY <1>1, Invariant, PTL

-----------------------------------------------------------------------------
(* Refinement *)

Requests == [c \in Callers |-> Request(c)]
Buffer(c) == IF pc[c] # "idle" /\ call[c].op = "read" THEN Unread ELSE buf[c]
Data == [c \in Callers |-> Buffer(c)]
Carried(point, ph) == point \in {"flush", "settle"} /\ ph # "writing"

LEMMA InitRefines == Init => Disk!Init
<1> SUFFICES ASSUME Init PROVE Disk!Init
  OBVIOUS
<1>1. IInv /\ \A c \in Callers : pc[c] = "idle"
  BY InitInv DEF Init
<1> QED
  BY <1>1 DEF Disk!Init, Disk!NoRequest, Request, IInv, TypeOK

(* A step that leaves the sectors and what every caller waits for as they   *)
(* are is no step of the disk.                                              *)
LEMMA Stutter ==
  /\ UNCHANGED <<call, medium>>
  /\ \A c \in Callers :
       /\ pc[c] = "idle" <=> pc'[c] = "idle"
       /\ pc[c] # "idle" => (Carried(pc'[c], phase') <=> Carried(pc[c], phase))
       /\ buf'[c] = buf[c] \/ (pc[c] # "idle" /\ call[c].op = "read")
  => UNCHANGED <<medium, Requests, Data>>
<1> SUFFICES ASSUME UNCHANGED <<call, medium>>,
                    \A c \in Callers :
                      /\ pc[c] = "idle" <=> pc'[c] = "idle"
                      /\ pc[c] # "idle" =>
                           (Carried(pc'[c], phase') <=> Carried(pc[c], phase))
                      /\ buf'[c] = buf[c] \/ (pc[c] # "idle" /\ call[c].op = "read")
             PROVE  UNCHANGED <<medium, Requests, Data>>
  OBVIOUS
<1>1. \A c \in Callers : Request(c)' = Request(c) /\ Buffer(c)' = Buffer(c)
  BY DEF Request, Buffer, Written, Carried
<1> QED
  BY <1>1 DEF Requests, Data

(* The last word of a read answers the request. *)
LEMMA ReadRefines ==
  ASSUME IInv, IInv', NEW c \in Callers, InWord(c), idx[c] = Words
  PROVE  Disk!Read(c)
<1> USE ConstantsAssumption, CallerType DEF IInv
<1>1. /\ pc[c] = "in" /\ call[c].op = "read" /\ phase \in {"data_in", "idle"}
      /\ phase = "idle" => call[c].lba \in Bad
      /\ phase = "data_in" =>
           /\ xfer = medium[call[c].lba] /\ pos = idx[c]
           /\ \A j \in 1..(idx[c] - 1) : buf[c][j] = xfer[j]
  BY DEF InWord, At, Reading_OK, Reading, Waiting
<1>2. /\ pc' = [pc EXCEPT ![c] = "idle"] /\ medium' = medium
      /\ call' = [call EXCEPT ![c].masked = FALSE]
  BY DEF InWord, MoveWord, Finish, Goto
<1>3. PICK w \in IF phase = "data_in" THEN {xfer[pos]} ELSE Values :
        buf' = [buf EXCEPT ![c][idx[c]] = w]
  BY DEF InWord
<1>4. buf'[c] \in IF call[c].lba \in Bad THEN Contents ELSE {medium[call[c].lba]}
  <2>1. buf'[c] \in Contents
    BY DEF TypeOK
  <2>2. ASSUME phase = "data_in"
        PROVE  buf'[c] = xfer
    <3>1. buf'[c] = [buf[c] EXCEPT ![Words] = xfer[Words]]
      BY <1>1, <1>3, <2>2 DEF TypeOK
    <3>2. buf[c] \in [1..Words -> Values] /\ xfer \in [1..Words -> Values]
      BY DEF TypeOK, Contents
    <3> QED
      BY <1>1, <2>2, <3>1, <3>2
  <2> QED
    BY <1>1, <2>1, <2>2
<1>5. \A d \in Callers \ {c} : pc'[d] = pc[d] /\ buf'[d] = buf[d] /\ pc[d] = "idle"
  BY <1>1, <1>2, <1>3 DEF TypeOK, OneInside
<1>6. /\ Requests[c] = [op |-> "read", lba |-> call[c].lba]
      /\ Requests' = [Requests EXCEPT ![c] = Disk!NoRequest]
  <2>1. Request(c) = [op |-> "read", lba |-> call[c].lba] /\ pc'[c] = "idle"
    BY <1>1, <1>2 DEF Request, Written, TypeOK
  <2>2. Request(c)' = Disk!NoRequest
    BY <2>1 DEF Request, Disk!NoRequest
  <2>3. \A d \in Callers \ {c} : Request(d)' = Request(d)
    BY <1>5 DEF Request
  <2> QED
    BY <2>1, <2>2, <2>3 DEF Requests
<1>7. Data' = [Data EXCEPT ![c] = buf'[c]]
  <2>1. Buffer(c)' = buf'[c]
    BY <1>2 DEF Buffer, TypeOK
  <2>2. \A d \in Callers \ {c} : Buffer(d)' = Buffer(d)
    BY <1>5 DEF Buffer
  <2> QED
    BY <2>1, <2>2 DEF Data
<1> QED
  <2>1. Requests[c] # Disk!NoRequest /\ Requests[c].op = "read"
        /\ Requests[c].lba = call[c].lba
    BY <1>6 DEF Disk!NoRequest
  <2> QED
    BY <1>2, <1>4, <1>6, <1>7, <2>1 DEF Disk!Read, Requests, Data, Buffer

(* The drive carries a write out with the data and the sector of its call. *)
LEMMA WriteRefines ==
  ASSUME IInv, DriveWrite
  PROVE  \E c \in Callers : Disk!Write(c)
<1> USE CallerType DEF IInv
<1>1. PICK c \in Callers : pc[c] # "idle"
  BY DEF DriveWrite, Quiet
<1>2. /\ pc[c] \in {"flush", "settle"} /\ call[c].op = "write"
      /\ regs = call[c].lba /\ xfer = buf[c] /\ phase = "writing"
  BY <1>1 DEF DriveWrite, Points, Before_OK, Reading_OK, Writing_OK, Before, Waiting,
     Reading, Writing
<1>3. /\ phase' = "idle" /\ UNCHANGED <<pc, call, buf>>
      /\ medium' = IF call[c].lba \in Bad THEN medium
                   ELSE [medium EXCEPT ![call[c].lba] = buf[c]]
  BY <1>2 DEF DriveWrite, host
<1>4. /\ Request(c) = [op |-> "write", lba |-> call[c].lba]
      /\ Request(c)' = [op |-> "written", lba |-> call[c].lba]
  BY <1>2, <1>3 DEF Request, Written
<1>5. \A d \in Callers \ {c} : Request(d)' = Request(d)
  BY <1>1, <1>3 DEF Request, OneInside
<1>6. Requests[c] = [op |-> "write", lba |-> call[c].lba]
  BY <1>4 DEF Requests
<1>7. Requests' = [Requests EXCEPT ![c].op = "written"]
  <2>1. [Requests[c] EXCEPT !.op = "written"] = Request(c)'
    BY <1>4, <1>6
  <2> QED
    BY <1>5, <2>1 DEF Requests
<1>8. Data' = Data /\ Data[c] = buf[c]
  BY <1>2, <1>3 DEF Data, Buffer
<1>9. /\ Requests[c] # Disk!NoRequest /\ Requests[c].op = "write"
      /\ Requests[c].lba = call[c].lba
  BY <1>6 DEF Disk!NoRequest
<1> QED
  BY <1>3, <1>7, <1>8, <1>9 DEF Disk!Write, Requests, Data, Buffer

(* A write returns after it was carried out. *)
LEMMA ReturnRefines ==
  ASSUME IInv, NEW c \in Callers, Settle(c)
  PROVE  Disk!Return(c)
<1> USE CallerType DEF IInv
<1>1. /\ pc[c] = "settle" /\ call[c].op = "write" /\ phase # "writing"
      /\ pc' = [pc EXCEPT ![c] = "idle"]
      /\ call' = [call EXCEPT ![c].masked = FALSE]
      /\ buf' = buf /\ medium' = medium
  BY DEF Settle, At, Finish, Goto, Busy, Writing_OK, Writing, drive
<1>2. /\ Request(c) = [op |-> "written", lba |-> call[c].lba]
      /\ Request(c)' = Disk!NoRequest
  BY <1>1 DEF Request, Written, TypeOK, Disk!NoRequest
<1>3. \A d \in Callers \ {c} : pc[d] = "idle" /\ pc'[d] = "idle"
  BY <1>1 DEF OneInside, TypeOK
<1>4. \A d \in Callers \ {c} : Request(d)' = Request(d)
  BY <1>3 DEF Request
<1>5. Requests' = [Requests EXCEPT ![c] = Disk!NoRequest]
  BY <1>2, <1>4 DEF Requests
<1>6. Data' = Data
  BY <1>1, <1>3 DEF Data, Buffer, TypeOK
<1>7. Requests[c] # Disk!NoRequest /\ Requests[c].op = "written"
  BY <1>2 DEF Requests, Disk!NoRequest
<1> QED
  BY <1>1, <1>5, <1>6, <1>7 DEF Disk!Return, Requests, Data, Buffer

(* A new call is a new request. *)
LEMMA CallRefines ==
  ASSUME Serial, IInv, NEW c \in Callers, NEW op \in Ops, NEW lba \in Sectors,
         NEW b \in Buffers, NEW m \in BOOLEAN, Begin(c, op, lba, b, m)
  PROVE  Disk!Call(c, op, lba, b)
<1> USE CallerType DEF IInv
<1>1. /\ \A d \in Callers : pc[d] = "idle"
      /\ pc' = [pc EXCEPT ![c] = "control"]
      /\ call' = [call EXCEPT ![c] = [op |-> op, lba |-> lba, masked |-> m]]
      /\ buf' = [buf EXCEPT ![c] = b]
      /\ medium' = medium
  BY DEF Begin, Goto, drive
<1>2. /\ Request(c) = Disk!NoRequest
      /\ Request(c)' = [op |-> op, lba |-> lba]
      /\ Buffer(c)' = IF op = "read" THEN Unread ELSE b
  BY <1>1 DEF Request, Written, Buffer, TypeOK, Disk!NoRequest
<1>3. \A d \in Callers \ {c} : Request(d)' = Request(d) /\ Buffer(d)' = Buffer(d)
  BY <1>1 DEF Request, Buffer, TypeOK
<1>4. Requests' = [Requests EXCEPT ![c] = [op |-> op, lba |-> lba]]
  BY <1>2, <1>3 DEF Requests
<1>5. Data' = [Data EXCEPT ![c] = IF op = "read" THEN Unread ELSE b]
  BY <1>2, <1>3 DEF Data
<1>6. Requests[c] = Disk!NoRequest
  BY <1>2 DEF Requests
<1> QED
  BY <1>1, <1>4, <1>5, <1>6 DEF Disk!Call, Requests, Data, Buffer

(* Every other step of a caller is invisible. *)
LEMMA StepRefines ==
  ASSUME IInv, IInv', NEW c \in Callers, Step(c)
  PROVE  Disk!Next \/ UNCHANGED <<medium, Requests, Data>>
<1> USE CallerType DEF IInv
<1>1. \A d \in Callers \ {c} : pc[d] = "idle" /\ pc'[d] = "idle"
  BY StepAlone
<1>2. ASSUME UNCHANGED <<call, buf, medium>>, pc[c] # "idle", pc'[c] # "idle",
             Carried(pc'[c], phase') <=> Carried(pc[c], phase)
      PROVE  UNCHANGED <<medium, Requests, Data>>
  <2>1. \A d \in Callers :
          /\ pc[d] = "idle" <=> pc'[d] = "idle"
          /\ pc[d] # "idle" =>
               (Carried(pc'[d], phase') <=> Carried(pc[d], phase))
          /\ buf'[d] = buf[d] \/ (pc[d] # "idle" /\ call[d].op = "read")
    BY <1>1, <1>2
  <2> QED
    BY <1>2, <2>1, Stutter
<1>3. CASE \/ Control(c) \/ WaitReady(c) \/ Select(c) \/ ClearFired(c)
           \/ Command(c) \/ TestFired(c) \/ Halt(c) \/ Consume(c) \/ WaitDrq(c)
  <2>1. UNCHANGED <<call, buf, medium>> /\ pc[c] # "idle" /\ pc'[c] # "idle"
    BY <1>3 DEF Control, WaitReady, Select, ClearFired, Command, TestFired, Halt,
       Consume, WaitDrq, At, Goto, drive, TypeOK
  <2>2. ~Carried(pc[c], phase) /\ ~Carried(pc'[c], phase')
    BY <1>3 DEF Control, WaitReady, Select, ClearFired, Command, TestFired, Halt,
       Consume, WaitDrq, At, Goto, Carried, TypeOK
  <2> QED
    BY <1>2, <2>1, <2>2
<1>4. CASE InWord(c)
  <2>1. CASE idx[c] = Words
    BY <1>4, <2>1, ReadRefines DEF Disk!Next
  <2>2. CASE idx[c] # Words
    <3>1. UNCHANGED <<call, medium>> /\ pc' = pc /\ pc[c] = "in"
          /\ call[c].op = "read"
      BY <1>4, <2>2 DEF InWord, MoveWord, At, Reading_OK, Reading, Waiting
    <3>2. \A d \in Callers \ {c} : buf'[d] = buf[d]
      BY <1>4 DEF InWord, TypeOK
    <3>3. ~Carried(pc[c], phase) /\ ~Carried(pc'[c], phase')
      BY <3>1 DEF Carried
    <3> QED
      BY <1>1, <3>1, <3>2, <3>3, Stutter
  <2> QED
    BY <2>1, <2>2
<1>5. CASE OutWord(c)
  <2>1. /\ UNCHANGED <<call, buf, medium>> /\ pc[c] = "out"
        /\ phase = "data_out" /\ pos = idx[c]
        /\ pc'[c] = IF idx[c] = Words THEN "flush" ELSE "out"
        /\ phase' = IF pos = Words THEN "writing" ELSE phase
    BY <1>5 DEF OutWord, MoveWord, DriveMoves, At, Goto, TypeOK, Writing_OK
  <2>2. ~Carried(pc[c], phase) /\ ~Carried(pc'[c], phase')
    BY <2>1 DEF Carried
  <2>3. pc[c] # "idle" /\ pc'[c] # "idle"
    BY <2>1
  <2> QED
    BY <1>2, <2>1, <2>2, <2>3
<1>6. CASE Flush(c)
  <2>1. /\ UNCHANGED <<call, buf, medium>>
        /\ pc[c] = "flush" /\ pc'[c] = "settle" /\ phase \in {"writing", "idle"}
        /\ phase' = IF phase = "writing" THEN phase ELSE "flushing"
    BY <1>6 DEF Flush, At, Goto, Busy, TypeOK, Writing_OK
  <2> QED
    BY <1>2, <2>1 DEF Carried
<1>7. CASE Settle(c)
  BY <1>7, ReturnRefines DEF Disk!Next
<1> QED
  BY <1>3, <1>4, <1>5, <1>6, <1>7 DEF Step

LEMMA NextRefines ==
  ASSUME Serial, IInv, IInv', [Next]_vars
  PROVE  Disk!Next \/ UNCHANGED <<medium, Requests, Data>>
<1> USE CallerType DEF IInv
<1>1. CASE UNCHANGED vars
  BY <1>1, Stutter DEF vars
<1>2. CASE IdeHandler \/ Tick
  <2>1. UNCHANGED <<call, buf, medium, phase>>
        /\ \A c \in Callers : pc'[c] = IF pc[c] = "halted" THEN "test" ELSE pc[c]
    BY <1>2 DEF IdeHandler, Tick, Wake, drive
  <2> QED
    BY <2>1, Stutter DEF Carried
<1>3. CASE DriveRead \/ DrivePrepare \/ DriveFlush
  <2>1. /\ UNCHANGED <<pc, call, buf, medium>>
        /\ phase # "writing" /\ phase' # "writing"
    BY <1>3 DEF DriveRead, DrivePrepare, DriveFlush, host
  <2> QED
    BY <2>1, Stutter DEF Carried
<1>4. CASE DriveWrite
  BY <1>4, WriteRefines DEF Disk!Next
<1>5. ASSUME NEW c \in Callers, NEW op \in Ops, NEW lba \in Sectors,
             NEW b \in Buffers, NEW m \in BOOLEAN, Begin(c, op, lba, b, m)
      PROVE  Disk!Next
  <2>1. Disk!Call(c, op, lba, b)
    BY <1>5, CallRefines
  <2>2. b \in Contents /\ op \in {"read", "write"}
    BY ConstantsAssumption DEF Ops
  <2> QED
    BY <2>1, <2>2 DEF Disk!Next
<1>6. CASE \E c \in Callers : Step(c)
  BY <1>6, StepRefines
<1> QED
  BY <1>1, <1>2, <1>3, <1>4, <1>5, <1>6 DEF Next, Drive

(* With one call at a time the driver is an atomic disk: a read returns its *)
(* own sector's content and a write changes its own sector once, before it  *)
(* returns (ide.c:19-62).                                                   *)
THEOREM ImplementsHolds ==
  ASSUME Serial
  PROVE  Spec => Implements
<1>1. Init => Disk!Init
  BY InitRefines
<1>2. IInv /\ IInv' /\ [Next]_vars => [Disk!Next]_Disk!vars
  BY NextRefines DEF Disk!vars, Requests, Data, Buffer
<1> QED
  BY <1>1, <1>2, Invariant, PTL DEF Spec, Implements, Disk!Spec

=============================================================================
