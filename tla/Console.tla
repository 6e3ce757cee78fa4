------------------------------ MODULE Console -------------------------------
(***************************************************************************)
(* The terminal, its keyboard, the mouse and the clock together, in the    *)
(* order in which start_kernel (init/init.c) brings them up: time_init and *)
(* then irq_init with interrupts masked, then a task that prints and is    *)
(* interrupted by the keyboard, whose handler prints as well.              *)
(***************************************************************************)
EXTENDS Terminal, Input, Clock

(* keyboard_handler prints what a key stands for, and nothing for a byte    *)
(* that is no key's; ESC lists the tasks, a line each.                      *)
Meaning(b) ==
  CASE b = "enter" -> "newline"
    [] b = "tab" -> "tab"
    [] b = "backspace" -> "backspace"
    [] b = "letter" -> "glyph"
    [] OTHER -> "nothing"

Echo(b) ==
  LET xy == IF b = "esc" THEN PutChar(PutChar(Cursor, "glyph"), "newline")
            ELSE IF Meaning(b) \in Glyphs THEN PutChar(Cursor, Meaning(b))
            ELSE Cursor
  IN  term_x' = xy[1] /\ term_y' = xy[2]

terminalVars == <<term_x, term_y, putting>>
inputVars == <<init, buffer, last, answers, keyboard, mouse, enabled, irq, packet>>
vars == <<terminalVars, inputVars, clockVars>>

Init == TerminalInit /\ InputInit /\ ClockInit

Boot ==
  \/ time_init /\ UNCHANGED <<terminalVars, inputVars>>
  \/ reading = Done /\ IrqInit /\ UNCHANGED <<terminalVars, clockVars>>

(* keyboard_handler prints while a task may be inside putchar. *)
KeyboardIrq ==
  /\ keyboard_handler
  /\ Echo(In)
  /\ UNCHANGED <<putting, clockVars>>

MouseIrq == mouse_handler /\ UNCHANGED <<terminalVars, clockVars>>

Task(p) ==
  /\ init = "done"
  /\ PutCharStep(p)
  /\ UNCHANGED <<inputVars, clockVars>>

Controller == Send /\ UNCHANGED <<terminalVars, clockVars>>
User ==
  /\ Move \/ \E k \in Keys : Press(k)
  /\ UNCHANGED <<terminalVars, clockVars>>

Next ==
  \/ Boot \/ KeyboardIrq \/ MouseIrq \/ Controller \/ User
  \/ Second /\ UNCHANGED <<terminalVars, inputVars>>
  \/ \E p \in Printers : Task(p)

(* The processor executes what it can, and the controller hands on what the *)
(* devices send.                                                            *)
Fairness ==
  /\ WF_vars(Boot) /\ WF_vars(KeyboardIrq) /\ WF_vars(MouseIrq)
  /\ WF_vars(Controller)

Spec == Init /\ [][Next]_vars
FairSpec == Spec /\ Fairness

-----------------------------------------------------------------------------
(* A byte in the output buffer is read, else neither keyboard nor mouse     *)
(* would ever be heard again: its interrupt is neither lost nor masked,     *)
(* and each handler takes the bytes of its own device (traps.c:93-101,      *)
(* 130-135).                                                                *)
InputServed == buffer # Empty ~> buffer = Empty

=============================================================================
