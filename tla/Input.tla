------------------------------- MODULE Input --------------------------------
(***************************************************************************)
(* Keyboard and mouse: irq_init, keyboard_handler and mouse_handler of     *)
(* kernel/IRQ/traps.c, keyboard_transform of kernel/IRQ/scancode.c, and    *)
(* the keyboard controller they share (external).                          *)
(*                                                                         *)
(* The controller has one output buffer, port 0x60, for its own answers,   *)
(* the keyboard and the mouse.  A byte that enters it raises IRQ 1 or, if  *)
(* it is the mouse's, IRQ 12; the PIC remembers the edge.  An empty buffer *)
(* reads as the byte read last.                                            *)
(***************************************************************************)
EXTENDS Naturals, Sequences

CONSTANTS
  Keys,        (* what the keyboard sends: one byte for each press         *)
  MaxQueue,    (* bytes a device holds back before it drops new ones       *)
  HandsOff     (* TRUE: nobody touches them before traps_init is over      *)

ASSUME InputAssumption == HandsOff \in BOOLEAN /\ MaxQueue \in Nat

(* A byte is a key, "config", "led ack", or the mouse's: "ack", and packets *)
(* of a byte of flags and two of movement.                                  *)
FromMouse(b) == b \in {"ack", "flags", "move"}
Empty == "empty"

VARIABLES
  init,        (* how far irq_init has come                                *)
  buffer,      (* the output buffer                                        *)
  last,        (* the byte read last                                       *)
  answers,     (* the controller's answers                                 *)
  keyboard,    (* bytes the keyboard has to send                           *)
  mouse,       (* bytes the mouse has to send                              *)
  enabled,     (* devices whose bytes raise their interrupt                *)
  irq,         (* interrupts the PIC remembers: 1, 12                      *)
  packet       (* mouse_packet[0 .. mouse_cycle - 1]                       *)

devices == <<buffer, answers, keyboard, mouse, enabled, irq>>

InputInit ==
  /\ init = "start"
  /\ buffer = Empty /\ last = Empty
  /\ answers = <<>> /\ keyboard = <<>> /\ mouse = <<>>
  /\ enabled = {"keyboard"} /\ irq = {}
  /\ packet = <<>>

-----------------------------------------------------------------------------
(* The devices *)

Touchable == HandsOff => init = "done"

(* A key is pressed. *)
Press(k) ==
  /\ Touchable /\ Len(keyboard) < MaxQueue
  /\ keyboard' = Append(keyboard, k)
  /\ UNCHANGED <<init, buffer, last, answers, mouse, enabled, irq, packet>>

(* The mouse is moved: a packet of three bytes, once it was told to report. *)
Move ==
  /\ init \in {"ack", "unmask", "sti", "done"}
  /\ Touchable /\ Len(mouse) < MaxQueue
  /\ mouse' = mouse \o <<"flags", "move", "move">>
  /\ UNCHANGED <<init, buffer, last, answers, keyboard, enabled, irq, packet>>

(* The next byte enters the output buffer. *)
Line(device) == IF device = "mouse" THEN 12 ELSE 1

Send ==
  /\ buffer = Empty
  /\ \/ /\ answers # <<>>
        /\ buffer' = Head(answers) /\ answers' = Tail(answers)
        /\ UNCHANGED <<keyboard, mouse>>
     \/ /\ answers = <<>> /\ keyboard # <<>>
        /\ buffer' = Head(keyboard) /\ keyboard' = Tail(keyboard)
        /\ UNCHANGED <<answers, mouse>>
     \/ /\ answers = <<>> /\ mouse # <<>>
        /\ buffer' = Head(mouse) /\ mouse' = Tail(mouse)
        /\ UNCHANGED <<answers, keyboard>>
  /\ LET device == IF FromMouse(buffer') THEN "mouse" ELSE "keyboard"
     IN  irq' = IF device \in enabled THEN irq \cup {Line(device)} ELSE irq
  /\ UNCHANGED <<init, last, enabled, packet>>

(* inb(0x60) *)
In == IF buffer = Empty THEN last ELSE buffer
Taken == last' = In /\ buffer' = Empty

-----------------------------------------------------------------------------
(* irq_init, with interrupts masked *)

(* pic_remap forgets what was pending and unmasks all; then the controller  *)
(* is asked for its configuration.                                          *)
AskConfig ==
  /\ init = "start"
  /\ irq' = {}
  /\ answers' = Append(answers, "config")
  /\ init' = "config"
  /\ UNCHANGED <<buffer, last, keyboard, mouse, enabled, packet>>

WriteConfigAfresh == \* mutant: 2 is written, not the configuration with 2
  /\ init = "config"
  /\ buffer # Empty
  /\ Taken
  /\ enabled' = {"mouse"}
  /\ init' = "mouse"
  /\ UNCHANGED <<answers, keyboard, mouse, irq, packet>>

(* The byte that is there is taken for the configuration; with bit 1 set it *)
(* is written back, so that the mouse's bytes raise interrupts.  Bit 0 of   *)
(* a byte that is no configuration may be anything.                         *)
WriteConfig ==
  /\ init = "config"
  /\ buffer # Empty
  /\ Taken
  /\ enabled' \in IF In = "config" THEN {enabled \cup {"mouse"}}
                  ELSE {{"mouse"}, {"keyboard", "mouse"}}
  /\ init' = "mouse"
  /\ UNCHANGED <<answers, keyboard, mouse, irq, packet>>

(* The mouse is told to report, and acknowledges. *)
StartMouse ==
  /\ init = "mouse"
  /\ mouse' = Append(mouse, "ack")
  /\ init' = "ack"
  /\ UNCHANGED <<buffer, last, answers, keyboard, enabled, irq, packet>>

(* The byte that is there is taken for the acknowledgement. *)
ReadAck ==
  /\ init = "ack"
  /\ buffer # Empty
  /\ Taken
  /\ init' = "unmask"
  /\ UNCHANGED <<answers, keyboard, mouse, enabled, irq, packet>>

(* traps_init ends with sti, and returns when the interrupts that irq_init  *)
(* left pending have been taken: they come before the next instruction.     *)
Sti ==
  /\ \/ init = "unmask" /\ init' = "sti"
     \/ init = "sti" /\ irq = {} /\ init' = "done"
  /\ UNCHANGED <<devices, last, packet>>

IrqInit == AskConfig \/ WriteConfig \/ StartMouse \/ ReadAck \/ Sti
Unmasked == init \in {"sti", "done"}

-----------------------------------------------------------------------------
(* The interrupt handlers: with interrupts masked, so each is one step *)

(* CapsLock sets the lights: a command and its argument, and the keyboard   *)
(* acknowledges both.                                                       *)
LightsReplies(b) == IF b = "capslock" THEN <<"led ack", "led ack">> ELSE <<>>

keyboard_handler ==
  /\ Unmasked /\ 1 \in irq
  /\ irq' = irq \ {1}
  /\ Taken
  /\ keyboard' = keyboard \o LightsReplies(In)
  /\ UNCHANGED <<init, answers, mouse, enabled, packet>>

mouse_handler_unasked == \* mutant: the status is not looked at
  /\ Unmasked /\ 12 \in irq /\ 1 \notin irq
  /\ irq' = irq \ {12}
  /\ Taken
  /\ packet' = IF Len(packet) = 2 THEN <<>> ELSE Append(packet, In)
  /\ UNCHANGED <<init, answers, keyboard, mouse, enabled>>

(* The byte is the mouse's only if bit 5 of the status says so.  A packet   *)
(* is used when it has three bytes, or dropped if bit 3 of the first one is *)
(* clear: either way the next byte is taken for the first of a packet.      *)
mouse_handler ==
  /\ Unmasked /\ 12 \in irq /\ 1 \notin irq
  /\ irq' = irq \ {12}
  /\ IF buffer # Empty /\ FromMouse(buffer)
       THEN /\ Taken
            /\ packet' = IF Len(packet) = 2 THEN <<>> ELSE Append(packet, buffer)
       ELSE UNCHANGED <<buffer, last, packet>>
  /\ UNCHANGED <<init, answers, keyboard, mouse, enabled>>

-----------------------------------------------------------------------------
(* The bytes in mouse_packet are the first ones of one packet: the handler  *)
(* counts bytes, and a packet it has begun in the middle would shift every  *)
(* later one, for it drops whole packets only (traps.c:134-136).            *)
PacketsAligned ==
  \A i \in DOMAIN packet : packet[i] = "flags" <=> i = 1

=============================================================================
