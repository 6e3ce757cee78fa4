------------------------------ MODULE Terminal ------------------------------
(***************************************************************************)
(* The text terminal (kernel/printk.c): putchar and scroll, run by tasks   *)
(* with interrupts enabled and by the keyboard interrupt in between.       *)
(*                                                                         *)
(* The kernel is built without optimisation: an update of term_x or term_y *)
(* is a load and a store, and a task can be interrupted between the two.   *)
(* A step is one access to these two variables; the pixels drawn on the    *)
(* way are left out (put_pixel drops what lies outside the screen).        *)
(* The interrupt runs putchar whole, with interrupts masked.               *)
(***************************************************************************)
EXTENDS Naturals

CONSTANTS
  Printers,      (* tasks that print                                       *)
  Characters,    (* what they print: no task of the kernel prints '\b'      *)
  Width, Height, (* of the frame buffer: fb.width, fb.height               *)
  CharSize,      (* height of a glyph, which is 8 pixels wide              *)
  Word           (* 2^32: term_x and term_y are uint32_t                   *)

Glyphs == {"glyph", "newline", "return", "tab", "backspace"}

ASSUME TerminalAssumption ==
  /\ Width \in Nat /\ Height \in Nat /\ CharSize \in Nat \ {0}
  /\ Word \in Nat /\ Width + 64 < Word /\ Height + 2 * CharSize < Word
  /\ Width >= 8 /\ Height >= 3 * CharSize
  /\ Characters \subseteq Glyphs \ {"backspace"}

VARIABLES
  term_x, term_y,
  putting          (* each task's place in putchar and its register          *)

Add(a, b) == (a + b) % Word
Sub(a, b) == (a + Word - b) % Word

TerminalInit ==
  /\ term_x = 0 /\ term_y = 0
  /\ putting = [p \in Printers |-> [pc |-> "rest", reg |-> 0]]

Cursor == <<term_x, term_y>>

-----------------------------------------------------------------------------
(* putchar as a whole, on a cursor <<x, y>>, as an interrupt calls it *)

Moved(xy, c) ==
  CASE c = "glyph" -> <<Add(xy[1], 8), xy[2]>>
    [] c = "newline" -> <<0, Add(xy[2], CharSize)>>
    [] c = "return" -> <<0, xy[2]>>
    [] c = "tab" -> <<Add(xy[1], 32), xy[2]>>
    [] c = "backspace" -> <<IF xy[1] >= 8 THEN xy[1] - 8 ELSE xy[1], xy[2]>>

WrappedLate(xy) == \* mutant: the width of the next glyph is forgotten
  IF xy[1] > Width THEN <<0, Add(xy[2], CharSize)>> ELSE xy

Wrapped(xy) ==
  IF Add(xy[1], 8) > Width THEN <<0, Add(xy[2], CharSize)>> ELSE xy

Scrolled(xy) ==
  IF Add(xy[2], CharSize) > Height THEN <<xy[1], Sub(xy[2], CharSize)>> ELSE xy

PutChar(xy, c) == Scrolled(Wrapped(Moved(xy, c)))

-----------------------------------------------------------------------------
(* putchar in a task *)

Go(p, pc) == putting' = [putting EXCEPT ![p].pc = pc]
Load(p, v, pc) == putting' = [putting EXCEPT ![p] = [pc |-> pc, reg |-> v]]

InPutChar(p, pc) == putting[p].pc = pc

(* The register keeps no value from one update to the next. *)
StoreX(p, v, pc) == term_x' = v /\ Load(p, 0, pc) /\ UNCHANGED term_y
StoreY(p, v, pc) == term_y' = v /\ Load(p, 0, pc) /\ UNCHANGED term_x

First(p) ==
  /\ InPutChar(p, "rest")
  /\ \E c \in Characters :
       \/ /\ c = "glyph"
          /\ Load(p, term_x, "advance") /\ UNCHANGED Cursor
       \/ /\ c = "tab"
          /\ Load(p, term_x, "tab") /\ UNCHANGED Cursor
       \/ /\ c = "newline"
          /\ StoreX(p, 0, "line")
       \/ /\ c = "return"
          /\ StoreX(p, 0, "wrap?")

MoveX(p) ==
  \/ InPutChar(p, "advance") /\ StoreX(p, Add(putting[p].reg, 8), "wrap?")
  \/ InPutChar(p, "tab") /\ StoreX(p, Add(putting[p].reg, 32), "wrap?")

NewLine(p) ==
  \/ InPutChar(p, "line") /\ Load(p, term_y, "feed") /\ UNCHANGED Cursor
  \/ InPutChar(p, "feed") /\ StoreY(p, Add(putting[p].reg, CharSize), "wrap?")

Wrap(p) ==
  \/ /\ InPutChar(p, "wrap?")
     /\ Go(p, IF Add(term_x, 8) > Width THEN "wrap" ELSE "scroll?")
     /\ UNCHANGED Cursor
  \/ InPutChar(p, "wrap") /\ StoreX(p, 0, "wrap line")
  \/ InPutChar(p, "wrap line") /\ Load(p, term_y, "wrap feed") /\ UNCHANGED Cursor
  \/ InPutChar(p, "wrap feed") /\ StoreY(p, Add(putting[p].reg, CharSize), "scroll?")

(* scroll moves the picture first and the cursor last. *)
Scroll(p) ==
  \/ /\ InPutChar(p, "scroll?")
     /\ Go(p, IF Add(term_y, CharSize) > Height THEN "scroll" ELSE "rest")
     /\ UNCHANGED Cursor
  \/ InPutChar(p, "scroll") /\ Load(p, term_y, "scrolled") /\ UNCHANGED Cursor
  \/ InPutChar(p, "scrolled") /\ StoreY(p, Sub(putting[p].reg, CharSize), "rest")

PutCharStep(p) == First(p) \/ MoveX(p) \/ NewLine(p) \/ Wrap(p) \/ Scroll(p)

-----------------------------------------------------------------------------
(* Between two characters the next glyph fits on the screen.  One task that *)
(* prints glyphs and line ends and any number of keyboard interrupts cannot *)
(* undo each other's updates so that the cursor leaves it, although the     *)
(* tests and the scrolling of both are interleaved (printk.c:29-68).        *)
CursorOnScreen ==
  (\A p \in Printers : putting[p].pc = "rest") =>
    term_x + 8 <= Width /\ term_y + CharSize <= Height

=============================================================================
