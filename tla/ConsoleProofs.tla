---------------------------- MODULE ConsoleProofs ----------------------------
(***************************************************************************)
(* Proofs about the terminal: one task prints, the keyboard interrupts it, *)
(* on a screen of any size and with glyphs of any height.                  *)
(***************************************************************************)
EXTENDS Console, TLAPS, SequenceTheorems

FitsX(x) == x + 8 <= Width
FitsY(y) == y + CharSize <= Height

Places == {"rest", "advance", "tab", "line", "feed", "wrap?", "wrap", "wrap line",
           "wrap feed", "scroll?", "scroll", "scrolled"}

(* What the cursor and the register are at each place of putchar.  A test   *)
(* may be stale when it is acted on, but never so that the cursor is lost.  *)
AtPlace(at, reg, x, y) ==
  /\ at \in Places /\ reg \in Nat /\ x \in Nat /\ y \in Nat
  /\ x <= Width + 24 /\ y <= Height
  /\ FitsX(x) \/ FitsY(y)
  /\ at \notin {"wrap?", "wrap"} => FitsX(x)
  /\ at \notin {"wrap?", "scroll?", "scroll", "scrolled"} => FitsY(y)
  /\ at \in {"advance", "tab"} => FitsX(reg)
  /\ at \in {"feed", "wrap feed"} => FitsY(reg)
  /\ at = "scroll" => y + 2 * CharSize > Height
  /\ at = "scrolled" => reg <= Height /\ reg + 2 * CharSize > Height

CursorInv(p) == AtPlace(putting[p].pc, putting[p].reg, term_x, term_y)

OnePrinter(p) == /\ Printers = {p}
                 /\ putting \in [Printers -> [pc : Places, reg : Nat]]
                 /\ CursorInv(p)

-----------------------------------------------------------------------------
LEMMA Small == \A n \in Nat : n < Word => n % Word = n
  BY TerminalAssumption

LEMMA AddSmall == ASSUME NEW a \in Nat, NEW b \in Nat, a + b < Word
                  PROVE  Add(a, b) = a + b
  BY Small DEF Add

LEMMA SubSmall == ASSUME NEW a \in Nat, NEW b \in Nat, b <= a, a < Word
                  PROVE  Sub(a, b) = a - b
  BY TerminalAssumption DEF Sub

(* A whole putchar moves a cursor that fits by x or by y to one that fits   *)
(* wherever it did before, and never far up.                                *)
LEMMA PutCharKeeps ==
  ASSUME NEW at, NEW reg, NEW x, NEW y, NEW c \in Glyphs,
         AtPlace(at, reg, x, y)
  PROVE  LET xy == PutChar(<<x, y>>, c)
         IN  xy = <<xy[1], xy[2]>> /\ AtPlace(at, reg, xy[1], xy[2])
<1> USE TerminalAssumption DEF FitsX, FitsY
<1> DEFINE mx == CASE c = "glyph" -> x + 8
                   [] c = "newline" -> 0
                   [] c = "return" -> 0
                   [] c = "tab" -> x + 32
                   [] c = "backspace" -> IF x >= 8 THEN x - 8 ELSE x
           my == IF c = "newline" THEN y + CharSize ELSE y
           wx == IF mx + 8 > Width THEN 0 ELSE mx
           wy == IF mx + 8 > Width THEN my + CharSize ELSE my
           sy == IF wy + CharSize > Height THEN wy - CharSize ELSE wy
<1>0. /\ x \in Nat /\ y \in Nat /\ x <= Width + 24 /\ y <= Height
      /\ FitsX(x) \/ FitsY(y)
  BY DEF AtPlace
<1>1. /\ mx \in Nat /\ mx <= Width + 56
      /\ my = y \/ (my = y + CharSize /\ mx = 0)
      /\ Moved(<<x, y>>, c) = <<mx, my>>
  <2>1. CASE c = "glyph"
    BY <2>1, <1>0, AddSmall DEF Moved
  <2>2. CASE c = "newline"
    <3>1. y + CharSize < Word
      BY <1>0
    <3> QED
      BY <2>2, <3>1, <1>0, AddSmall DEF Moved
  <2>3. CASE c = "return"
    BY <2>3, <1>0 DEF Moved
  <2>4. CASE c = "tab"
    BY <2>4, <1>0, AddSmall DEF Moved
  <2>5. CASE c = "backspace"
    BY <2>5, <1>0 DEF Moved
  <2> QED
    BY <2>1, <2>2, <2>3, <2>4, <2>5 DEF Glyphs
<1> HIDE DEF mx, my
<1>2. /\ wx \in Nat /\ wx + 8 <= Width
      /\ Wrapped(<<mx, my>>) = <<wx, wy>>
      /\ wy \in Nat /\ y <= wy /\ wy <= Height + CharSize
      /\ FitsY(y) => wy <= Height
  <2>1. my \in Nat /\ my + CharSize < Word
    BY <1>0, <1>1
  <2>2. Add(mx, 8) = mx + 8 /\ Add(my, CharSize) = my + CharSize
    BY <1>1, <2>1, AddSmall
  <2>3. Wrapped(<<mx, my>>) = <<wx, wy>>
    BY <2>2 DEF Wrapped
  <2> QED
    BY <1>0, <1>1, <2>1, <2>3
<1> HIDE DEF wx, wy
<1>3. /\ Scrolled(<<wx, wy>>) = <<wx, sy>>
      /\ sy \in Nat /\ sy <= Height
      /\ FitsY(y) => FitsY(sy)
      /\ y + 2 * CharSize > Height => sy + 2 * CharSize > Height
  <2>1. wy + CharSize < Word
    BY <1>2
  <2>2. Add(wy, CharSize) = wy + CharSize
    BY <1>2, <2>1, AddSmall
  <2>3. CASE wy + CharSize > Height
    <3>1. Sub(wy, CharSize) = wy - CharSize
      BY <1>2, <2>1, <2>3, SubSmall
    <3>2. Scrolled(<<wx, wy>>) = <<wx, sy>> /\ sy = wy - CharSize
      BY <2>2, <2>3, <3>1 DEF Scrolled
    <3> QED
      BY <1>0, <1>2, <2>3, <3>2
  <2>4. CASE ~(wy + CharSize > Height)
    <3>1. Scrolled(<<wx, wy>>) = <<wx, sy>> /\ sy = wy
      BY <2>2, <2>4 DEF Scrolled
    <3> QED
      BY <1>0, <1>2, <2>4, <3>1
  <2> QED
    BY <2>3, <2>4
<1> HIDE DEF sy
<1>4. PutChar(<<x, y>>, c) = <<wx, sy>>
  BY <1>1, <1>2, <1>3 DEF PutChar
<1>5. AtPlace(at, reg, wx, sy)
  <2>1. wx <= Width + 24 /\ FitsX(wx)
    BY <1>2
  <2> HIDE DEF FitsX, FitsY
  <2> QED
    BY <2>1, <1>2, <1>3 DEF AtPlace
<1> QED
  BY <1>4, <1>5

-----------------------------------------------------------------------------
(* The keyboard interrupt: whatever it prints, the task finds a cursor that *)
(* suits its own place.                                                     *)
LEMMA EchoKeeps ==
  ASSUME NEW p, OnePrinter(p), NEW b, Echo(b), UNCHANGED putting
  PROVE  OnePrinter(p)'
<1> DEFINE at == putting[p].pc
           reg == putting[p].reg
           Good(xy) == xy = <<xy[1], xy[2]>> /\ AtPlace(at, reg, xy[1], xy[2])
<1>1. Good(Cursor)
  BY DEF Cursor, OnePrinter, CursorInv
<1>2. ASSUME NEW xy, Good(xy), NEW c \in Glyphs PROVE Good(PutChar(xy, c))
  <2>1. xy = <<xy[1], xy[2]>> /\ AtPlace(at, reg, xy[1], xy[2])
    BY <1>2
  <2> HIDE DEF at, reg
  <2>2. Good(PutChar(<<xy[1], xy[2]>>, c))
    BY <2>1, PutCharKeeps
  <2> QED
    BY <2>1, <2>2
<1> HIDE DEF Good
<1>3. "glyph" \in Glyphs /\ "newline" \in Glyphs
  BY DEF Glyphs
<1>4. PICK xy : Good(xy) /\ term_x' = xy[1] /\ term_y' = xy[2]
  <2>1. CASE b = "esc"
    BY <2>1, <1>1, <1>2, <1>3 DEF Echo
  <2>2. CASE b # "esc" /\ Meaning(b) \in Glyphs
    BY <2>2, <1>1, <1>2 DEF Echo
  <2>3. CASE b # "esc" /\ Meaning(b) \notin Glyphs
    BY <2>3, <1>1 DEF Echo
  <2> QED
    BY <2>1, <2>2, <2>3
<1>5. AtPlace(at, reg, term_x', term_y')
  BY <1>4 DEF Good
<1> QED
  BY <1>5 DEF OnePrinter, CursorInv, AtPlace, FitsX, FitsY

-----------------------------------------------------------------------------
(* The task *)

Writes(p, at, reg, x, y) ==
  /\ putting' = [putting EXCEPT ![p] = [pc |-> at, reg |-> reg]]
  /\ term_x' = x /\ term_y' = y

LEMMA WritesKeeps ==
  ASSUME NEW p, OnePrinter(p), NEW at, NEW reg, NEW x, NEW y,
         Writes(p, at, reg, x, y), AtPlace(at, reg, x, y)
  PROVE  OnePrinter(p)'
<1>1. at \in Places /\ reg \in Nat
  BY DEF AtPlace
<1>2. /\ putting' \in [Printers -> [pc : Places, reg : Nat]]
      /\ putting'[p].pc = at /\ putting'[p].reg = reg
  BY <1>1 DEF Writes, OnePrinter
<1> QED
  BY <1>2 DEF Writes, OnePrinter, CursorInv, AtPlace, FitsX, FitsY

LEMMA GoWrites ==
  ASSUME NEW p, OnePrinter(p), NEW at, Go(p, at), UNCHANGED Cursor
  PROVE  Writes(p, at, putting[p].reg, term_x, term_y)
<1>1. putting[p] = [pc |-> putting[p].pc, reg |-> putting[p].reg] /\ p \in Printers
  BY DEF OnePrinter
<1>2. [putting[p] EXCEPT !.pc = at] = [pc |-> at, reg |-> putting[p].reg]
  BY <1>1
<1>3. putting' = [putting EXCEPT ![p] = [putting[p] EXCEPT !.pc = at]]
  BY DEF Go
<1> QED
  BY <1>2, <1>3 DEF Writes, Cursor

(* Each step of putchar takes the task from one place to the next. *)
LEMMA FirstKeeps ==
  ASSUME NEW p, OnePrinter(p), First(p)
  PROVE  OnePrinter(p)'
<1> USE TerminalAssumption DEF FitsX, FitsY, AtPlace, Places
<1>1. InPutChar(p, "rest") /\ CursorInv(p)
  BY DEF First, OnePrinter
<1>2. /\ term_x \in Nat /\ term_y \in Nat
      /\ FitsX(term_x) /\ FitsY(term_y)
  BY <1>1 DEF InPutChar, CursorInv
<1>3. /\ AtPlace("advance", term_x, term_x, term_y)
      /\ AtPlace("tab", term_x, term_x, term_y)
      /\ AtPlace("line", 0, 0, term_y)
      /\ AtPlace("wrap?", 0, 0, term_y)
  BY <1>2
<1>4. \/ Writes(p, "advance", term_x, term_x, term_y)
      \/ Writes(p, "tab", term_x, term_x, term_y)
      \/ Writes(p, "line", 0, 0, term_y)
      \/ Writes(p, "wrap?", 0, 0, term_y)
  BY DEF First, Load, StoreX, Writes, Cursor
<1> QED
  BY <1>3, <1>4, WritesKeeps

LEMMA MoveXKeeps ==
  ASSUME NEW p, OnePrinter(p), MoveX(p)
  PROVE  OnePrinter(p)'
<1> USE TerminalAssumption DEF FitsX, FitsY
<1> DEFINE reg == putting[p].reg
<1>1. /\ InPutChar(p, "advance") \/ InPutChar(p, "tab")
      /\ CursorInv(p)
  BY DEF MoveX, OnePrinter
<1>2. /\ reg \in Nat /\ FitsX(reg)
      /\ term_y \in Nat /\ FitsY(term_y)
  BY <1>1 DEF InPutChar, CursorInv, AtPlace
<1>3. Add(reg, 8) = reg + 8 /\ Add(reg, 32) = reg + 32
  BY <1>2, AddSmall
<1>4. \E n \in {8, 32} : Writes(p, "wrap?", 0, reg + n, term_y)
  BY <1>3 DEF MoveX, Load, StoreX, Writes
<1> HIDE DEF reg
<1>5. \A n \in {8, 32} : AtPlace("wrap?", 0, reg + n, term_y)
  BY <1>2 DEF AtPlace, Places
<1> QED
  BY <1>4, <1>5, WritesKeeps

LEMMA NewLineKeeps ==
  ASSUME NEW p, OnePrinter(p), NewLine(p)
  PROVE  OnePrinter(p)'
<1> USE TerminalAssumption DEF FitsX, FitsY
<1> DEFINE reg == putting[p].reg
<1>1. /\ InPutChar(p, "line") \/ InPutChar(p, "feed")
      /\ CursorInv(p)
  BY DEF NewLine, OnePrinter
<1>2. /\ reg \in Nat /\ term_x \in Nat /\ term_y \in Nat
      /\ FitsX(term_x) /\ FitsY(term_y)
      /\ InPutChar(p, "feed") => FitsY(reg)
  BY <1>1 DEF InPutChar, CursorInv, AtPlace
<1>3. CASE InPutChar(p, "line")
  <2>1. Writes(p, "feed", term_y, term_x, term_y)
    BY <1>3 DEF NewLine, InPutChar, Load, Writes, Cursor
  <2>2. AtPlace("feed", term_y, term_x, term_y)
    BY <1>2 DEF AtPlace, Places
  <2> QED
    BY <2>1, <2>2, WritesKeeps
<1>4. CASE InPutChar(p, "feed")
  <2>1. Add(reg, CharSize) = reg + CharSize
    BY <1>2, <1>4, AddSmall
  <2>2. Writes(p, "wrap?", 0, term_x, reg + CharSize)
    BY <1>4, <2>1 DEF NewLine, InPutChar, Load, StoreY, Writes
  <2> HIDE DEF reg
  <2>3. AtPlace("wrap?", 0, term_x, reg + CharSize)
    BY <1>2, <1>4 DEF AtPlace, Places
  <2> QED
    BY <2>2, <2>3, WritesKeeps
<1> QED
  BY <1>1, <1>3, <1>4

LEMMA WrapKeeps ==
  ASSUME NEW p, OnePrinter(p), Wrap(p)
  PROVE  OnePrinter(p)'
<1> USE TerminalAssumption DEF FitsX, FitsY
<1> DEFINE reg == putting[p].reg
<1>1. /\ \E at \in {"wrap?", "wrap", "wrap line", "wrap feed"} : InPutChar(p, at)
      /\ CursorInv(p)
  BY DEF Wrap, OnePrinter
<1>0. /\ term_x \in Nat /\ term_x <= Width + 24
  BY <1>1 DEF CursorInv, AtPlace
<1>2. /\ reg \in Nat /\ term_x \in Nat /\ term_y \in Nat
      /\ term_x <= Width + 24 /\ term_y <= Height
      /\ FitsX(term_x) \/ FitsY(term_y)
      /\ ~InPutChar(p, "wrap?") => FitsY(term_y)
      /\ InPutChar(p, "wrap line") \/ InPutChar(p, "wrap feed") => FitsX(term_x)
      /\ InPutChar(p, "wrap feed") => FitsY(reg)
  BY <1>1 DEF InPutChar, CursorInv, AtPlace
<1>3. CASE InPutChar(p, "wrap?")
  <2>0. term_x \in Nat /\ term_x + 8 < Word
    BY <1>0
  <2>1. Add(term_x, 8) = term_x + 8
    BY <2>0, AddSmall
  <2>2. Go(p, IF FitsX(term_x) THEN "scroll?" ELSE "wrap") /\ UNCHANGED Cursor
    BY <1>2, <1>3, <2>1 DEF Wrap, InPutChar
  <2>3. CASE FitsX(term_x)
    <3>1. Writes(p, "scroll?", reg, term_x, term_y)
      BY <2>2, <2>3, GoWrites
    <3>2. AtPlace("scroll?", reg, term_x, term_y)
      BY <1>2, <2>3 DEF AtPlace, Places
    <3> QED
      BY <3>1, <3>2, WritesKeeps
  <2>4. CASE ~FitsX(term_x)
    <3>1. Writes(p, "wrap", reg, term_x, term_y)
      BY <2>2, <2>4, GoWrites
    <3>2. AtPlace("wrap", reg, term_x, term_y)
      BY <1>2, <2>4 DEF AtPlace, Places
    <3> QED
      BY <3>1, <3>2, WritesKeeps
  <2> QED
    BY <2>3, <2>4
<1>4. CASE InPutChar(p, "wrap")
  <2>1. Writes(p, "wrap line", 0, 0, term_y)
    BY <1>4 DEF Wrap, InPutChar, Load, StoreX, Writes
  <2>2. AtPlace("wrap line", 0, 0, term_y)
    BY <1>2, <1>4 DEF AtPlace, Places, InPutChar
  <2> QED
    BY <2>1, <2>2, WritesKeeps
<1>5. CASE InPutChar(p, "wrap line")
  <2>1. Writes(p, "wrap feed", term_y, term_x, term_y)
    BY <1>5 DEF Wrap, InPutChar, Load, Writes, Cursor
  <2>2. AtPlace("wrap feed", term_y, term_x, term_y)
    BY <1>2, <1>5 DEF AtPlace, Places, InPutChar
  <2> QED
    BY <2>1, <2>2, WritesKeeps
<1>6. CASE InPutChar(p, "wrap feed")
  <2>0. /\ reg \in Nat /\ reg + CharSize <= Height /\ FitsX(term_x)
        /\ term_x \in Nat
    BY <1>2, <1>6
  <2>1. Add(reg, CharSize) = reg + CharSize
    <3> HIDE DEF reg
    <3> QED
      BY <2>0, AddSmall
  <2>2. Writes(p, "scroll?", 0, term_x, reg + CharSize)
    BY <1>6, <2>1 DEF Wrap, InPutChar, Load, StoreY, Writes
  <2> HIDE DEF reg
  <2>3. AtPlace("scroll?", 0, term_x, reg + CharSize)
    BY <2>0 DEF AtPlace, Places
  <2> QED
    BY <2>2, <2>3, WritesKeeps
<1> QED
  BY <1>1, <1>3, <1>4, <1>5, <1>6

LEMMA ScrollKeeps ==
  ASSUME NEW p, OnePrinter(p), Scroll(p)
  PROVE  OnePrinter(p)'
<1> USE TerminalAssumption DEF FitsX, FitsY
<1> DEFINE reg == putting[p].reg
<1>1. /\ \E at \in {"scroll?", "scroll", "scrolled"} : InPutChar(p, at)
      /\ CursorInv(p)
  BY DEF Scroll, OnePrinter
<1>2. /\ reg \in Nat /\ term_x \in Nat /\ term_y \in Nat
      /\ FitsX(term_x) /\ term_y <= Height
      /\ InPutChar(p, "scroll") => term_y + 2 * CharSize > Height
      /\ InPutChar(p, "scrolled") => reg <= Height /\ reg + 2 * CharSize > Height
  BY <1>1 DEF InPutChar, CursorInv, AtPlace
<1>3. CASE InPutChar(p, "scroll?")
  <2>1. Add(term_y, CharSize) = term_y + CharSize
    BY <1>2, AddSmall
  <2>2. /\ Go(p, IF FitsY(term_y) THEN "rest" ELSE "scroll")
        /\ UNCHANGED Cursor
    BY <1>2, <1>3, <2>1 DEF Scroll, InPutChar
  <2>3. CASE FitsY(term_y)
    <3>1. Writes(p, "rest", reg, term_x, term_y)
      BY <2>2, <2>3, GoWrites
    <3>2. AtPlace("rest", reg, term_x, term_y)
      BY <1>2, <2>3 DEF AtPlace, Places
    <3> QED
      BY <3>1, <3>2, WritesKeeps
  <2>4. CASE ~FitsY(term_y)
    <3>1. Writes(p, "scroll", reg, term_x, term_y)
      BY <2>2, <2>4, GoWrites
    <3>2. AtPlace("scroll", reg, term_x, term_y)
      BY <1>2, <2>4 DEF AtPlace, Places
    <3> QED
      BY <3>1, <3>2, WritesKeeps
  <2> QED
    BY <2>3, <2>4
<1>4. CASE InPutChar(p, "scroll")
  <2>1. Writes(p, "scrolled", term_y, term_x, term_y)
    BY <1>4 DEF Scroll, InPutChar, Load, Writes, Cursor
  <2>2. AtPlace("scrolled", term_y, term_x, term_y)
    BY <1>2, <1>4 DEF AtPlace, Places
  <2> QED
    BY <2>1, <2>2, WritesKeeps
<1>5. CASE InPutChar(p, "scrolled")
  <2>1. Sub(reg, CharSize) = reg - CharSize
    <3>1. /\ reg \in Nat /\ CharSize \in Nat /\ CharSize <= reg /\ reg < Word
      BY <1>2, <1>5
    <3> HIDE DEF reg
    <3> QED
      BY <3>1, SubSmall
  <2>2. Writes(p, "rest", 0, term_x, reg - CharSize)
    BY <1>5, <2>1 DEF Scroll, InPutChar, Load, StoreY, Writes
  <2> HIDE DEF reg
  <2>3. AtPlace("rest", 0, term_x, reg - CharSize)
    BY <1>2, <1>5 DEF AtPlace, Places
  <2> QED
    BY <2>2, <2>3, WritesKeeps
<1> QED
  BY <1>1, <1>3, <1>4, <1>5

-----------------------------------------------------------------------------
LEMMA NextKeeps ==
  ASSUME NEW p, OnePrinter(p), [Next]_vars
  PROVE  OnePrinter(p)'
<1>1. CASE UNCHANGED terminalVars
  BY <1>1 DEF terminalVars, OnePrinter, CursorInv, AtPlace, FitsX, FitsY
<1>2. CASE KeyboardIrq
  BY <1>2, EchoKeeps DEF KeyboardIrq
<1>3. ASSUME NEW q \in Printers, Task(q) PROVE OnePrinter(p)'
  <2>1. p = q
    BY DEF OnePrinter
  <2> QED
    BY <2>1, <1>3, FirstKeeps, MoveXKeeps, NewLineKeeps, WrapKeeps, ScrollKeeps
       DEF Task, PutCharStep
<1> QED
  BY <1>1, <1>2, <1>3 DEF Next, vars, Boot, MouseIrq, Controller, User

(* When one task prints and the keyboard interrupt echoes, the next glyph   *)
(* fits on the screen whenever no putchar is in progress, for any screen of *)
(* at least three lines and any schedule of the interrupts (printk.c:29-68).*)
THEOREM CursorOnScreenHolds ==
  ASSUME NEW p, Printers = {p}
  PROVE  Spec => []CursorOnScreen
<1>1. Init => OnePrinter(p)
  <2> SUFFICES ASSUME Init PROVE OnePrinter(p)
    OBVIOUS
  <2>1. AtPlace("rest", 0, 0, 0)
    BY TerminalAssumption DEF AtPlace, Places, FitsX, FitsY
  <2>2. /\ putting \in [Printers -> [pc : Places, reg : Nat]]
        /\ putting[p].pc = "rest" /\ putting[p].reg = 0
    BY DEF Init, TerminalInit, Places
  <2> QED
    BY <2>1, <2>2 DEF Init, TerminalInit, OnePrinter, CursorInv
<1>2. OnePrinter(p) /\ [Next]_vars => OnePrinter(p)'
  BY NextKeeps
<1>3. OnePrinter(p) => CursorOnScreen
  BY DEF OnePrinter, CursorInv, AtPlace, FitsX, FitsY, CursorOnScreen
<1> QED
  BY <1>1, <1>2, <1>3, PTL DEF Spec

-----------------------------------------------------------------------------
(* The clock *)

FieldSet == {"sec", "min", "hour", "mday", "mon", "year"}

(* The clock keeps 24-hour time: the 12-hour registers are not decoded back *)
(* (time.c:37).  What it shows is a time, in two decimal digits a field.    *)
TwentyFourHours ==
  \A c \in Clocks :
    /\ c.bcd \in BOOLEAN /\ c.h24 = TRUE
    /\ c.time \in [FieldSet -> 0..99]
    /\ c.time.sec < 60 /\ c.time.min < 60 /\ c.time.hour < 24

(* A time the clock can show.  The day may pass the last one of a month.    *)
Stamp(t) ==
  /\ t \in [FieldSet -> Nat]
  /\ t.sec < 60 /\ t.min < 60 /\ t.hour < 24
  /\ \A f \in FieldSet \ {"mday"} : t[f] < 100

(* A register's code is undone by the decoding, up to two digits a nibble   *)
(* and more.                                                                *)
LEMMA Decoded ==
  ASSUME NEW n \in Nat
  PROVE  /\ Coded(n) \in Nat
         /\ (IF format.bcd THEN BCD_TO_BIN(Coded(n)) ELSE Coded(n)) = n
<1>1. CASE format.bcd
  <2>1. PICK q \in Nat, r \in 0..9 : n = 10 * q + r
    <3>1. n \div 10 \in Nat /\ n % 10 \in 0..9 /\ n = 10 * (n \div 10) + (n % 10)
      OBVIOUS
    <3> QED BY <3>1
  <2>2. n \div 10 = q /\ n % 10 = r
    BY <2>1
  <2>3. Coded(n) = 16 * q + r
    BY <1>1, <2>2 DEF Coded
  <2>4. (16 * q + r) % 16 = r /\ (16 * q + r) \div 16 = q
    BY <2>1
  <2>5. BCD_TO_BIN(Coded(n)) = n
    BY <2>1, <2>3, <2>4 DEF BCD_TO_BIN
  <2>6. Coded(n) \in Nat
    BY <2>1, <2>3
  <2> QED BY <1>1, <2>5, <2>6
<1>2. CASE ~format.bcd
  BY <1>2 DEF Coded
<1> QED BY <1>1, <1>2

(* Seconds e that have passed since the pass began: none if the seconds     *)
(* show what they showed then, for there are fewer than sixty.              *)
Passed(e) ==
  /\ e \in 0 .. MaxTicks - left
  /\ now.sec = (shown.sec + e) % 60
  /\ e = 0 => now = shown

(* What is known of the registers read: the first is the seconds' at the    *)
(* beginning of the pass; the others are of the same time unless a second   *)
(* has passed, and when the pass has ended they are.                        *)
ReadSoFar(e) ==
  /\ reading \in 1..7 => tm.sec = Coded(shown.sec)
  /\ reading = 7 \/ e = 0 =>
       \A k \in 1..6 : reading \in k..7 => tm[Fields[k]] = Coded(shown[Fields[k]])

ClockInv ==
  /\ format.h24 = TRUE
  /\ left \in 0..MaxTicks
  /\ reading \in 0..Done
  /\ Stamp(now) /\ Stamp(shown)
  /\ reading # Done => tm \in [FieldSet -> Nat]
  /\ reading \in 1..7 => \E e \in Nat : Passed(e) /\ ReadSoFar(e)
  /\ TimeRead

LEMMA FieldsAre ==
  /\ \A k \in 1..6 : Fields[k] \in FieldSet
  /\ Fields[1] = "sec"
  /\ \A k \in 2..6 : Fields[k] # "sec"
  /\ \A j, k \in 1..6 : j # k => Fields[j] # Fields[k]
  /\ \A f \in FieldSet : \E k \in 1..6 : f = Fields[k]
  BY DEF Fields, FieldSet

(* A second passes: what the clock shows stays a time, and the seconds      *)
(* count on.                                                                *)
LEMMA LaterIs ==
  ASSUME NEW t, Stamp(t)
  PROVE  Stamp(Later(t)) /\ Later(t).sec = (t.sec + 1) % 60
<1>1. /\ t.sec \in 0..59 /\ t.min \in 0..59 /\ t.hour \in 0..23 /\ t.mday \in Nat
      /\ t \in [FieldSet -> Nat]
  BY DEF Stamp, FieldSet
<1> DEFINE sec == t.sec + 1
           min == t.min + sec \div 60
           hour == t.hour + min \div 60
           mday == t.mday + hour \div 24
<1>2. sec \in 1..60 /\ sec \div 60 \in {0, 1} /\ sec % 60 \in 0..59
  BY <1>1
<1>3. min \in 0..60
  <2> HIDE DEF sec
  <2> QED BY <1>1, <1>2
<1>4. min \div 60 \in {0, 1} /\ min % 60 \in 0..59
  <2> HIDE DEF min
  <2> QED BY <1>3
<1>5. hour \in 0..24
  <2> HIDE DEF min
  <2> QED BY <1>1, <1>4
<1>6. hour \div 24 \in {0, 1} /\ hour % 24 \in 0..23
  <2> HIDE DEF hour
  <2> QED BY <1>5
<1>7. mday \in Nat
  <2> HIDE DEF hour
  <2> QED BY <1>1, <1>6
<1>8. Later(t) = [t EXCEPT !.sec = sec % 60, !.min = min % 60, !.hour = hour % 24,
                           !.mday = mday]
  BY DEF Later
<1>9. sec % 60 = (t.sec + 1) % 60
  OBVIOUS
<1> HIDE DEF sec, min, hour, mday
<1>10. /\ Later(t) \in [FieldSet -> Nat]
       /\ Later(t).sec = sec % 60 /\ Later(t).min = min % 60 /\ Later(t).hour = hour % 24
       /\ \A f \in {"mon", "year"} : Later(t)[f] = t[f]
  <2>1. sec % 60 \in Nat /\ min % 60 \in Nat /\ hour % 24 \in Nat
    BY <1>2, <1>4, <1>6
  <2>2. t \in [FieldSet -> Nat]
    BY <1>1
  <2> DEFINE s == sec % 60
             m == min % 60
             h == hour % 24
             u == Later(t)
  <2>3. u = [t EXCEPT !.sec = s, !.min = m, !.hour = h, !.mday = mday]
    BY <1>8
  <2>4. s \in Nat /\ m \in Nat /\ h \in Nat
    BY <2>1
  <2> HIDE DEF s, m, h, u
  <2>5. /\ u \in [FieldSet -> Nat]
        /\ u.sec = s /\ u.min = m /\ u.hour = h
        /\ \A f \in {"mon", "year"} : u[f] = t[f]
    BY <1>7, <2>2, <2>3, <2>4 DEF FieldSet
  <2> QED BY <2>5 DEF s, m, h, u
<1>11. \A f \in FieldSet \ {"mday"} : Later(t)[f] < 100
  BY <1>1, <1>2, <1>4, <1>6, <1>10 DEF Stamp, FieldSet
<1> QED BY <1>2, <1>4, <1>6, <1>9, <1>10, <1>11 DEF Stamp

LEMMA SecondKeeps == ClockInv /\ Second => ClockInv'
<1> SUFFICES ASSUME ClockInv, Second PROVE ClockInv'
  OBVIOUS
<1>1. /\ left \in 1..MaxTicks /\ left' = left - 1 /\ reading \in 0..7
      /\ now' = Later(now) /\ UNCHANGED <<format, tm, reading, shown>>
  BY ClockAssumption DEF Second, ClockInv, Done
<1>2. Stamp(now') /\ now'.sec = (now.sec + 1) % 60
  BY <1>1, LaterIs DEF ClockInv
<1>3. ASSUME reading \in 1..7 PROVE \E e \in Nat : Passed(e)' /\ ReadSoFar(e)'
  <2>1. PICK e \in Nat : Passed(e) /\ ReadSoFar(e)
    BY <1>3 DEF ClockInv
  <2>2. shown.sec \in Nat
    BY DEF ClockInv, Stamp, FieldSet
  <2>3. now'.sec = (shown.sec + (e + 1)) % 60
    BY <1>2, <2>1, <2>2 DEF Passed
  <2>4. e + 1 \in 0 .. MaxTicks - left' /\ e + 1 # 0
    BY <1>1, <2>1, ClockAssumption DEF Passed
  <2>5. Passed(e + 1)'
    BY <1>1, <2>3, <2>4 DEF Passed
  <2>6. ReadSoFar(e + 1)'
    BY <1>1, <2>1, <2>4 DEF ReadSoFar, Coded
  <2> QED BY <2>5, <2>6
<1>4. TimeRead'
  BY <1>1 DEF TimeRead, Done
<1>5. left' \in 0..MaxTicks
  BY <1>1, ClockAssumption
<1> QED BY <1>1, <1>2, <1>3, <1>4, <1>5 DEF ClockInv, Stamp

LEMMA ReadFieldKeeps == ClockInv /\ ReadField => ClockInv'
<1> SUFFICES ASSUME ClockInv, ReadField PROVE ClockInv'
  OBVIOUS
<1> DEFINE f == Fields[reading + 1]
<1>1. /\ reading \in 0..5 /\ reading' = reading + 1
      /\ tm' = [tm EXCEPT ![f] = Register(f)]
      /\ shown' = (IF reading = 0 THEN now ELSE shown)
      /\ UNCHANGED <<now, format, left>>
  BY DEF ReadField
<1>2. /\ f \in FieldSet /\ (f = "sec" <=> reading = 0)
      /\ \A k \in 1..6 : k <= reading => Fields[k] # f
  BY <1>1, FieldsAre
<1>3. /\ now \in [FieldSet -> Nat] /\ shown \in [FieldSet -> Nat]
      /\ tm \in [FieldSet -> Nat] /\ now.sec \in 0..59
  BY <1>1 DEF ClockInv, Done, Stamp, FieldSet
<1>4. Register(f) = Coded(now[f]) /\ Coded(now[f]) \in Nat
  BY <1>2, <1>3, Decoded DEF ClockInv, Register
<1>5. /\ tm' \in [FieldSet -> Nat] /\ tm'[f] = Coded(now[f])
      /\ \A g \in FieldSet \ {f} : tm'[g] = tm[g]
  BY <1>1, <1>2, <1>3, <1>4
<1>6. \A n : Coded(n)' = Coded(n)
  BY <1>1 DEF Coded
<1>7. \E e \in Nat : Passed(e)' /\ ReadSoFar(e)'
  <2>1. CASE reading = 0
    <3>1. shown' = now /\ f = "sec" /\ reading' = 1
      BY <1>1, <1>2, <2>1
    <3>2. Passed(0)'
      BY <1>1, <1>3, <3>1, ClockAssumption DEF Passed, ClockInv
    <3>3. ReadSoFar(0)'
      BY <1>5, <1>6, <3>1, FieldsAre DEF ReadSoFar
    <3> QED BY <3>2, <3>3
  <2>2. CASE reading # 0
    <3>1. PICK e \in Nat : Passed(e) /\ ReadSoFar(e)
      BY <1>1, <2>2 DEF ClockInv
    <3>2. shown' = shown
      BY <1>1, <2>2
    <3>3. Passed(e)'
      BY <1>1, <3>1, <3>2 DEF Passed
    <3>4. tm'.sec = Coded(shown.sec)
      BY <1>1, <1>2, <1>5, <2>2, <3>1 DEF ReadSoFar, FieldSet
    <3>5. ASSUME e = 0, NEW k \in 1..6, reading' \in k..7
          PROVE  tm'[Fields[k]] = Coded(shown[Fields[k]])
      <4>1. CASE k = reading + 1
        BY <1>5, <3>1, <3>5, <4>1 DEF Passed
      <4>2. CASE k <= reading
        <5>1. tm[Fields[k]] = Coded(shown[Fields[k]])
          BY <1>1, <3>1, <3>5, <4>2 DEF ReadSoFar
        <5>2. Fields[k] \in FieldSet \ {f}
          BY <1>2, <4>2, FieldsAre
        <5> QED BY <1>5, <5>1, <5>2
      <4> QED BY <1>1, <3>5, <4>1, <4>2
    <3>6. reading' # 7
      BY <1>1
    <3>7. ReadSoFar(e)'
      BY <1>6, <3>2, <3>4, <3>5, <3>6 DEF ReadSoFar
    <3> QED BY <3>3, <3>7
  <2> QED BY <2>1, <2>2
<1>8. Stamp(now)' /\ Stamp(shown)'
  BY <1>1 DEF ClockInv, Stamp
<1> QED BY <1>1, <1>5, <1>7, <1>8 DEF ClockInv, TimeRead, Done

LEMMA ReadAgainKeeps == ClockInv /\ ReadAgain => ClockInv'
<1> SUFFICES ASSUME ClockInv, ReadAgain PROVE ClockInv'
  OBVIOUS
<1>1. /\ reading = 6 /\ UNCHANGED <<now, format, left, tm, shown>>
      /\ reading' = (IF Register("sec") = tm.sec THEN 7 ELSE 0)
  BY DEF ReadAgain
<1>2. \A n : Coded(n)' = Coded(n)
  BY <1>1 DEF Coded
<1>3. ASSUME reading' = 7 PROVE Passed(0)' /\ ReadSoFar(0)'
  <2>1. PICK e \in Nat : Passed(e) /\ ReadSoFar(e)
    BY <1>1 DEF ClockInv
  <2>2. Coded(now.sec) = Coded(shown.sec)
    BY <1>1, <1>3, <2>1 DEF ReadSoFar, Register
  <2>3. now.sec \in Nat /\ shown.sec \in Nat /\ shown.sec < 60
    BY DEF ClockInv, Stamp, FieldSet
  <2>4. now.sec = shown.sec
    BY <2>2, <2>3, Decoded
  <2>5. e \in 0..59
    BY <2>1, ClockAssumption DEF Passed, ClockInv
  <2>6. (shown.sec + e) % 60 = shown.sec
    BY <2>1, <2>4 DEF Passed
  <2>7. e = 0
    BY <2>3, <2>5, <2>6
  <2>8. Passed(0)'
    BY <1>1, <2>1, <2>7 DEF Passed
  <2>9. ReadSoFar(0)'
    BY <1>1, <1>2, <1>3, <2>1, <2>7 DEF ReadSoFar
  <2> QED BY <2>8, <2>9
<1>4. reading' \in {0, 7}
  BY <1>1
<1>5. Stamp(now)' /\ Stamp(shown)'
  BY <1>1 DEF ClockInv, Stamp
<1> QED BY <1>1, <1>3, <1>4, <1>5 DEF ClockInv, TimeRead, Done

LEMMA DecodeKeeps == ClockInv /\ Decode => ClockInv'
<1> SUFFICES ASSUME ClockInv, Decode PROVE ClockInv'
  OBVIOUS
<1> DEFINE t == IF format.bcd THEN [f \in DOMAIN tm |-> BCD_TO_BIN(tm[f])] ELSE tm
           hour == IF ~format.h24 /\ t.hour % 256 >= 128
                     THEN ((t.hour % 128) + 12) % 24
                     ELSE t.hour
<1>0. format.h24 = TRUE
  BY DEF ClockInv
<1>1. /\ reading = 7 /\ reading' = Done /\ UNCHANGED <<now, format, left, shown>>
      /\ tm' = [t EXCEPT !.hour = t.hour, !.mon = @ - 1, !.year = @ + 2000]
  <2>1. tm' = [t EXCEPT !.hour = hour, !.mon = @ - 1, !.year = @ + 2000]
    BY DEF Decode
  <2>2. hour = t.hour
    BY <1>0
  <2> HIDE DEF t, hour
  <2> QED BY <2>1, <2>2 DEF Decode
<1>2. shown \in [FieldSet -> Nat] /\ tm \in [FieldSet -> Nat]
  BY <1>1 DEF ClockInv, Stamp, Done
<1>3. t = shown
  <2>1. \A f \in FieldSet : tm[f] = Coded(shown[f])
    BY <1>1, FieldsAre DEF ClockInv, ReadSoFar
  <2>2. CASE format.bcd
    <3>1. \A f \in FieldSet : BCD_TO_BIN(tm[f]) = shown[f]
      BY <1>2, <2>1, <2>2, Decoded
    <3> QED BY <1>2, <2>2, <3>1
  <2>3. CASE ~format.bcd
    <3>1. \A f \in FieldSet : tm[f] = shown[f]
      BY <1>2, <2>1, <2>3, Decoded
    <3> QED BY <1>2, <2>3, <3>1
  <2> QED BY <2>2, <2>3
<1> HIDE DEF t
<1>4. tm' = [shown EXCEPT !.mon = @ - 1, !.year = @ + 2000]
  <2>1. tm' = [shown EXCEPT !.hour = shown.hour, !.mon = @ - 1, !.year = @ + 2000]
    BY <1>1, <1>3
  <2> DEFINE m == shown.mon - 1
             y == shown.year + 2000
             u == [shown EXCEPT !.hour = shown.hour, !.mon = m, !.year = y]
             v == [shown EXCEPT !.mon = m, !.year = y]
  <2> HIDE DEF m, y
  <2>2. u = [f \in FieldSet |-> u[f]] /\ v = [f \in FieldSet |-> v[f]]
    BY <1>2
  <2>3. \A f \in FieldSet : u[f] = v[f]
    BY <1>2 DEF FieldSet
  <2>4. u = v
    <3> HIDE DEF u, v
    <3> QED BY <2>2, <2>3
  <2> QED BY <2>1, <2>4 DEF m, y
<1>5. TimeRead'
  BY <1>1, <1>4 DEF TimeRead
<1> QED BY <1>1, <1>5 DEF ClockInv, Stamp, Done

LEMMA ClockStep == ClockInv /\ [Next]_vars => ClockInv'
<1> SUFFICES ASSUME ClockInv, [Next]_vars PROVE ClockInv'
  OBVIOUS
<1>1. CASE UNCHANGED clockVars
  BY <1>1 DEF clockVars, ClockInv, Stamp, Passed, ReadSoFar, Coded, TimeRead
<1>2. CASE Second
  BY <1>2, SecondKeeps
<1>3. CASE time_init
  BY <1>3, ReadFieldKeeps, ReadAgainKeeps, DecodeKeeps DEF time_init
<1> QED
  BY <1>1, <1>2, <1>3
  DEF Next, vars, Boot, KeyboardIrq, MouseIrq, Controller, User, Task

(* The time found is one the clock showed as a whole, however the seconds   *)
(* fall between the reads of the registers: a pass is taken only if no      *)
(* second passed in it, and any 24-hour clock is decoded (time.c:17-40).    *)
THEOREM TimeReadHolds ==
  ASSUME TwentyFourHours
  PROVE  Spec => []TimeRead
<1>1. Init => ClockInv
  <2> SUFFICES ASSUME Init PROVE ClockInv
    OBVIOUS
  <2>1. PICK c \in Clocks : /\ now = c.time
                            /\ format = [bcd |-> c.bcd, h24 |-> c.h24]
    BY DEF Init, ClockInit
  <2>2. /\ now \in [FieldSet -> 0..99]
        /\ now.sec < 60 /\ now.min < 60 /\ now.hour < 24
        /\ format.h24 = TRUE
    BY <2>1 DEF TwentyFourHours
  <2>3. Stamp(now)
    BY <2>2 DEF Stamp, FieldSet
  <2>4. /\ left = MaxTicks /\ reading = 0 /\ shown = now
        /\ tm = [f \in DOMAIN now |-> 0]
    BY DEF Init, ClockInit
  <2>5. tm \in [FieldSet -> Nat]
    BY <2>2, <2>4
  <2> QED
    BY <2>2, <2>3, <2>4, <2>5, ClockAssumption DEF ClockInv, TimeRead, Done
<1>2. ClockInv => TimeRead
  BY DEF ClockInv
<1> QED
  BY <1>1, <1>2, ClockStep, PTL DEF Spec

-----------------------------------------------------------------------------
(* The mouse *)

(* What a user presses is a key, and not one of the bytes of the mouse or   *)
(* the controller.                                                          *)
KeysAreKeys == \A k \in Keys : ~FromMouse(k) /\ k # Empty

Answer(b) == ~FromMouse(b) /\ b # Empty
Bytes == Keys \cup {"config", "led ack", "ack", "flags", "move"}

(* Before traps_init is over: what irq_init has asked for is all there is,  *)
(* either still with the device or in the buffer.                           *)
Asked(queue, b) ==
  \/ queue = <<b>> /\ buffer = Empty
  \/ queue = <<>> /\ buffer = b

Booting ==
  /\ packet = <<>> /\ keyboard = <<>>
  /\ init # "config" => answers = <<>>
  /\ init # "ack" => mouse = <<>>
  /\ init \in {"start", "mouse", "unmask", "sti"} => buffer = Empty
  /\ init = "config" => Asked(answers, "config")
  /\ init = "ack" => Asked(mouse, "ack")
  /\ init \in {"unmask", "sti"} => last = "ack"

(* Where in its packet the byte i of the mouse's queue is: 1, 2 or 0. *)
InBuffer == IF FromMouse(buffer) THEN 1 ELSE 0
Place(i) == (Len(packet) + InBuffer + i) % 3

(* Afterwards: the packet begun, the byte in the buffer and the bytes the   *)
(* mouse has to send are packets one after the other; an interrupt is       *)
(* pending only for the byte in the buffer, and for its device.             *)
Served ==
  /\ answers = <<>>
  /\ \A i \in 1..Len(keyboard) : Answer(keyboard[i])
  /\ 1 \in irq => Answer(buffer)
  /\ 12 \in irq => FromMouse(buffer)
  /\ FromMouse(buffer) => (buffer = "flags" <=> Len(packet) = 0)
  /\ \A i \in 1..Len(mouse) : /\ mouse[i] \in {"flags", "move"}
                              /\ mouse[i] = "flags" <=> Place(i) = 1
  /\ Place(Len(mouse)) = 0

MouseInv ==
  /\ init \in {"start", "config", "mouse", "ack", "unmask", "sti", "done"}
  /\ irq \subseteq {1, 12}
  /\ keyboard \in Seq(Bytes) /\ mouse \in Seq(Bytes)
  /\ packet \in Seq(Bytes) /\ Len(packet) <= 2
  /\ IF init = "done" THEN Served ELSE Booting
  /\ PacketsAligned

Quiet == HandsOff /\ KeysAreKeys

LEMMA BytesAre ==
  ASSUME Quiet
  PROVE  /\ \A k \in Keys : Answer(k) /\ k \in Bytes
         /\ \A b \in {"config", "led ack"} : Answer(b) /\ b \in Bytes
         /\ \A b \in {"ack", "flags", "move"} : FromMouse(b) /\ b # Empty /\ b \in Bytes
         /\ ~FromMouse(Empty)
  BY DEF Quiet, KeysAreKeys, Answer, Bytes, FromMouse, Empty

(* irq_init gets the bytes it has asked for, and nothing stays behind.      *)
LEMMA IrqInitKeeps == ASSUME Quiet, MouseInv, IrqInit PROVE MouseInv'
<1>0. /\ init # "done" /\ Booting /\ init' # init
  BY DEF IrqInit, AskConfig, WriteConfig, StartMouse, ReadAck, Sti, MouseInv
<1>1. CASE AskConfig
  <2>1. answers' = <<"config">> /\ buffer' = Empty
    BY <1>0, <1>1 DEF AskConfig, Booting
  <2> QED BY <1>0, <1>1, <2>1 DEF AskConfig, MouseInv, Booting, Asked, PacketsAligned
<1>2. CASE WriteConfig
  <2>1. answers = <<>>
    BY <1>0, <1>2 DEF WriteConfig, Booting, Asked
  <2> QED BY <1>0, <1>2, <2>1 DEF WriteConfig, Taken, MouseInv, Booting, Asked,
             PacketsAligned
<1>3. CASE StartMouse
  <2>1. mouse' = <<"ack">> /\ buffer' = Empty
    BY <1>0, <1>3 DEF StartMouse, Booting
  <2>2. mouse' \in Seq(Bytes)
    BY <2>1 DEF Bytes
  <2> QED BY <1>0, <1>3, <2>1, <2>2 DEF StartMouse, MouseInv, Booting, Asked, PacketsAligned
<1>4. CASE ReadAck
  <2>1. mouse = <<>> /\ buffer = "ack"
    BY <1>0, <1>4 DEF ReadAck, Booting, Asked
  <2>2. last' = "ack" /\ buffer' = Empty
    BY <1>4, <2>1 DEF ReadAck, Taken, In
  <2> QED BY <1>0, <1>4, <2>1, <2>2 DEF ReadAck, MouseInv, Booting, Asked, PacketsAligned
<1>5. CASE Sti
  <2>1. UNCHANGED <<buffer, answers, keyboard, mouse, enabled, irq, last, packet>>
    BY <1>5 DEF Sti, devices
  <2>2. CASE init' = "sti"
    BY <1>0, <1>5, <2>1, <2>2 DEF Sti, MouseInv, Booting, PacketsAligned
  <2>3. CASE init' = "done"
    <3>1. /\ init = "sti" /\ irq = {} /\ answers = <<>> /\ keyboard = <<>>
          /\ mouse = <<>> /\ packet = <<>> /\ buffer = Empty
      BY <1>0, <1>5, <2>3 DEF Sti, Booting
    <3>2. Served'
      <4>1. /\ answers' = <<>> /\ irq' = {} /\ ~FromMouse(buffer')
            /\ Len(keyboard') = 0 /\ Len(mouse') = 0 /\ Len(packet') = 0
        BY <2>1, <3>1, BytesAre
      <4>2. Place(Len(mouse))' = 0
        BY <4>1 DEF Place, InBuffer
      <4> QED BY <4>1, <4>2 DEF Served
    <3> QED BY <2>1, <2>3, <3>2 DEF MouseInv, PacketsAligned
  <2> QED BY <1>5, <2>2, <2>3 DEF Sti
<1> QED BY <1>1, <1>2, <1>3, <1>4, <1>5 DEF IrqInit

(* A byte enters the buffer. *)
LEMMA SendKeeps == ASSUME Quiet, MouseInv, Send PROVE MouseInv'
<1>0. /\ buffer = Empty /\ UNCHANGED <<init, last, enabled, packet>>
      /\ irq' \subseteq irq \cup {Line(IF FromMouse(buffer') THEN "mouse" ELSE "keyboard")}
  BY DEF Send
<1>1. CASE init # "done"
  <2>1. Booting
    BY <1>1 DEF MouseInv
  <2>2. /\ \/ /\ init = "config" /\ answers = <<"config">>
              /\ buffer' = "config" /\ answers' = <<>>
              /\ UNCHANGED <<keyboard, mouse>>
           \/ /\ init = "ack" /\ mouse = <<"ack">>
              /\ buffer' = "ack" /\ mouse' = <<>>
              /\ UNCHANGED <<answers, keyboard>>
    <3>1. \/ init = "config" /\ answers = <<"config">> /\ mouse = <<>>
          \/ init = "ack" /\ mouse = <<"ack">> /\ answers = <<>>
      BY <1>0, <2>1 DEF Booting, Asked, Send, MouseInv, Empty
    <3>2. /\ Tail(<<"config">>) = <<>> /\ Tail(<<"ack">>) = <<>>
          /\ Head(<<"config">>) = "config" /\ Head(<<"ack">>) = "ack"
          /\ <<"config">> # <<>> /\ <<"ack">> # <<>>
      OBVIOUS
    <3>3. keyboard = <<>>
      BY <2>1 DEF Booting
    <3> QED BY <3>1, <3>2, <3>3 DEF Send
  <2>3. irq' \subseteq {1, 12}
    BY <1>0 DEF MouseInv, Line
  <2>4. mouse' \in Seq(Bytes) /\ keyboard' \in Seq(Bytes) /\ packet' \in Seq(Bytes)
    BY <1>0, <2>1, <2>2, EmptySeq DEF MouseInv
  <2>5. Booting'
    BY <1>0, <1>1, <2>1, <2>2 DEF Booting, Asked
  <2> QED BY <1>0, <1>1, <2>3, <2>4, <2>5 DEF MouseInv, PacketsAligned
<1>2. CASE init = "done"
  <2>1. Served /\ answers = <<>> /\ irq \subseteq {1, 12}
    BY <1>2 DEF MouseInv, Served
  <2>2. irq = {} /\ ~FromMouse(buffer)
    BY <1>0, <2>1, BytesAre DEF Served, Answer
  <2>3. Len(packet) \in Nat /\ Len(packet) <= 2
    BY LenProperties DEF MouseInv
  <2>4. CASE keyboard # <<>> /\ keyboard' = Tail(keyboard) /\ UNCHANGED <<answers, mouse>>
             /\ buffer' = Head(keyboard)
    <3>1. /\ keyboard' \in Seq(Bytes) /\ Len(keyboard') = Len(keyboard) - 1
          /\ \A i \in 1..Len(keyboard') : keyboard'[i] = keyboard[i + 1]
          /\ Len(keyboard) \in Nat \ {0}
      BY <2>4, HeadTailProperties, EmptySeq DEF MouseInv
    <3>2. Answer(buffer')
      BY <2>1, <2>4, <3>1 DEF Served
    <3>3. irq' \subseteq {1}
      BY <1>0, <2>2, <3>2 DEF Answer, Line
    <3>4. InBuffer' = InBuffer
      BY <2>2, <3>2 DEF InBuffer, Answer
    <3>5. \A i \in 1..Len(keyboard') : Answer(keyboard'[i])
      BY <2>1, <3>1 DEF Served
    <3>6. Served'
      BY <1>0, <2>1, <2>4, <3>2, <3>3, <3>4, <3>5 DEF Served, Answer, Place
    <3> QED BY <1>0, <1>2, <2>4, <3>1, <3>3, <3>6 DEF MouseInv, PacketsAligned
  <2>5. CASE mouse # <<>> /\ mouse' = Tail(mouse) /\ UNCHANGED <<answers, keyboard>>
             /\ buffer' = Head(mouse)
    <3>1. /\ mouse' \in Seq(Bytes) /\ Len(mouse') = Len(mouse) - 1
          /\ \A i \in 1..Len(mouse') : mouse'[i] = mouse[i + 1]
          /\ Len(mouse) \in Nat \ {0}
      BY <2>5, HeadTailProperties, EmptySeq DEF MouseInv
    <3>2. buffer' = mouse[1]
      BY <2>5
    <3>3. buffer' \in {"flags", "move"} /\ (buffer' = "flags" <=> Place(1) = 1)
      BY <2>1, <3>1, <3>2 DEF Served
    <3>4. FromMouse(buffer') /\ ~Answer(buffer')
      BY <3>3, BytesAre DEF Answer
    <3>5. irq' \subseteq {12}
      BY <1>0, <2>2, <3>4 DEF Line
    <3>6. InBuffer = 0 /\ InBuffer' = 1
      BY <2>2, <3>4 DEF InBuffer
    <3>7. \A i \in Nat : Place(i)' = Place(i + 1)
      BY <1>0, <2>3, <3>6 DEF Place
    <3>8. Place(1) = 1 <=> Len(packet) = 0
      <4>1. Place(1) = (Len(packet) + 1) % 3
        BY <2>3, <3>6 DEF Place
      <4> DEFINE n == Len(packet)
      <4>2. n \in Nat /\ n <= 2
        BY <2>3
      <4> HIDE DEF n
      <4>3. (n + 1) % 3 = 1 <=> n = 0
        BY <4>2
      <4> QED BY <4>1, <4>3 DEF n
    <3>9. ASSUME NEW i \in 1..Len(mouse')
          PROVE  /\ mouse'[i] \in {"flags", "move"}
                 /\ mouse'[i] = "flags" <=> Place(i)' = 1
      <4>1. i + 1 \in 1..Len(mouse) /\ i \in Nat
        BY <3>1
      <4>2. /\ mouse[i + 1] \in {"flags", "move"}
            /\ mouse[i + 1] = "flags" <=> Place(i + 1) = 1
        BY <2>1, <4>1 DEF Served
      <4> QED BY <3>1, <3>7, <4>1, <4>2
    <3>10. Place(Len(mouse))' = 0
      BY <2>1, <3>1, <3>7 DEF Served
    <3>11. Served'
      BY <1>0, <2>1, <2>5, <3>3, <3>4, <3>5, <3>8, <3>9, <3>10 DEF Served
    <3> QED BY <1>0, <1>2, <2>5, <3>1, <3>5, <3>11 DEF MouseInv, PacketsAligned
  <2> QED BY <2>1, <2>4, <2>5 DEF Send
<1> QED BY <1>1, <1>2

(* keyboard_handler takes a byte that is not the mouse's; those irq_init    *)
(* left pending find the buffer empty, and read the acknowledgement again.  *)
LEMMA KeyboardHandlerKeeps == ASSUME Quiet, MouseInv, keyboard_handler PROVE MouseInv'
<1>0. /\ init \in {"sti", "done"} /\ 1 \in irq /\ irq' = irq \ {1}
      /\ last' = In /\ buffer' = Empty /\ keyboard' = keyboard \o LightsReplies(In)
      /\ UNCHANGED <<init, answers, mouse, enabled, packet>>
  BY DEF keyboard_handler, Unmasked, Taken
<1>1. /\ LightsReplies(In) \in Seq(Bytes)
      /\ \A i \in 1..Len(LightsReplies(In)) : Answer(LightsReplies(In)[i])
      /\ In = "ack" => LightsReplies(In) = <<>>
  <2>1. CASE In = "capslock"
    <3>1. LightsReplies(In) = <<"led ack", "led ack">>
      BY <2>1 DEF LightsReplies
    <3>2. Answer("led ack") /\ "led ack" \in Bytes
      BY BytesAre
    <3> DEFINE s == LightsReplies(In)
    <3>3. s \in Seq(Bytes) /\ Len(s) = 2 /\ s[1] = "led ack" /\ s[2] = "led ack"
      <4>1. \A b \in Bytes : /\ <<b, b>> \in Seq(Bytes) /\ Len(<<b, b>>) = 2
                             /\ <<b, b>>[1] = b /\ <<b, b>>[2] = b
        OBVIOUS
      <4> QED BY <3>1, <3>2, <4>1
    <3> HIDE DEF s
    <3>4. \A i \in 1..Len(s) : Answer(s[i])
      <4>1. \A i \in 1..2 : i = 1 \/ i = 2
        OBVIOUS
      <4> QED BY <3>2, <3>3, <4>1
    <3> QED BY <2>1, <3>3, <3>4 DEF s
  <2>2. CASE In # "capslock"
    <3>1. LightsReplies(In) = <<>>
      BY <2>2 DEF LightsReplies
    <3> QED BY <3>1, EmptySeq
  <2> QED BY <2>1, <2>2
<1>2. /\ keyboard' \in Seq(Bytes)
      /\ \A i \in 1..Len(keyboard') :
           keyboard'[i] = IF i <= Len(keyboard) THEN keyboard[i]
                          ELSE LightsReplies(In)[i - Len(keyboard)]
      /\ Len(keyboard') = Len(keyboard) + Len(LightsReplies(In))
      /\ Len(keyboard) \in Nat /\ Len(LightsReplies(In)) \in Nat
  BY <1>0, <1>1, ConcatProperties, LenProperties DEF MouseInv
<1>3. CASE init = "sti"
  <2>1. Booting
    BY <1>3 DEF MouseInv
  <2>2. In = "ack"
    BY <1>3, <2>1 DEF Booting, In
  <2>3. keyboard' = <<>>
    BY <1>0, <1>1, <2>1, <2>2, EmptySeq, ConcatEmptySeq DEF Booting
  <2>4. Booting'
    BY <1>0, <1>3, <2>1, <2>2, <2>3 DEF Booting
  <2> QED BY <1>0, <1>2, <1>3, <2>4 DEF MouseInv, PacketsAligned
<1>4. CASE init = "done"
  <2>1. Served /\ irq \subseteq {1, 12}
    BY <1>4 DEF MouseInv
  <2>2. Answer(buffer)
    BY <1>0, <2>1 DEF Served
  <2>3. irq' = {}
    BY <1>0, <2>1, <2>2 DEF Served, Answer
  <2>4. InBuffer' = InBuffer /\ ~FromMouse(buffer')
    BY <1>0, <2>2, BytesAre DEF InBuffer, Answer
  <2>5. ASSUME NEW i \in 1..Len(keyboard') PROVE Answer(keyboard'[i])
    <3>1. CASE i <= Len(keyboard)
      <4>1. i \in 1..Len(keyboard) /\ keyboard'[i] = keyboard[i]
        BY <1>2, <3>1
      <4>2. \A j \in 1..Len(keyboard) : Answer(keyboard[j])
        BY <2>1 DEF Served
      <4> QED BY <4>1, <4>2
    <3>2. CASE ~(i <= Len(keyboard))
      <4>1. i - Len(keyboard) \in 1..Len(LightsReplies(In))
        BY <1>2, <3>2
      <4> QED BY <1>1, <1>2, <3>2, <4>1
    <3> QED BY <3>1, <3>2
  <2>6. Served'
    BY <1>0, <2>1, <2>3, <2>4, <2>5 DEF Served, Place
  <2> QED BY <1>0, <1>2, <1>4, <2>3, <2>6 DEF MouseInv, PacketsAligned
<1> QED BY <1>0, <1>3, <1>4

(* The counter of mouse_cycle, with the byte that is taken. *)
LEMMA Cycle ==
  ASSUME NEW n \in Nat, n <= 2
  PROVE  \A i \in Nat : /\ n # 2 => (n + 1 + 0 + i) % 3 = (n + 1 + i) % 3
                        /\ n = 2 => (0 + 0 + i) % 3 = (n + 1 + i) % 3
  OBVIOUS

(* mouse_handler counts on by one byte, the mouse's next one. *)
LEMMA MouseHandlerKeeps == ASSUME Quiet, MouseInv, mouse_handler PROVE MouseInv'
<1>0. /\ init \in {"sti", "done"} /\ 12 \in irq /\ 1 \notin irq /\ irq' = irq \ {12}
      /\ UNCHANGED <<init, answers, keyboard, mouse, enabled>>
  BY DEF mouse_handler, Unmasked
<1>1. CASE init = "sti"
  <2>1. Booting
    BY <1>1 DEF MouseInv
  <2>2. ~FromMouse(buffer)
    BY <1>1, <2>1, BytesAre DEF Booting
  <2>3. UNCHANGED <<buffer, last, packet>>
    BY <2>2 DEF mouse_handler
  <2>4. Booting'
    BY <1>0, <1>1, <2>1, <2>3 DEF Booting
  <2> QED BY <1>0, <1>1, <2>3, <2>4 DEF MouseInv, PacketsAligned
<1>2. CASE init = "done"
  <2>1. Served /\ irq \subseteq {1, 12}
    BY <1>2 DEF MouseInv
  <2>2. FromMouse(buffer) /\ irq' = {}
    BY <1>0, <2>1 DEF Served
  <2>3. buffer # Empty /\ buffer \in Bytes
    BY <2>2, BytesAre DEF FromMouse, Bytes
  <2>4. /\ buffer' = Empty
        /\ packet' = IF Len(packet) = 2 THEN <<>> ELSE Append(packet, buffer)
    BY <2>2, <2>3 DEF mouse_handler, Taken
  <2>5. Len(packet) \in Nat /\ Len(packet) <= 2
    BY LenProperties DEF MouseInv
  <2>6. InBuffer = 1 /\ InBuffer' = 0 /\ ~FromMouse(buffer')
    BY <2>2, <2>4, BytesAre DEF InBuffer
  <2>7. CASE Len(packet) = 2
    <3>1. packet' = <<>> /\ Len(packet') = 0
      BY <2>4, <2>7
    <3>2. \A i \in Nat : Place(i)' = Place(i)
      BY <2>5, <2>6, <2>7, <3>1, Cycle DEF Place
    <3>3. Place(Len(mouse)) = 0 /\ Len(mouse) \in Nat
      BY <2>1, LenProperties DEF Served, MouseInv
    <3>4. Served'
      BY <1>0, <2>1, <2>2, <2>6, <3>2, <3>3 DEF Served
    <3>5. PacketsAligned' /\ packet' \in Seq(Bytes)
      BY <3>1, EmptySeq DEF PacketsAligned
    <3> QED BY <1>0, <1>2, <2>2, <3>1, <3>4, <3>5 DEF MouseInv
  <2>8. CASE Len(packet) # 2
    <3>1. /\ packet' \in Seq(Bytes) /\ Len(packet') = Len(packet) + 1
          /\ \A i \in 1..Len(packet) : packet'[i] = packet[i]
          /\ packet'[Len(packet) + 1] = buffer
      BY <2>3, <2>4, <2>8, AppendProperties DEF MouseInv
    <3>2. \A i \in Nat : Place(i)' = Place(i)
      BY <2>5, <2>6, <2>8, <3>1, Cycle DEF Place
    <3>3. Place(Len(mouse)) = 0 /\ Len(mouse) \in Nat
      BY <2>1, LenProperties DEF Served, MouseInv
    <3>4. Served'
      BY <1>0, <2>1, <2>2, <2>6, <3>2, <3>3 DEF Served
    <3>5. Len(packet') <= 2
      <4> DEFINE n == Len(packet)
      <4>1. n \in Nat /\ n <= 2 /\ n # 2
        BY <2>5, <2>8
      <4> HIDE DEF n
      <4>2. n + 1 <= 2
        BY <4>1
      <4> QED BY <3>1, <4>2 DEF n
    <3>6. DOMAIN packet' = 1..Len(packet) + 1 /\ DOMAIN packet = 1..Len(packet)
      BY <3>1, LenProperties DEF MouseInv
    <3>7. ASSUME NEW i \in DOMAIN packet' PROVE packet'[i] = "flags" <=> i = 1
      <4>1. CASE i \in 1..Len(packet)
        BY <3>1, <3>6, <4>1 DEF MouseInv, PacketsAligned
      <4>2. CASE i = Len(packet) + 1
        BY <2>1, <2>2, <2>5, <3>1, <4>2 DEF Served
      <4> QED BY <2>5, <3>6, <4>1, <4>2
    <3>8. PacketsAligned'
      BY <3>7 DEF PacketsAligned
    <3> QED BY <1>0, <1>2, <2>2, <3>1, <3>4, <3>5, <3>8 DEF MouseInv
  <2> QED BY <2>7, <2>8
<1> QED BY <1>0, <1>1, <1>2

(* A whole packet more is queued. *)
LEMMA MoveKeeps == ASSUME Quiet, MouseInv, Move PROVE MouseInv'
<1>0. /\ init = "done" /\ mouse' = mouse \o <<"flags", "move", "move">>
      /\ UNCHANGED <<init, buffer, last, answers, keyboard, enabled, irq, packet>>
  BY DEF Move, Touchable, Quiet
<1>1. Served
  BY <1>0 DEF MouseInv
<1> DEFINE more == <<"flags", "move", "move">>
           m == Len(mouse)
<1>2. /\ more \in Seq(Bytes) /\ Len(more) = 3
      /\ more[1] = "flags" /\ more[2] = "move" /\ more[3] = "move"
  <2>1. \A a, b, c \in Bytes :
          /\ <<a, b, c>> \in Seq(Bytes) /\ Len(<<a, b, c>>) = 3
          /\ <<a, b, c>>[1] = a /\ <<a, b, c>>[2] = b /\ <<a, b, c>>[3] = c
    OBVIOUS
  <2>2. "flags" \in Bytes /\ "move" \in Bytes
    BY DEF Bytes
  <2> QED BY <2>1, <2>2
<1> HIDE DEF more
<1>3. /\ mouse' \in Seq(Bytes) /\ Len(mouse') = m + 3 /\ m \in Nat
      /\ \A i \in 1 .. m + 3 : mouse'[i] = IF i <= m THEN mouse[i] ELSE more[i - m]
  BY <1>0, <1>2, ConcatProperties, LenProperties DEF MouseInv, more
<1>4. \A i : Place(i)' = Place(i)
  BY <1>0 DEF Place, InBuffer
<1>5. Place(m) = 0
  BY <1>1 DEF Served
<1> DEFINE q == Len(packet) + InBuffer
           n == q + m
<1>6. n \in Nat /\ n % 3 = 0 /\ \A i \in Nat : Place(m + i) = (n + i) % 3
  <2> HIDE DEF m
  <2>1. q \in Nat /\ \A i : Place(i) = (q + i) % 3
    BY LenProperties DEF Place, InBuffer, MouseInv
  <2> HIDE DEF q
  <2> QED BY <1>3, <1>5, <2>1
<1> HIDE DEF n, m
<1>7. Place(m + 1) = 1 /\ Place(m + 2) = 2 /\ Place(m + 3) = 0
  <2>1. (n + 1) % 3 = 1 /\ (n + 2) % 3 = 2 /\ (n + 3) % 3 = 0
    BY <1>6
  <2> QED BY <1>6, <2>1
<1>8. ASSUME NEW i \in 1..Len(mouse')
      PROVE  mouse'[i] \in {"flags", "move"} /\ (mouse'[i] = "flags" <=> Place(i)' = 1)
  <2>1. CASE i \in 1..m
    BY <1>1, <1>3, <1>4, <2>1 DEF Served, m
  <2>2. CASE i \in {m + 1, m + 2, m + 3}
    BY <1>2, <1>3, <1>4, <1>7, <2>2
  <2> QED BY <1>3, <2>1, <2>2
<1>9. Served'
  BY <1>0, <1>1, <1>3, <1>4, <1>7, <1>8 DEF Served
<1> QED BY <1>0, <1>3, <1>9 DEF MouseInv, PacketsAligned

LEMMA PressKeeps == ASSUME Quiet, MouseInv, NEW k \in Keys, Press(k) PROVE MouseInv'
<1>0. /\ init = "done" /\ keyboard' = Append(keyboard, k)
      /\ UNCHANGED <<init, buffer, last, answers, mouse, enabled, irq, packet>>
  BY DEF Press, Touchable, Quiet
<1>1. Served
  BY <1>0 DEF MouseInv
<1>2. /\ keyboard' \in Seq(Bytes) /\ Len(keyboard') = Len(keyboard) + 1
      /\ \A i \in 1..Len(keyboard) : keyboard'[i] = keyboard[i]
      /\ keyboard'[Len(keyboard) + 1] = k
      /\ Len(keyboard) \in Nat
  <2>1. k \in Bytes /\ keyboard \in Seq(Bytes)
    BY BytesAre DEF MouseInv
  <2> QED BY <1>0, <2>1, AppendProperties, LenProperties
<1>3. \A i \in 1..Len(keyboard') : Answer(keyboard'[i])
  <2> SUFFICES ASSUME NEW i \in 1..Len(keyboard') PROVE Answer(keyboard'[i])
    OBVIOUS
  <2>1. i \in 1..Len(keyboard) \/ i = Len(keyboard) + 1
    BY <1>2
  <2> QED BY <1>1, <1>2, <2>1, BytesAre DEF Served
<1>4. Served'
  BY <1>0, <1>1, <1>3 DEF Served, Place, InBuffer
<1> QED BY <1>0, <1>2, <1>4 DEF MouseInv, PacketsAligned

LEMMA MouseStep == Quiet /\ MouseInv /\ [Next]_vars => MouseInv'
<1> SUFFICES ASSUME Quiet, MouseInv, [Next]_vars PROVE MouseInv'
  OBVIOUS
<1>1. CASE UNCHANGED inputVars
  BY <1>1 DEF inputVars, MouseInv, Booting, Asked, Served, Place, InBuffer, PacketsAligned
<1>2. CASE IrqInit \/ keyboard_handler \/ mouse_handler \/ Send \/ Move
  BY <1>2, IrqInitKeeps, KeyboardHandlerKeeps, MouseHandlerKeeps, SendKeeps, MoveKeeps
<1>3. ASSUME NEW k \in Keys, Press(k) PROVE MouseInv'
  BY <1>3, PressKeeps
<1> QED
  BY <1>1, <1>2, <1>3
  DEF Next, vars, Boot, KeyboardIrq, MouseIrq, Controller, User, Task

(* With nobody at the keyboard or the mouse until traps_init is over, what  *)
(* is in mouse_packet always begins with the first byte of a packet, for    *)
(* any keys, any length of the queues and any order of the interrupts       *)
(* (traps.c:130-138, 218-233).                                              *)
THEOREM PacketsAlignedHolds ==
  ASSUME HandsOff, KeysAreKeys
  PROVE  Spec => []PacketsAligned
<1>1. Init => MouseInv
  <2> SUFFICES ASSUME Init PROVE MouseInv
    OBVIOUS
  <2>1. InputInit
    BY DEF Init
  <2>2. <<>> \in Seq(Bytes) /\ Len(<<>>) = 0
    BY EmptySeq
  <2> QED
    BY <2>1, <2>2 DEF InputInit, MouseInv, Booting, PacketsAligned
<1>2. MouseInv /\ [Next]_vars => MouseInv'
  BY MouseStep DEF Quiet
<1>3. MouseInv => PacketsAligned
  BY DEF MouseInv
<1> QED
  BY <1>1, <1>2, <1>3, PTL DEF Spec

=============================================================================
