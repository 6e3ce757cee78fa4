----------------------------- MODULE MCConsole ------------------------------
(***************************************************************************)
(* A screen of two columns and three lines, one task that prints.          *)
(***************************************************************************)
EXTENDS Console

Time(h, m, s) ==
  [sec |-> s, min |-> m, hour |-> h, mday |-> 9, mon |-> 12, year |-> 25]
MCClocks ==
  { [time |-> Time(9, 59, 59), bcd |-> TRUE, h24 |-> TRUE],
    [time |-> Time(23, 59, 59), bcd |-> FALSE, h24 |-> TRUE] }

\* Clocks that count twelve hours, in the morning and in the afternoon.
TwelveHourClocks ==
  { [time |-> Time(h, 59, 59), bcd |-> b, h24 |-> FALSE] :
      h \in {9, 21}, b \in BOOLEAN }

=============================================================================
