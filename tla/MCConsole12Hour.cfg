\* A clock that counts twelve hours.
SPECIFICATION Spec

CONSTANTS
  Printers = {p1}
  Characters = {"glyph", "newline", "return", "tab"}
  Width = 16
  Height = 48
  CharSize = 16
  Word = 256
  Keys = {"letter", "enter", "backspace", "esc", "capslock"}
  MaxQueue = 1
  HandsOff = TRUE
  Clocks <- TwelveHourClocks
  MaxTicks = 1

INVARIANTS
  TimeRead
