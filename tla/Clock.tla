------------------------------- MODULE Clock --------------------------------
(***************************************************************************)
(* time_init (kernel/time.c): the date and time are read once, at boot,    *)
(* from the registers of the real-time clock (external), one at a time,    *)
(* while the clock goes on.  The clock changes all registers at once.      *)
(***************************************************************************)
EXTENDS Naturals, Sequences

CONSTANTS
  Clocks,     (* what the clock may be at boot: its time, and how its      *)
              (* registers are coded (bcd, or h24: 24 hours)               *)
  MaxTicks    (* seconds that may pass during boot                         *)

ASSUME ClockAssumption == MaxTicks \in 0..59

Fields == <<"sec", "min", "hour", "mday", "mon", "year">>
Done == 8

VARIABLES
  now,        (* the clock's time                                          *)
  format,
  left,       (* seconds that may still pass                               *)
  tm,         (* the variable time                                         *)
  reading,    (* registers read in this pass, 7: all, Done: decoded         *)
  shown       (* what the clock showed when the pass began                 *)

clockVars == <<now, format, left, tm, reading, shown>>

ClockInit ==
  /\ \E clock \in Clocks :
       now = clock.time /\ format = [bcd |-> clock.bcd, h24 |-> clock.h24]
  /\ left = MaxTicks
  /\ tm = [f \in DOMAIN now |-> 0]
  /\ reading = 0 /\ shown = now

(* A second passes; the last day of a month is left out. *)
Later(t) ==
  LET sec == t.sec + 1
      min == t.min + sec \div 60
      hour == t.hour + min \div 60
  IN  [t EXCEPT !.sec = sec % 60, !.min = min % 60, !.hour = hour % 24,
                !.mday = @ + hour \div 24]

Second ==
  /\ left > 0 /\ reading # Done
  /\ left' = left - 1
  /\ now' = Later(now)
  /\ UNCHANGED <<format, tm, reading, shown>>

(* CMOS_READ: what the register of a field holds. *)
Coded(n) == IF format.bcd THEN 16 * (n \div 10) + (n % 10) ELSE n
Register(f) ==
  IF f # "hour" \/ format.h24 THEN Coded(now[f])
  ELSE Coded(IF now.hour % 12 = 0 THEN 12 ELSE now.hour % 12)
         + (IF now.hour >= 12 THEN 128 ELSE 0)

ReadField ==
  /\ reading \in 0..5
  /\ LET f == Fields[reading + 1] IN tm' = [tm EXCEPT ![f] = Register(f)]
  /\ shown' = IF reading = 0 THEN now ELSE shown
  /\ reading' = reading + 1
  /\ UNCHANGED <<now, format, left>>

ReadOnce == \* mutant: the seconds are not compared
  /\ reading = 6
  /\ reading' = 7
  /\ UNCHANGED <<now, format, left, tm, shown>>

(* The seconds are read again: another pass if they changed. *)
ReadAgain ==
  /\ reading = 6
  /\ reading' = IF Register("sec") = tm.sec THEN 7 ELSE 0
  /\ UNCHANGED <<now, format, left, tm, shown>>

BCD_TO_BIN(n) == (n % 16) + (n \div 16) * 10

Decode ==
  /\ reading = 7
  /\ LET t == IF format.bcd THEN [f \in DOMAIN tm |-> BCD_TO_BIN(tm[f])] ELSE tm
         hour == IF ~format.h24 /\ t.hour % 256 >= 128
                   THEN ((t.hour % 128) + 12) % 24
                   ELSE t.hour
     IN  tm' = [t EXCEPT !.hour = hour, !.mon = @ - 1, !.year = @ + 2000]
  /\ reading' = Done
  /\ UNCHANGED <<now, format, left, shown>>

time_init == ReadField \/ ReadAgain \/ Decode

-----------------------------------------------------------------------------
(* The time found is one that the clock showed as a whole, although its     *)
(* registers are read one by one and may change in between, and it is       *)
(* decoded from the format the clock uses (time.c:17-40).                   *)
TimeRead ==
  reading = Done =>
    tm = [shown EXCEPT !.mon = @ - 1, !.year = @ + 2000]

=============================================================================
