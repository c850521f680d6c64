------------------------------ MODULE Timestamp ------------------------------
(***************************************************************************)
(* The two clocks of timestamp.h and the conversions between them.         *)
(*                                                                         *)
(* A timestamp is the number HHMMSSmmm that the exchange writes.  Linear   *)
(* time is milliseconds since midnight.  Abs time is milliseconds since    *)
(* the opening at 9:30 with the lunch break cut out: the morning is        *)
(* 0 .. Morning, and 13:00:00.000 is one step of 100 ms after the end of   *)
(* the morning.  All of them fit in 31 bits.                               *)
(***************************************************************************)
EXTENDS Integers

timestampLinear(timestamp) ==
  LET hours        == timestamp \div 10000000
      minutes      == (timestamp \div 100000) % 100
      seconds      == (timestamp \div 1000) % 100
      milliseconds == timestamp % 1000
  IN  (hours * 3600 + minutes * 60 + seconds) * 1000 + milliseconds

timestampDelinear(time) ==
  LET milliseconds == time % 1000
      seconds      == (time \div 1000) % 60
      minutes      == (time \div 60000) % 60
      hours        == (time \div 3600000) % 24
  IN  milliseconds + 1000 * (seconds + 100 * (minutes + 100 * hours))

Open    == 34200000   \* timestampLinear(9'30'00'000)
Morning == 7200000    \* 2 * 60 * 60'000
Lunch   == 5400000    \* (1 * 60 + 30) * 60'000
Step    == 100        \* the interval of one snapshot
Day     == 86400000   \* the milliseconds of a day

\* Mutant of timestampAbsLinear: the afternoon starts where the morning ends.
timestampAbsLinearFlush(timestamp) ==
  LET time == timestampLinear(timestamp) - Open
  IN  IF time <= Morning THEN time
      ELSE IF time < Morning + Lunch THEN Morning
      ELSE time - Lunch

timestampAbsLinear(timestamp) ==
  LET time == timestampLinear(timestamp) - Open
  IN  IF time <= Morning THEN time
      ELSE IF time < Morning + Lunch THEN Morning + Step
      ELSE time - (Lunch - Step)

\* Mutant of timestampAbsDelinear: the lunch break is not put back.
timestampAbsDelinearThrough(time) == timestampDelinear(time + Open)

timestampAbsDelinear(time) ==
  timestampDelinear((IF time > Morning THEN time + (Lunch - Step) ELSE time) + Open)

timestampAdvance100ms(timestamp) ==
  timestampAbsDelinear(timestampAbsLinear(timestamp) + Step)

\* Mutant of roundedTick: to the nearest step instead of the next.
roundedTickNearest(timestamp) == ((timestampLinear(timestamp) + 50) \div 100) * 100

\* The linear time under which WantCache::checkWantBuyAtTimestamp looks a
\* tick up.
roundedTick(timestamp) == ((timestampLinear(timestamp) + 90) \div 100) * 100
=============================================================================
