----------------------------- MODULE ScopeScale -----------------------------
(***************************************************************************)
(* The scales of the oscilloscope: from a raw sample of the ADC to the     *)
(* value of a curve, from a value to its row on the LCD, and from a row to *)
(* the voltage a cursor shows.  C divides towards zero; an int8_t keeps    *)
(* the low eight bits.                                                     *)
(***************************************************************************)
EXTENDS Integers

Trunc(n, d) == IF n >= 0 THEN n \div d ELSE -((-n) \div d)

Int8(n) == ((n + 128) % 256) - 128

Abs(n) == IF n < 0 THEN -n ELSE n

\* The limits of the virtual screen of the scope.
Limited(v) == IF v > 98 THEN 98 ELSE IF v < -98 THEN -98 ELSE v

\* Bug: the samples are not limited.
Sample_Unlimited(raw) == Int8(Trunc(25 * raw - 3200, 32))

\* (signed int) (raw / 1.28 - 100), in an int8_t, limited.
Sample(raw) == Limited(Int8(Trunc(25 * raw - 3200, 32)))

Row(v) == 136 - v

\* Bug: the top of the screen for its bottom.
Reading_Top(row) == (2000 * (236 - 36 - row) + 606) \div 1212

\* pixelToVolt, as "%.2f" shows it: in hundredths of a volt.
Reading(row) == (2000 * (236 - row) + 606) \div 1212
=============================================================================
