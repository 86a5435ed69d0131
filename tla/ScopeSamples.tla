---------------------------- MODULE ScopeSamples ----------------------------
(***************************************************************************)
(* One column of the screen: the samples of the two channels the stream    *)
(* handlers convert there, and the point of the math curve main() computes *)
(* from them on an edge of the touch panel.  The curves as a whole, and    *)
(* the handlers that interrupt main() between two columns, are the subject *)
(* of ScopeCurves; this module is about the values.                        *)
(***************************************************************************)
EXTENDS ScopeScale

VARIABLES data1, data2,    \* data_scope[i], data_scope2[i]
          math, mode,      \* data_scope_math[i], copyChannelMath
          raw1, raw2       \* history: the samples behind data1 and data2

samples == <<data1, data2, math, mode, raw1, raw2>>

NoRaw == -1

\* main() shows two constants before the first captures.
SamplesInit == /\ data1 = -10 /\ data2 = 10 /\ math = 0 /\ mode = 0
               /\ raw1 = NoRaw /\ raw2 = NoRaw

Capture1(raw) ==
  /\ data1' = Sample(raw) /\ raw1' = raw
  /\ UNCHANGED <<data2, math, mode, raw2>>

Capture2(raw) ==
  /\ data2' = Sample(raw) /\ raw2' = raw
  /\ UNCHANGED <<data1, math, mode, raw1>>

\* What the button MATH asks for.
Exact(m) == IF m = 1 THEN data1 - data2 ELSE data1 + data2

\* The sum or difference goes through an int8_t before it is limited.
MathPoint(m) == IF m = 0 THEN math ELSE Limited(Int8(Exact(m)))

\* An edge of the touch, with the finger on MATH or anywhere else.
EdgeMath  == /\ mode' = (mode + 1) % 3 /\ math' = MathPoint(mode')
             /\ UNCHANGED <<data1, data2, raw1, raw2>>
EdgeOther == /\ math' = MathPoint(mode)
             /\ UNCHANGED <<data1, data2, mode, raw1, raw2>>

-----------------------------------------------------------------------------
(* Properties.                                                              *)

\* The values are on the virtual screen, rows 38 to 234.
SamplesTypeOK == /\ {data1, data2, math} \subseteq -98..98 /\ mode \in 0..2
                 /\ {raw1, raw2} \subseteq 0..255 \cup {NoRaw}

\* scope.c:96: 3.3 V at row 36, 0 V at row 236, for the 256 values of the ADC.
\* A cursor put on a point of a curve shows the voltage of its sample, to 40 mV:
\* the conversion of main.c:261, the drawing and pixelToVolt agree.
CursorReadsSample ==
  /\ raw1 # NoRaw => Abs(256 * Reading(Row(data1)) - 330 * raw1) <= 256 * 4
  /\ raw2 # NoRaw => Abs(256 * Reading(Row(data2)) - 330 * raw2) <= 256 * 4

\* main.c:155 and :220, "CH1+CH2" and "Limites": the math curve is the limited
\* sum or difference of the two curves.
MathIsLimited == [][math' # math => math' = Limited(Exact(mode'))]_samples
=============================================================================
