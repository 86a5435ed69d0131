------------------------- MODULE ScopeScreen_proofs -------------------------
(***************************************************************************)
(* Proofs about the screen, for all samples of the ADCs, all touches of    *)
(* the panel and whatever touchY holds before the first.                   *)
(***************************************************************************)
EXTENDS ScopeScreen, FiniteSetTheorems, TLAPS

\* The tie of MoveCursor goes to B, so that the two never meet.
CursorsApart == cursorA # cursorB

\* Until the finger leaves, a cursor is where it landed, with its text.
CursorAtLanding ==
  changed /\ landed # Nowhere /\ landed[2] > 36 /\ landed[2] < 236 =>
    \/ cursorA = landed[2] /\ textA = Reading(landed[2])
    \/ cursorB = landed[2] /\ textB = Reading(landed[2])

\* A curve is the conversion of the sample behind it.
CurvesFromSamples == /\ raw1 # NoRaw => data1 = Sample(raw1)
                     /\ raw2 # NoRaw => data2 = Sample(raw2)

SceneOK == /\ scene.raws1 \subseteq 0..255 /\ scene.raws2 \subseteq 0..255
           /\ scene.touches \subseteq Panel
           /\ scene.garbage \subseteq Word

ScreenInv == /\ SceneOK /\ SamplesTypeOK /\ ViewTypeOK /\ CurvesFromSamples
             /\ CursorsApart /\ CursorAtLanding /\ TextsTell

-----------------------------------------------------------------------------
(* The scales.                                                              *)

LEMMA LimitedOnScreen == ASSUME NEW n \in Int PROVE Limited(n) \in -98..98
BY DEF Limited

LEMMA Int8Integer == ASSUME NEW n \in Int PROVE Int8(n) \in -128..127
BY DEF Int8

\* What the ADC's sample becomes before the int8_t and the limits.
Scaled(raw) == Trunc(25 * raw - 3200, 32)

\* No sample overflows the int8_t: the limits alone decide.
LEMMA SampleLimits ==
  ASSUME NEW raw \in 0..255
  PROVE  /\ Scaled(raw) \in -100..99
         /\ Sample(raw) = Limited(Scaled(raw))
<1>1. Scaled(raw) \in -100..99  BY DEF Scaled, Trunc
<1>2. \A n \in -100..99 : Int8(n) = n  BY DEF Int8
<1>3. Sample(raw) = Limited(Int8(Scaled(raw)))  BY DEF Sample, Scaled
<1>4. Sample(raw) = Limited(Scaled(raw))  BY <1>1, <1>2, <1>3
<1> QED  BY <1>1, <1>4

LEMMA SampleOnScreen == \A raw \in 0..255 : Sample(raw) \in -98..98
<1> TAKE raw \in 0..255
<1>1. Scaled(raw) \in Int  BY DEF Scaled, Trunc
<1>2. Int8(Scaled(raw)) \in Int  BY <1>1, Int8Integer
<1>3. Sample(raw) = Limited(Int8(Scaled(raw)))  BY DEF Sample, Scaled
<1> QED  BY <1>2, <1>3, LimitedOnScreen, SMTT(30)

LEMMA ReadingRange ==
  ASSUME NEW row \in Rows
  PROVE  Reading(row) \in Readings
BY DEF Reading, Rows, Readings

\* The three roundings and the limit together stay within 40 mV.
LEMMA ReadBack ==
  ASSUME NEW raw \in 0..255
  PROVE  Abs(256 * Reading(Row(Sample(raw))) - 330 * raw) <= 256 * 4
<1> DEFINE t == Scaled(raw)
           v == Limited(t)
           r == Reading(Row(v))
<1>1. t \in -100..99 /\ Sample(raw) = v  BY SampleLimits
<1>2. 32 * t - 31 <= 25 * raw - 3200 /\ 25 * raw - 3200 <= 32 * t + 31
  BY DEF Scaled, Trunc
<1> HIDE DEF t
<1>3. /\ v \in -98..98 /\ v - 2 <= t /\ t <= v + 2
      /\ v > -98 /\ v < 98 => t = v
      /\ v = 98 => t >= 98
      /\ v = -98 => t <= -98
  BY <1>1 DEF Limited
<1> HIDE DEF v
<1>4. r \in Int /\ 1212 * r <= 2000 * (100 + v) + 606 /\ 2000 * (100 + v) + 606 < 1212 * r + 1212
  BY <1>3 DEF Reading, Row
<1> HIDE DEF r
<1>5. 256 * r - 330 * raw <= 1024 /\ 330 * raw - 256 * r <= 1024
  BY <1>1, <1>2, <1>3, <1>4
<1> QED  BY <1>1, <1>4, <1>5, SMTT(30) DEF Abs, r

-----------------------------------------------------------------------------
(* The steps.                                                               *)

LEMMA SceneFacts == ASSUME NEW s \in Scenes PROVE
  /\ s.raws1 \subseteq 0..255 /\ s.raws2 \subseteq 0..255
  /\ s.touches \subseteq Panel /\ s.garbage \subseteq Word
<1>1. s \in [raws1 : SUBSET (0..255), raws2 : SUBSET (0..255),
             touches : SUBSET Panel, garbage : SUBSET Word]
  BY ScenesAssumption
<1>2. s.raws1 \in SUBSET (0..255) /\ s.raws2 \in SUBSET (0..255)  BY <1>1
<1>3. s.touches \in SUBSET Panel  BY <1>1
<1>4. s.garbage \in SUBSET Word  BY <1>1
<1> QED  BY <1>2, <1>3, <1>4, Zenon

LEMMA InitInv == Init => ScreenInv
<1> SUFFICES ASSUME Init PROVE ScreenInv  OBVIOUS
<1>1. SceneOK
  <2>1. scene \in Scenes  BY DEF Init
  <2> QED  BY <2>1, SceneFacts, Zenon DEF SceneOK
<1>2. SamplesTypeOK /\ CurvesFromSamples
  BY DEF Init, SamplesInit, SamplesTypeOK, CurvesFromSamples
<1>3. ViewTypeOK
  <2>1. y \in Word  BY <1>1 DEF Init, ViewInit, SceneOK
  <2>2. landed = Nowhere /\ changed = TRUE /\ hit = {}  BY DEF Init, ViewInit
  <2>3. x = 0 /\ cursorA = 86 /\ cursorB = 186 /\ textA = NoText /\ textB = NoText
    BY DEF Init, ViewInit
  <2> QED  BY <2>1, <2>2, <2>3 DEF ViewTypeOK, Columns, Rows
<1>4. CursorsApart /\ CursorAtLanding /\ TextsTell
  BY DEF Init, ViewInit, CursorsApart, CursorAtLanding, TextsTell
<1> QED  BY <1>1, <1>2, <1>3, <1>4 DEF ScreenInv

\* What a step that leaves the view alone keeps, and one that leaves the samples.
LEMMA ViewKept ==
  ASSUME UNCHANGED view, ViewTypeOK, CursorsApart, CursorAtLanding, TextsTell
  PROVE  (ViewTypeOK /\ CursorsApart /\ CursorAtLanding /\ TextsTell)'
<1>0. /\ UNCHANGED <<cursorA, cursorB, textA, textB>>
      /\ UNCHANGED <<changed, x, y, hit, landed>>
  BY DEF view, cursors
<1>1. ViewTypeOK'  BY <1>0, Zenon DEF ViewTypeOK
<1>2. CursorsApart' /\ TextsTell'  BY <1>0, Zenon DEF CursorsApart, TextsTell
<1>3. CursorAtLanding'  BY <1>0, Zenon DEF CursorAtLanding
<1> QED  BY <1>1, <1>2, <1>3

LEMMA SamplesKept ==
  ASSUME UNCHANGED samples, SamplesTypeOK, CurvesFromSamples
  PROVE  SamplesTypeOK' /\ CurvesFromSamples'
<1>0. UNCHANGED <<data1, data2, math, mode, raw1, raw2>>  BY DEF samples
<1>1. SamplesTypeOK'  BY <1>0, Zenon DEF SamplesTypeOK
<1>2. CurvesFromSamples'  BY <1>0, Zenon DEF CurvesFromSamples
<1> QED  BY <1>1, <1>2

LEMMA SceneKept == ASSUME UNCHANGED scene, SceneOK PROVE SceneOK'
BY Zenon DEF SceneOK

LEMMA CaptureInv == ASSUME ScreenInv, Capture PROVE ScreenInv'
<1>1. SceneOK' /\ (ViewTypeOK /\ CursorsApart /\ CursorAtLanding /\ TextsTell)'
  BY SceneKept, ViewKept DEF Capture, ScreenInv
<1>2. CASE \E raw \in scene.raws1 : Capture1(raw)
  <2>1. PICK raw \in scene.raws1 : Capture1(raw)  BY <1>2
  <2>2. raw \in 0..255  BY <2>1, SMTT(30) DEF ScreenInv, SceneOK
  <2>3. Sample(raw) \in -98..98  BY <2>2, SampleOnScreen
  <2> QED  BY <1>1, <2>1, <2>2, <2>3
           DEF Capture1, ScreenInv, SamplesTypeOK, CurvesFromSamples
<1>3. CASE \E raw \in scene.raws2 : Capture2(raw)
  <2>1. PICK raw \in scene.raws2 : Capture2(raw)  BY <1>3
  <2>2. raw \in 0..255  BY <2>1 DEF ScreenInv, SceneOK
  <2>3. Sample(raw) \in -98..98  BY <2>2, SampleOnScreen
  <2> QED  BY <1>1, <2>1, <2>2, <2>3
           DEF Capture2, ScreenInv, SamplesTypeOK, CurvesFromSamples
<1> QED  BY <1>2, <1>3 DEF Capture

\* The math curve, of any mode.
LEMMA MathOnScreen ==
  ASSUME SamplesTypeOK, NEW m \in 0..2
  PROVE  MathPoint(m) \in -98..98
<1>1. Exact(m) \in Int
  <2>1. data1 \in Int /\ data2 \in Int  BY DEF SamplesTypeOK
  <2> QED  BY <2>1 DEF Exact
<1>2. Int8(Exact(m)) \in Int  BY <1>1, Int8Integer
<1>3. Limited(Int8(Exact(m))) \in -98..98  BY <1>2, LimitedOnScreen
<1> QED  BY <1>3 DEF SamplesTypeOK, MathPoint

LEMMA EdgeSamples ==
  ASSUME SamplesTypeOK, CurvesFromSamples, EdgeMath \/ EdgeOther
  PROVE  SamplesTypeOK' /\ CurvesFromSamples'
<1>1. (mode + 1) % 3 \in 0..2  BY DEF SamplesTypeOK
<1>2. CASE EdgeMath
  BY <1>1, <1>2, MathOnScreen DEF EdgeMath, SamplesTypeOK, CurvesFromSamples
<1>3. CASE EdgeOther
  <2>1. mode \in 0..2  BY DEF SamplesTypeOK
  <2> QED  BY <1>3, <2>1, MathOnScreen DEF EdgeOther, SamplesTypeOK, CurvesFromSamples
<1> QED  BY <1>2, <1>3

\* MoveCursor: one cursor goes to the row, the other stays elsewhere.
LEMMA Moves ==
  ASSUME ViewTypeOK, CursorsApart, TextsTell, NEW row \in Rows, MoveCursor(row)
  PROVE  /\ {cursorA', cursorB'} \subseteq Rows
         /\ {textA', textB'} \subseteq {NoText} \cup Readings
         /\ CursorsApart' /\ TextsTell'
         /\ \/ cursorA' = row /\ textA' = Reading(row)
            \/ cursorB' = row /\ textB' = Reading(row)
<1> USE DEF ViewTypeOK, CursorsApart, TextsTell
<1>0. row \in Int /\ cursorA \in Int /\ cursorB \in Int  BY DEF Rows
<1>1. Reading(row) \in Readings  BY ReadingRange
<1>2. CASE Abs(cursorA - row) < Abs(cursorB - row)
  <2>1. cursorB # row  BY <1>0, <1>2 DEF Abs
  <2> QED  BY <1>1, <1>2, <2>1 DEF MoveCursor
<1>3. CASE ~(Abs(cursorA - row) < Abs(cursorB - row))
  <2>1. cursorA # row  BY <1>0, <1>3 DEF Abs
  <2> QED  BY <1>1, <1>3, <2>1 DEF MoveCursor
<1> QED  BY <1>2, <1>3

\* A cursor that has landed on a row is not moved from it by the same row.
LEMMA StaysAt ==
  ASSUME ViewTypeOK, CursorsApart, NEW row \in Rows, MoveCursor(row),
         \/ cursorA = row /\ textA = Reading(row)
         \/ cursorB = row /\ textB = Reading(row)
  PROVE  UNCHANGED cursors
<1> USE DEF CursorsApart, MoveCursor, cursors
<1>0. row \in Int /\ cursorA \in Int /\ cursorB \in Int  BY DEF ViewTypeOK, Rows
<1>1. CASE cursorA = row /\ textA = Reading(row)
  <2>1. Abs(cursorA - row) < Abs(cursorB - row)  BY <1>0, <1>1 DEF Abs
  <2> QED  BY <1>1, <2>1
<1>2. CASE cursorB = row /\ textB = Reading(row)
  <2>1. ~(Abs(cursorA - row) < Abs(cursorB - row))  BY <1>0, <1>2, SMTT(30) DEF Abs
  <2> QED  BY <1>2, <2>1
<1> QED  BY <1>1, <1>2, SMTT(30)

\* The ordinates of the panel fit in touchY.
LEMMA PanelWord == ASSUME NEW n \in 0..240 PROVE n \in Word
BY SMTT(30) DEF Word

\* touchY is a number.
LEMMA WordInt == ASSUME NEW n \in Word PROVE n \in Int
BY SMTT(30) DEF Word

LEMMA TouchInv ==
  ASSUME ScreenInv, NEW px \in Columns, NEW py \in 0..240, Touch(px, py)
  PROVE  (ViewTypeOK /\ CursorsApart /\ CursorAtLanding /\ TextsTell)'
<1>0. x' = px /\ y' = py /\ changed' = TRUE /\ py \in Int  BY DEF Touch
<1>1. CASE changed
  <2>1. UNCHANGED <<cursorA, cursorB, textA, textB>> /\ UNCHANGED <<changed, hit, landed>>
    BY <1>1 DEF Touch, ScreenInv, ViewTypeOK, cursors
  <2>2. ViewTypeOK'
    <3>1. x' \in Columns /\ y' \in Word  BY <1>0, PanelWord
    <3> QED  BY <2>1, <3>1, Zenon DEF ScreenInv, ViewTypeOK
  <2>3. CursorsApart' /\ TextsTell'
    BY <2>1, Zenon DEF ScreenInv, CursorsApart, TextsTell
  <2>4. CursorAtLanding'  BY <2>1, Zenon DEF ScreenInv, CursorAtLanding
  <2> QED  BY <2>2, <2>3, <2>4
<1>2. CASE ~changed
  <2>0. ViewTypeOK /\ CursorsApart /\ TextsTell  BY DEF ScreenInv
  <2>p. /\ x' \in Columns /\ y' \in Word /\ changed' \in BOOLEAN
        /\ landed' \in Panel \cup {Nowhere}
    <3>1. landed' = <<px, py>>  BY <1>2 DEF Touch
    <3>2. landed' \in Panel  BY <3>1 DEF Panel
    <3>3. y' \in Word  BY <1>0, PanelWord
    <3> QED  BY <1>0, <3>2, <3>3
  <2>1. landed' = <<px, py>> /\ landed'[2] = py /\ hit' \subseteq Buttons
    BY <1>2 DEF Touch, Edge
  <2>2. CASE py > 36 /\ py < 236
    <3>1. MoveCursor(py) /\ py \in Rows  BY <1>0, <1>2, <2>2 DEF Touch, Edge, Rows
    <3>2. /\ {cursorA', cursorB'} \subseteq Rows
          /\ {textA', textB'} \subseteq {NoText} \cup Readings
          /\ CursorsApart' /\ TextsTell'
          /\ \/ cursorA' = py /\ textA' = Reading(py)
             \/ cursorB' = py /\ textB' = Reading(py)
      BY <2>0, <3>1, Moves
    <3>3. CursorAtLanding'  BY <2>1, <3>2 DEF CursorAtLanding
    <3>4. ViewTypeOK'  BY <2>p, <2>1, <3>2 DEF ViewTypeOK
    <3> QED  BY <3>2, <3>3, <3>4
  <2>3. CASE ~(py > 36 /\ py < 236)
    <3>1. UNCHANGED cursors  BY <1>2, <2>3 DEF Touch, Edge
    <3>2. CursorAtLanding'  BY <2>1, <2>3 DEF CursorAtLanding
    <3>3. ViewTypeOK'  BY <2>0, <2>p, <2>1, <3>1, Zenon DEF cursors, ViewTypeOK
    <3>4. CursorsApart' /\ TextsTell'
      BY <2>0, <3>1, Zenon DEF cursors, CursorsApart, TextsTell
    <3> QED  BY <3>2, <3>3, <3>4
  <2> QED  BY <2>2, <2>3
<1> QED  BY <1>1, <1>2

LEMMA NoTouchInv ==
  ASSUME ScreenInv, NoTouch
  PROVE  (ViewTypeOK /\ CursorsApart /\ CursorAtLanding /\ TextsTell)'
<1> USE DEF NoTouch
<1>0. CursorAtLanding' /\ y \in Int
  <2>1. CursorAtLanding'  BY DEF CursorAtLanding
  <2>2. y \in Word  BY DEF ScreenInv, ViewTypeOK
  <2> QED  BY <2>1, <2>2, WordInt
<1>t. ViewTypeOK /\ CursorsApart /\ TextsTell  BY DEF ScreenInv
<1>s. changed' \in BOOLEAN /\ UNCHANGED <<x, y, landed>>  OBVIOUS
<1>k. ASSUME UNCHANGED cursors, hit' \subseteq Buttons
      PROVE  ViewTypeOK' /\ CursorsApart' /\ TextsTell'
  <2>1. UNCHANGED <<cursorA, cursorB, textA, textB>>  BY <1>k DEF cursors
  <2>2. ViewTypeOK'  BY <1>t, <1>s, <1>k, <2>1, Zenon DEF ViewTypeOK
  <2> QED  BY <1>t, <2>1, <2>2, Zenon DEF CursorsApart, TextsTell
<1>1. CASE ~changed
  <2>1. UNCHANGED cursors /\ hit' = hit  BY <1>1
  <2>2. hit' \subseteq Buttons  BY <1>t, <2>1, Zenon DEF ViewTypeOK
  <2> QED  BY <1>0, <1>k, <2>1, <2>2
<1>2. CASE changed /\ y > 36 /\ y < 236
  <2>1. MoveCursor(y) /\ y \in Rows /\ hit' \subseteq Buttons
    BY <1>0, <1>2 DEF Edge, Rows
  <2>2. /\ {cursorA', cursorB'} \subseteq Rows
        /\ {textA', textB'} \subseteq {NoText} \cup Readings
        /\ CursorsApart' /\ TextsTell'
    BY <1>t, <2>1, Moves
  <2>3. ViewTypeOK'  BY <1>t, <1>s, <2>1, <2>2, Zenon DEF ViewTypeOK
  <2> QED  BY <1>0, <2>2, <2>3
<1>3. CASE changed /\ ~(y > 36 /\ y < 236)
  <2>1. UNCHANGED cursors /\ hit' \subseteq Buttons  BY <1>3 DEF Edge
  <2> QED  BY <1>0, <1>k, <2>1
<1> QED  BY <1>1, <1>2, <1>3

LEMMA TurnInv == ASSUME ScreenInv, Turn PROVE ScreenInv'
<1>1. SceneOK'  BY SceneKept DEF Turn, ScreenInv
<1>2. SamplesTypeOK' /\ CurvesFromSamples'
  <2>1. CASE UNCHANGED samples
    BY <2>1, SamplesKept DEF ScreenInv
  <2>2. CASE EdgeMath \/ EdgeOther  BY <2>2, EdgeSamples DEF ScreenInv
  <2> QED  BY <2>1, <2>2 DEF Turn
<1>3. (ViewTypeOK /\ CursorsApart /\ CursorAtLanding /\ TextsTell)'
  <2>1. CASE NoTouch  BY <2>1, NoTouchInv
  <2>2. ASSUME NEW p \in scene.touches, Touch(p[1], p[2])
        PROVE  (ViewTypeOK /\ CursorsApart /\ CursorAtLanding /\ TextsTell)'
    <3>1. p \in Panel  BY DEF ScreenInv, SceneOK
    <3>2. p[1] \in Columns /\ p[2] \in 0..240  BY <3>1 DEF Panel
    <3> QED  BY <2>2, <3>2, TouchInv
  <2> QED  BY <2>1, <2>2 DEF Turn
<1> QED  BY <1>1, <1>2, <1>3 DEF ScreenInv

LEMMA NextInv == ScreenInv /\ [Next]_vars => ScreenInv'
<1> SUFFICES ASSUME ScreenInv, [Next]_vars PROVE ScreenInv'  OBVIOUS
<1>1. CASE UNCHANGED vars
  BY <1>1, SceneKept, SamplesKept, ViewKept DEF vars, ScreenInv
<1> QED  BY <1>1, CaptureInv, TurnInv DEF Next

-----------------------------------------------------------------------------
(* The theorems.                                                            *)

\* The invariant of the screen: the cursors never meet, and one of them is where
\* the finger landed until it leaves.
THEOREM ScreenInvariant == Spec => []ScreenInv
BY InitInv, NextInv, PTL DEF Spec

\* main.c:182 and scope.c:96: no touch puts a cursor off the virtual screen, no sample
\* a point of a curve.
THEOREM StaysOnScreen == Spec => []ScreenTypeOK
<1>1. ScreenInv => ScreenTypeOK  BY DEF ScreenInv, ScreenTypeOK
<1> QED  BY <1>1, ScreenInvariant, PTL

\* A cursor on a point of a curve reads the voltage of its sample to 40 mV, for each
\* of the 256 samples of both channels.
THEOREM SampleIsRead == Spec => []CursorReadsSample
<1>1. ScreenInv => CursorReadsSample
  BY ReadBack DEF ScreenInv, SamplesTypeOK, CurvesFromSamples, CursorReadsSample
<1> QED  BY <1>1, ScreenInvariant, PTL

\* A cursor's text is the voltage of its row.
THEOREM TextsAreTrue == Spec => []TextsTell
<1>1. ScreenInv => TextsTell  BY DEF ScreenInv
<1> QED  BY <1>1, ScreenInvariant, PTL

\* A step of the spec is one of the view, or leaves it alone.
LEMMA ViewSteps ==
  ASSUME Next, ScreenInv, view' # view
  PROVE  \/ NoTouch
         \/ \E p \in Panel : Touch(p[1], p[2])
<1>1. Turn  BY DEF Next, Capture
<1>2. scene.touches \subseteq Panel  BY DEF ScreenInv, SceneOK
<1> QED  BY <1>1, <1>2, Zenon DEF Turn

\* main.c:182: the release works on the same coordinates again, and finds the cursor
\* of the press already there.
THEOREM ReleaseRepeatsNothing == Spec => ReleaseIsIdle
<1>1. ScreenInv /\ [Next]_vars =>
        [changed /\ ~changed' /\ landed = <<x, y>> => UNCHANGED cursors]_view
  <2> SUFFICES ASSUME ScreenInv, Next, view' # view,
                      changed, ~changed', landed = <<x, y>>
               PROVE  UNCHANGED cursors
    BY DEF vars
  <2>1. NoTouch  BY ViewSteps DEF Touch
  <2>2. landed[2] = y /\ landed # Nowhere /\ y \in Int
    <3>1. x \in Columns /\ y \in Word  BY DEF ScreenInv, ViewTypeOK
    <3>2. y \in Int  BY <3>1, WordInt
    <3>3. <<x, y>> # Nowhere  BY <3>1, <3>2 DEF Nowhere, Columns
    <3> QED  BY <3>2, <3>3
  <2>3. CASE y > 36 /\ y < 236
    <3>1. MoveCursor(y) /\ y \in Rows  BY <2>1, <2>2, <2>3 DEF NoTouch, Edge, Rows
    <3>2. \/ cursorA = y /\ textA = Reading(y)
          \/ cursorB = y /\ textB = Reading(y)
      BY <2>2, <2>3 DEF ScreenInv, CursorAtLanding
    <3> QED  BY <3>1, <3>2, StaysAt DEF ScreenInv
  <2>4. CASE ~(y > 36 /\ y < 236)  BY <2>1, <2>4 DEF NoTouch, Edge
  <2> QED  BY <2>3, <2>4
<1> QED  BY <1>1, ScreenInvariant, PTL DEF Spec, ReleaseIsIdle

\* viewcontroller.c:44: the buttons leave a gap between them and none reaches
\* the virtual screen, so that a press has one effect.
THEOREM OneEffectOnly == Spec => OneEffect
<1>1. ScreenInv /\ [Next]_vars =>
        [~changed /\ changed' =>
           Cardinality(hit') <= 1 /\ (hit' # {} => UNCHANGED cursors)]_view
  <2> SUFFICES ASSUME ScreenInv, Next, view' # view, ~changed, changed'
               PROVE  Cardinality(hit') <= 1 /\ (hit' # {} => UNCHANGED cursors)
    BY DEF vars
  <2>1. PICK p \in Panel : Touch(p[1], p[2])
    BY ViewSteps DEF NoTouch
  <2>2. p[1] \in Int /\ p[2] \in Int  BY <2>1 DEF Panel, Columns
  <2>3. Edge(TRUE, p[1], p[2])  BY <2>1 DEF Touch
  <2>4. hit' = {j \in Buttons : OnButton(j, p[1], p[2])}  BY <2>3 DEF Edge
  <2>5. \A i, j \in hit' : i = j  BY <2>2, <2>4 DEF Buttons, OnButton
  <2>6. Cardinality(hit') <= 1
    <3>1. CASE hit' = {}  BY <3>1, FS_EmptySet
    <3>2. CASE hit' # {}
      <4>1. PICK j \in hit' : TRUE  BY <3>2
      <4>2. hit' = {j}  BY <2>5, <4>1
      <4> QED  BY <4>2, FS_Singleton
    <3> QED  BY <3>1, <3>2
  <2>7. ASSUME hit' # {}  PROVE UNCHANGED cursors
    <3>1. ~(p[2] > 36)  BY <2>2, <2>4, <2>7 DEF Buttons, OnButton
    <3> QED  BY <2>3, <3>1 DEF Edge
  <2> QED  BY <2>6, <2>7
<1> QED  BY <1>1, ScreenInvariant, PTL DEF Spec, OneEffect
=============================================================================
