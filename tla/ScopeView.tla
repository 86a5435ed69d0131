------------------------------ MODULE ScopeView ------------------------------
(***************************************************************************)
(* What a touch of the panel does to the menu bar and to the two cursors:  *)
(* the part of main()'s loop from TS_Get_Touch() to the cursors.           *)
(*                                                                         *)
(* TS_Get_Touch() leaves the coordinates of the last touch in place when   *)
(* nothing touches the panel, and main() works on every edge, the release  *)
(* included.  Before the first touch they are whatever the stack held.     *)
(***************************************************************************)
EXTENDS ScopeScale, FiniteSets

VARIABLES changed,             \* the last value of the panel main() has seen
          x, y,                \* touchX, touchY
          cursorA, cursorB,    \* the rows of the cursors
          textA, textB,        \* their texts, as readings; NoText for "---"
          hit,                 \* the buttons the last edge pressed
          landed               \* history: where the finger landed last
cursors == <<cursorA, cursorB, textA, textB>>
view == <<changed, x, y, cursors, hit, landed>>

\* The pixels of the panel, a uint16_t, the rows of the virtual screen, and the
\* readings of a cursor there.
Columns  == 0..320
Panel    == Columns \X (0..240)
Word     == 0..65535
Rows     == 37..235
Readings == 0..330

NoText  == -1
Nowhere == <<-1, -1>>
Buttons == 0..4

\* touchY holds Garbage.  touchX is not initialised either, but no button is pressed by a release.
ViewInit(Garbage) ==
  /\ changed = TRUE /\ x = 0 /\ y \in Garbage
  /\ cursorA = 86 /\ cursorB = 186 /\ textA = NoText /\ textB = NoText
  /\ hit = {} /\ landed = Nowhere

\* Bug: the buttons touch one another.
OnButton_Wide(j, px, py) == /\ px >= 60 * j + 5 /\ px <= 60 * j + 5 + 60
                            /\ py >= 5 /\ py <= 5 + 22

\* virtual3DButton: five characters of 8x12 and a margin of 5 on each side.
OnButton(j, px, py) == /\ px >= 60 * j + 5 /\ px <= 60 * j + 5 + 50
                       /\ py >= 5 /\ py <= 5 + 22

\* Bugs: the farther cursor moves; the text of the other one is rewritten.
MoveCursor_Farther(row) ==
  IF Abs(cursorA - row) >= Abs(cursorB - row)
  THEN /\ cursorA' = row /\ textA' = Reading(row)
       /\ UNCHANGED <<cursorB, textB>>
  ELSE /\ cursorB' = row /\ textB' = Reading(row)
       /\ UNCHANGED <<cursorA, textA>>

MoveCursor_OtherText(row) ==
  IF Abs(cursorA - row) < Abs(cursorB - row)
  THEN /\ cursorA' = row /\ textB' = Reading(row)
       /\ UNCHANGED <<cursorB, textA>>
  ELSE /\ cursorB' = row /\ textB' = Reading(row)
       /\ UNCHANGED <<cursorA, textA>>

\* The nearest cursor moves, B when they are as near.
MoveCursor(row) ==
  IF Abs(cursorA - row) < Abs(cursorB - row)
  THEN /\ cursorA' = row /\ textA' = Reading(row)
       /\ UNCHANGED <<cursorB, textB>>
  ELSE /\ cursorB' = row /\ textB' = Reading(row)
       /\ UNCHANGED <<cursorA, textA>>

Edge(pressed, px, py) ==
  /\ hit' = {j \in Buttons : pressed /\ OnButton(j, px, py)}
  /\ IF py > 36 /\ py < 236 THEN MoveCursor(py) ELSE UNCHANGED cursors

\* One turn of the loop with a finger on the panel: an edge if it just landed.
Touch(px, py) ==
  /\ x' = px /\ y' = py /\ changed' = TRUE
  /\ IF changed THEN UNCHANGED <<cursors, hit, landed>>
                ELSE Edge(TRUE, px, py) /\ landed' = <<px, py>>

\* One turn without: an edge if the finger just left, or at the first turn.
NoTouch ==
  /\ changed' = FALSE /\ UNCHANGED <<x, y, landed>>
  /\ IF changed THEN Edge(FALSE, x, y) ELSE UNCHANGED <<cursors, hit>>

-----------------------------------------------------------------------------
(* Properties.                                                              *)

\* The cursors stay on the virtual screen, whatever the panel says.
ViewTypeOK ==
  /\ changed \in BOOLEAN /\ x \in Columns /\ y \in Word
  /\ {cursorA, cursorB} \subseteq Rows
  /\ {textA, textB} \subseteq {NoText} \cup Readings
  /\ hit \subseteq Buttons /\ landed \in Panel \cup {Nowhere}

\* The text of a cursor that has one is the voltage of the row it is on.
TextsTell == /\ textA # NoText => textA = Reading(cursorA)
             /\ textB # NoText => textB = Reading(cursorB)

\* The release repeats the work of the press with the same coordinates: when
\* the finger has not slid, it moves no cursor a second time, nor the other one.
ReleaseIsIdle ==
  [][changed /\ ~changed' /\ landed = <<x, y>> => UNCHANGED cursors]_view

\* A press does one thing: one button, or one cursor, or nothing.
OneEffect ==
  [][~changed /\ changed' =>
       Cardinality(hit') <= 1 /\ (hit' # {} => UNCHANGED cursors)]_view
=============================================================================
