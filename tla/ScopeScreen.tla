----------------------------- MODULE ScopeScreen -----------------------------
(***************************************************************************)
(* What the user sees and touches: the samples of a column, the menu bar   *)
(* and the cursors, with the handlers that convert samples between any two *)
(* turns of main()'s loop.  An edge of the touch moves the cursors, then   *)
(* computes the math curve of the mode the buttons have left.              *)
(***************************************************************************)
EXTENDS ScopeSamples, ScopeView

CONSTANT Scenes   \* what may be converted and touched: the samples raws1 and raws2 of
                  \* the two ADCs, the points touches = {<<x, y>>, ...} of the panel and
                  \* the ordinates garbage of a touchY nobody has written

ASSUME ScenesAssumption ==
  Scenes \subseteq [raws1 : SUBSET (0..255), raws2 : SUBSET (0..255),
                    touches : SUBSET Panel, garbage : SUBSET Word]

VARIABLE scene

vars == <<scene, samples, view>>

MathButton == 3

Init == scene \in Scenes /\ SamplesInit /\ ViewInit(scene.garbage)

\* The handlers of the streams.
Capture == /\ \/ \E raw \in scene.raws1 : Capture1(raw)
              \/ \E raw \in scene.raws2 : Capture2(raw)
           /\ UNCHANGED <<scene, view>>

\* A turn of the loop: nothing but an edge of the touch has an effect.
Turn ==
  /\ NoTouch \/ \E p \in scene.touches : Touch(p[1], p[2])
  /\ IF changed' = changed THEN UNCHANGED samples
     ELSE IF MathButton \in hit' THEN EdgeMath ELSE EdgeOther
  /\ UNCHANGED scene

Next == Capture \/ Turn

Spec == Init /\ [][Next]_vars

-----------------------------------------------------------------------------
\* Whatever is converted and touched, the points of the curves and the cursors
\* stay on the virtual screen.
ScreenTypeOK == SamplesTypeOK /\ ViewTypeOK
=============================================================================
