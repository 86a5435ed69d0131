------------------------------ MODULE MCScreen ------------------------------
(* Three scenes.  In the first every sample of the ADCs is converted.  In    *)
(* the second the user changes the mode of the math curve and moves cursors  *)
(* while samples at both ends, at the middle and between them come in.  In   *)
(* the third they touch points on, between and at the edges of the buttons   *)
(* and of the virtual screen, on the cursors' first rows, between them and   *)
(* at equal distance, with any garbage in touchY before.                     *)
EXTENDS ScopeScreen

Samples == [raws1 |-> 0..255, raws2 |-> {0, 3, 126, 129, 255},
            touches |-> {}, garbage |-> {0}]
Modes   == [raws1 |-> {0, 64, 126, 129, 192, 255}, raws2 |-> {0, 64, 126, 129, 192, 255},
            touches |-> {<<190, 10>>, <<190, 100>>}, garbage |-> {0}]
Touches == [raws1 |-> {}, raws2 |-> {},
            touches |-> ({5, 55, 60, 65, 295, 320} \X {4, 5, 27, 28})
                        \cup ({5, 160} \X {36, 37, 86, 87, 136, 186, 200, 235, 236}),
            garbage |-> {0, 100, 65535}]
Ends    == [Modes EXCEPT !.raws1 = {0, 128, 255}, !.raws2 = {0, 128, 255}]

ThreeScenes == {Samples, Modes, Touches}
EndScene    == {Ends}
=============================================================================
