---------------------------- MODULE MCScreenshot ----------------------------
(* A picture of a header and two pieces, on a card with room for any part of *)
(* it, and presses enough to link one driver more than the table holds, and  *)
(* another.  The byte is that of SD_Driver in Debug/output.map:37725.  A name *)
(* has 12 letters before its dot, as in the program, or 8, as many as fit.   *)
EXTENDS SdScreenshot

AnyRoom == 0..3
AllRoom == {3}

ProgramBodies == {12}
SomeBodies    == {8, 12}
=============================================================================
