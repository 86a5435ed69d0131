------------------------------ MODULE MCCurves ------------------------------
(* The curves over a few START presses, for model checking.                 *)
EXTENDS ScopeCurves
=============================================================================
