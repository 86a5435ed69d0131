---------------------------- MODULE MCAcquisition ----------------------------
(* The acquisition of both channels, for model checking.                          *)
EXTENDS ScopeAcquisition
=============================================================================
