--------------------------- MODULE MCStageTwoWatch ---------------------------
(* One watch, of an installation or resumed, over one board. *)
EXTENDS StageTwoWatch
=============================================================================
