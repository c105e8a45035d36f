-------------------------- MODULE MCControllerAnalysis --------------------------
(***************************************************************************)
(* Instances of ControllerAnalysis for TLC.                                *)
(***************************************************************************)
EXTENDS ControllerAnalysis, TLC

TwoTypes == 1 :> "hdr_detect" @@ 2 :> "analysis"

================================================================================
