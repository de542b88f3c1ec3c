------------------------------ MODULE MCStress ------------------------------
(* The instance of Stress for TLC.                                         *)
EXTENDS Stress
=============================================================================
