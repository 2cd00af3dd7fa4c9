------------------------------- MODULE MCFCyc -------------------------------
(* FCyc for TLC: a handful of times and parameter settings.                *)
EXTENDS FCyc

MCCalibrations == {{20, 49, 60}, {20}}
=============================================================================
