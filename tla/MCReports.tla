------------------------------- MODULE MCReports -------------------------------
(* Values of Reports' constants for TLC.                                   *)
EXTENDS Reports, TLC

CONSTANTS r1, r2, m1

OneMail == m1 :> r1
===============================================================================
