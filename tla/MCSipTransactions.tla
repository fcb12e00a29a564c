-------------------------- MODULE MCSipTransactions --------------------------
(* Times for TLC, in the order of the real ones but for T4 (T1 = 0.5 s,        *)
(* T2 = 4 s, 32 s, 180 s; the 200 OK goes out again after 1, 1, 2 and then     *)
(* every 4 s).                                                                 *)
EXTENDS SipTransactions

GapMC == <<1, 1, 2, 2>>

\* What LegsAgree and AckedCallSurvives rest on is so for these values.
ASSUME FewFaults

\* A run has two faults, or one and a CANCEL.
Disturbed == faults + (IF cancel.client = Unused THEN 0 ELSE 1) <= MaxFaults
=============================================================================
