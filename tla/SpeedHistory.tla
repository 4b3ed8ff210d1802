---------------------------- MODULE SpeedHistory ----------------------------
(***************************************************************************)
(* SpeedCalc with history variables for what the comments of range.c say   *)
(* an estimate is made of.                                                 *)
(***************************************************************************)
EXTENDS SpeedCalc

VARIABLES
  window,    (* Sum of the readings of the current or last window.         *)
  first,     (* First sample of the current estimate.                      *)
  approach   (* From the first to the last sample of the last estimate.    *)

historyVars == <<window, first, approach>>

HInit == Init /\ window = 0 /\ first = 0 /\ approach = 0

HReading(r) ==
  /\ Reading(r)
  /\ window' = IF average_count = 0 THEN r ELSE window + r
  /\ first' = IF sample_count = 0 THEN sample_prev' ELSE first
  /\ approach' = IF passes' # passes THEN first' - sample_prev' ELSE approach

HNext ==
  \/ (Command \/ Abandon) /\ UNCHANGED historyVars
  \/ \E r \in Readings : HReading(r)
  \/ Restart /\ window' = 0 /\ first' = 0 /\ approach' = 0

HSpec == HInit /\ [][HNext]_<<vars, historyVars>>

(* Line 339 of range.c: one sample is the average of AVERAGE_NUM readings. *)
SampleIsWindowAverage ==
  average_count = 0 => micro_average = window \div AverageNum

(* Line 338 of range.c: the average is the mean movement over the section  *)
(* that has been sampled.                                                  *)
AverageIsOfThisEstimate ==
  passes > 0 => average = approach \div (SampleNum - 1)
=============================================================================
