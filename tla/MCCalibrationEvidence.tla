------------------------ MODULE MCCalibrationEvidence ------------------------
(* With two monitoring rows the drift window grows; with two calibration rows the    *)
(* order statistic chooses while two replicas of different software race; with a     *)
(* frozen-test row there is an outcome nobody may see.                               *)
EXTENDS CalibrationEvidence

CONSTANTS p1, p2

Upgraded == [p \in {p1, p2} |-> IF p = p1 THEN 1 ELSE 2]

MCScenarios ==
    <<[split |-> <<"calibration", "monitoring", "calibration", "monitoring">>,
       deployed |-> {p1}, software |-> Upgraded,
       early |-> {4}, misfit |-> {4}, corrected |-> {}, touches |-> 0],
      [split |-> <<"calibration", "monitoring", "calibration">>,
       deployed |-> {p1, p2}, software |-> Upgraded,
       early |-> {}, misfit |-> {3}, corrected |-> {}, touches |-> 0],
      [split |-> <<"calibration", "frozen_test", "calibration", "monitoring">>,
       deployed |-> {p1}, software |-> Upgraded,
       early |-> {2}, misfit |-> {}, corrected |-> {1}, touches |-> 1]>>
=============================================================================
