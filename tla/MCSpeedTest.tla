---------------------------- MODULE MCSpeedTest ----------------------------
(* Instances of SpeedTest for TLC: the sequences of tests main runs.       *)
EXTENDS SpeedTest, TLC

MCDefaultPlans  == {<<"UPLOAD", "DOWNLOAD">>}
MCOptionPlans   == {<<"DOWNLOAD", "UPLOAD">>}
MCTidSymmetry   == Permutations(Tid)
=============================================================================
