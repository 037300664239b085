-------------------------- MODULE MCSpeedTestMain --------------------------
(* Instances of SpeedTestMain for TLC: four servers, two of them equally   *)
(* far, in another order from (0, 0), and short command lines.             *)
EXTENDS SpeedTestMain

MCServer == {"near", "middle", "far", "tie"}
MCList   == <<"far", "near", "tie", "middle">>
MCDist   == [client |-> [near |-> 1, middle |-> 2, tie |-> 2, far |-> 3],
             zero   |-> [near |-> 3, middle |-> 2, tie |-> 2, far |-> 1]]
MCTimes  == 1 .. 2

MCArgvs ==
  {<<>>} \cup {<<a>> : a \in Options} \cup {<<a, b>> : a, b \in Options}
    \cup {<<"--upload_testing", "HTTPS", "--download_testing">>,
          <<"--server", "host", "--download_testing">>}
=============================================================================
