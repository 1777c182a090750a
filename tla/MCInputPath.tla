----------------------------- MODULE MCInputPath -----------------------------
(* A UPS of one-packet reports and one whose reports fill two packets or not. *)
EXTENDS InputPath

MCDevices ==
    {[lengths |-> {1}, covered |-> FALSE, pause |-> 3],
     [lengths |-> {1}, covered |-> TRUE, pause |-> 3],
     [lengths |-> {3}, covered |-> TRUE, pause |-> 2],
     [lengths |-> {4}, covered |-> TRUE, pause |-> 2]}

==============================================================================
