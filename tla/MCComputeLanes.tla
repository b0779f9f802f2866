--------------------------- MODULE MCComputeLanes ---------------------------
(***************************************************************************)
(* Small instances of ComputeLanes.  A simulation of 5 bytes is over the   *)
(* limit of 4 on its own: it runs in an idle process and waits behind a    *)
(* toolpath job.  The usage probe reads 2.                                 *)
(***************************************************************************)
EXTENDS ComputeLanes

HeavyLanes   == {"toolpath", "analysis"}
LightLanes   == {"reach", "job"}
JobLane      == {"job"}

NoBytes     == {}
MCLimits    == {4}
MCReadings  == {2}
NoProbe     == {None}
OneEstimate == {5}
=============================================================================
