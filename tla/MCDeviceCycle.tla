---------------------------- MODULE MCDeviceCycle ----------------------------
(* DeviceCycle on its four configurations of staying connected.              *)
EXTENDS DeviceCycle

Build(release, window, endless) ==
    [forever |-> FALSE, release |-> release, window |-> window, endless |-> endless]

\* The default build and one whose portal has a window, with outages that end,
\* with endless outages and with a release that crashes, and the bring-up build.
MCBuilds == {Build("good", FALSE, TRUE), Build("good", FALSE, FALSE),
             Build("good", TRUE, FALSE), Build("bad", FALSE, TRUE), Build("none", FALSE, FALSE),
             [Build("good", FALSE, TRUE) EXCEPT !.forever = TRUE]}
CrashingBuilds == {Build("bad", FALSE, FALSE)}
=============================================================================
