------------------------------ MODULE MCWifiRoam ------------------------------
(* WifiRoam for a few networks.                                              *)
EXTENDS WifiRoam
=============================================================================
