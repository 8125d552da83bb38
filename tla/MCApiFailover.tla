---------------------------- MODULE MCApiFailover ----------------------------
(* ApiFailover on endpoint lists of every mixture of healths; times are in   *)
(* quarters of a second.                                                     *)
EXTENDS ApiFailover
=============================================================================
