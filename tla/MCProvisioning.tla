--------------------------- MODULE MCProvisioning ---------------------------
(* Provisioning with two countries, one of them the default, and one list of *)
(* networks: no property tells two lists apart, only some from none.         *)
EXTENDS Provisioning

\* Everything can go wrong, or timers can be made: with resets and no window, and
\* with a window.
MCSites == {[window |-> TRUE, faults |-> {"nvs", "timer", "power", "reset"}],
            [window |-> FALSE, faults |-> {"nvs", "power", "reset"}],
            [window |-> TRUE, faults |-> {"nvs", "power"}]}
=============================================================================
