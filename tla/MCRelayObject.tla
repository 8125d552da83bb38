--------------------------- MODULE MCRelayObject ---------------------------
(* Small instances of RelayObject for TLC. *)
EXTENDS RelayObject, TLC

CONSTANTS dashboard, manifest

\* A publisher with and without getManifest.
MCCapability == {Resource, {dashboard}} \cap SUBSET Resource

Symmetry == Permutations(Socket) \cup Permutations(Fetch)
=============================================================================
