--------------------------- MODULE MCCountryCache ---------------------------
(* A small instance of CountryCache for TLC.                               *)
EXTENDS CountryCache, TLC

Commands == Permutations(Processes)
=============================================================================
