----------------------- MODULE MCConnectionLifecycle -----------------------
(* Small instances of ConnectionLifecycle for TLC.                         *)
EXTENDS ConnectionLifecycle, TLC

\* Helpers are alike, and so are session ids.
LifecycleSymmetry == Permutations(Helpers) \cup Permutations(Sessions)
=============================================================================
