--------------------------- MODULE MCCloseWatcher ---------------------------
(***************************************************************************)
(* Instances of CloseWatcher for TLC.                                      *)
(***************************************************************************)
EXTENDS CloseWatcher, TLC

SelfOnly == {"self"}
AnyAim   == {"self", "other"}

\* Pids that are neither skipped nor refusing are interchangeable in the
\* safety runs, and so are the workers.
Symmetry == Permutations(Pids \ (Skipped \cup Refusing)) \cup Permutations(Workers)
=============================================================================
