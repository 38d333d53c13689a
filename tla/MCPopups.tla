----------------------------- MODULE MCPopups -----------------------------
(* Values of the constants of Popups, and the symmetry of sessions.        *)
EXTENDS Popups, TLC

Symmetry == Permutations(Sessions)
============================================================================
