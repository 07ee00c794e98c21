---------------------------- MODULE MCColabFleet ----------------------------
(* Model-checking instance of ColabFleet.                                  *)
EXTENDS ColabFleet, TLC

\* Jobs, sessions and slots are interchangeable: sound for the safety run only.
Symmetry == Permutations(Jobs) \union Permutations(Workers) \union Permutations(Conns)
=============================================================================
