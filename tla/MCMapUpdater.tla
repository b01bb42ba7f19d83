---------------------------- MODULE MCMapUpdater ----------------------------
(* Instances of MapUpdater for TLC.  Workers are interchangeable, and so    *)
(* are maps: the order of i_maps is no part of the model.                  *)
EXTENDS MapUpdater, TLC

WorkerMapSymmetry == Permutations(Workers) \cup Permutations(Maps)
=============================================================================
