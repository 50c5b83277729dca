---------------------------- MODULE MCUpdateTasks ----------------------------
(* The objects are alike: only the order in which they act tells them apart.  *)
EXTENDS UpdateTasks, TLC

AnyOrder == Permutations(Objs)
==============================================================================
