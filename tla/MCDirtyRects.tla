---------------------------- MODULE MCDirtyRects ----------------------------
(* A surface just large enough for an area to be split on all four sides.    *)
EXTENDS DirtyRects

MCDrawChanges == {Corner(0, 0, 1, 1), Corner(0, 1, 3, 2)}
=============================================================================
