------------------------------ MODULE MCBigFile ------------------------------
(* Instances of BigFile for TLC.  The source files are interchangeable: no  *)
(* definition orders them.                                                 *)
EXTENDS BigFile, TLC

NameSymmetry == Permutations(Names)
=============================================================================
