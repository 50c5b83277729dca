----------------------------- MODULE MCLoadList -----------------------------
(***************************************************************************)
(* Model-checking instances of LoadList.                                    *)
(***************************************************************************)
EXTENDS LoadList

MCActors == {UI, Loader}
=============================================================================
