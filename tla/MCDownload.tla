----------------------------- MODULE MCDownload -----------------------------
(***************************************************************************)
(* Model-checking instances of Download.                                    *)
(***************************************************************************)
EXTENDS Download

MCActors == Threads \cup {UI}
=============================================================================
