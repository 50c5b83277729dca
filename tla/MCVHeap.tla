------------------------------- MODULE MCVHeap -------------------------------
(* A small instance of VHeap: what its clients allocate, write and read in  *)
(* blocks of two bytes.                                                     *)
EXTENDS VHeap

MCAllocSizes == {0, 1, 4}

(* Inside a block, across one boundary, across two, and of no bytes.        *)
MCWrites == {<<0, <<0>>>>, <<0, <<1, 1, 0>>>>, <<1, <<1, 1, 0, 1>>>>, <<4, <<>>>>, <<4, <<1>>>>}
MCReads == {<<0, 5>>, <<1, 2>>, <<4, 1>>}
=============================================================================
