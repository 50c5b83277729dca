------------------------------ MODULE FlatHeap ------------------------------
(***************************************************************************)
(* What a VHeap promises its caller (src/vheap.h): a growing array of      *)
(* bytes.  Alloc returns an offset at the end of the array, Write replaces *)
(* a range of bytes, Read returns a range: every byte that was written     *)
(* reads back as it was last written, a byte that was never written reads  *)
(* as anything.                                                            *)
(*                                                                         *)
(* Blocks, the in-memory cache and the backing file do not exist here; the *)
(* module VHeap has them, and implements this one.                         *)
(***************************************************************************)
EXTENDS Integers, Sequences

CONSTANTS
  Byte,     (* The values a byte can have.                                 *)
  Unset     (* Marks a byte that was allocated and never written.          *)

VARIABLES
  used,     (* Number of bytes allocated so far.                           *)
  cells,    (* Contents: a function from 0 .. used - 1.                    *)
  call,     (* The call in progress: its kind and, of a Read, its range.   *)
  answer    (* The bytes a Read returned, until the next call.             *)

flatVars == <<used, cells, call, answer>>

Offsets == 0 .. used - 1
Call(kind, first, past) == [kind |-> kind, first |-> first, past |-> past]
Idle == Call("idle", 0, 0)

FlatInit ==
  /\ used = 0
  /\ cells = [a \in {} |-> Unset]
  /\ call = Idle
  /\ answer = <<>>

(* The new bytes start unset; the old ones keep their contents.            *)
FlatAlloc ==
  /\ call = Idle
  /\ used' >= used
  /\ cells' = [a \in 0 .. used' - 1 |-> IF a < used THEN cells[a] ELSE Unset]
  /\ answer' = <<>>
  /\ UNCHANGED call

(* One write replaces one contiguous range of allocated bytes.             *)
FlatWrite ==
  \E first, past \in 0 .. used :
    /\ call = Idle /\ call' = Call("write", 0, 0)
    /\ first <= past
    /\ cells' \in [Offsets -> Byte \cup {Unset}]
    /\ \A a \in Offsets :
         IF a \in first .. past - 1 THEN cells'[a] \in Byte
                                    ELSE cells'[a] = cells[a]
    /\ answer' = <<>>
    /\ UNCHANGED used

(* One read asks for one contiguous range.                                 *)
FlatRead ==
  \E first, past \in 0 .. used :
    /\ call = Idle /\ call' = Call("read", first, past)
    /\ first <= past
    /\ answer' = <<>>
    /\ UNCHANGED <<used, cells>>

(* A call returns, a Read with the bytes of its range.                     *)
FlatReturn ==
  /\ call # Idle /\ call' = Idle
  /\ IF call.kind = "read"
       THEN /\ Len(answer') = call.past - call.first
            /\ \A i \in 1 .. Len(answer') :
                 cells[call.first + i - 1] \in {answer'[i], Unset}
       ELSE UNCHANGED answer
  /\ UNCHANGED <<used, cells>>

FlatNext == FlatAlloc \/ FlatWrite \/ FlatRead \/ FlatReturn

FlatSpec == FlatInit /\ [][FlatNext]_flatVars
=============================================================================
