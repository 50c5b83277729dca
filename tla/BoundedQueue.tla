---------------------------- MODULE BoundedQueue ----------------------------
(***************************************************************************)
(* What kGUICommStack promises the thread that writes and the thread that   *)
(* reads: a first-in first-out queue with room for Room records.            *)
(***************************************************************************)
EXTENDS Integers, Sequences

CONSTANTS Record, Room

VARIABLES
  queue,  (* the records written and not yet read, oldest first             *)
  got     (* the record the last successful Read returned                   *)

QueueInit == queue = <<>> /\ got \in Record

(* Write returns true.                                                     *)
Put(v) ==
  /\ Len(queue) < Room
  /\ queue' = Append(queue, v)
  /\ UNCHANGED got

(* Read returns true.                                                      *)
Get ==
  /\ queue # <<>>
  /\ got' = Head(queue)
  /\ queue' = Tail(queue)

QueueNext == Get \/ \E v \in Record : Put(v)

QueueSpec == QueueInit /\ [][QueueNext]_<<queue, got>>
=============================================================================
