------------------------------ MODULE CommStack ------------------------------
(***************************************************************************)
(* kGUICommStack (src/kgui.h): a ring between one writing and one reading   *)
(* thread, without a lock.  One slot always stays empty, so that a full     *)
(* ring differs from an empty one.  The writer stores its record before it  *)
(* moves m_writetail, the reader copies its record before it moves          *)
(* m_readhead; each only reads the other's index.                          *)
(***************************************************************************)
EXTENDS Integers, Sequences

CONSTANTS
  NumRecords,  (* m_numrecords, as given to Init                            *)
  Record       (* The records.                                              *)

ASSUME RingAssumption == NumRecords \in Nat /\ NumRecords >= 2 /\ Record # {}

VARIABLES
  array,      (* m_array                                                    *)
  readhead,   (* m_readhead                                                 *)
  writetail,  (* m_writetail                                                *)
  writer,     (* where the writing thread is in Write                       *)
  reader,     (* where the reading thread is in Read                        *)
  copied,     (* *obj of Read                                               *)
  got         (* what the last successful Read returned                     *)

vars == <<array, readhead, writetail, writer, reader, copied, got>>

Slots == 0 .. NumRecords - 1

(* The index after i: one more, and 0 at the end of the array.             *)
After(i) == IF i + 1 = NumRecords THEN 0 ELSE i + 1

Init ==
  /\ array \in [Slots -> Record]
  /\ readhead = 0 /\ writetail = 0
  /\ writer = "idle" /\ reader = "idle"
  /\ copied \in Record
  /\ got = copied

-----------------------------------------------------------------------------
(* Write returns false when the slot after the tail is the head.           *)
BugUsesEverySlot(v) ==
  /\ writer = "idle"
  /\ array' = [array EXCEPT ![writetail] = v]
  /\ writer' = "stored"
  /\ UNCHANGED <<readhead, writetail, reader, copied, got>>
Store(v) ==
  /\ writer = "idle"
  /\ After(writetail) # readhead
  /\ array' = [array EXCEPT ![writetail] = v]
  /\ writer' = "stored"
  /\ UNCHANGED <<readhead, writetail, reader, copied, got>>

Publish ==
  /\ writer = "stored"
  /\ writetail' = After(writetail)
  /\ writer' = "idle"
  /\ UNCHANGED <<array, readhead, reader, copied, got>>

(* Read returns false when the ring is empty.                              *)
BugReadsEmpty ==
  /\ reader = "idle"
  /\ copied' = array[readhead]
  /\ reader' = "copied"
  /\ UNCHANGED <<array, readhead, writetail, writer, got>>
Copy ==
  /\ reader = "idle"
  /\ readhead # writetail
  /\ copied' = array[readhead]
  /\ reader' = "copied"
  /\ UNCHANGED <<array, readhead, writetail, writer, got>>

Advance ==
  /\ reader = "copied"
  /\ readhead' = After(readhead)
  /\ got' = copied
  /\ reader' = "idle"
  /\ UNCHANGED <<array, writetail, writer, copied>>

Next == Publish \/ Copy \/ Advance \/ \E v \in Record : Store(v)

Spec == Init /\ [][Next]_vars

-----------------------------------------------------------------------------
(* The records between the head and the tail, in the order of the ring.    *)
Count == IF readhead <= writetail THEN writetail - readhead
         ELSE writetail - readhead + NumRecords
SlotOf(k) == IF readhead + k - 1 < NumRecords THEN readhead + k - 1
             ELSE readhead + k - 1 - NumRecords
Unread == [k \in 1 .. Count |-> array[SlotOf(k)]]

Queue == INSTANCE BoundedQueue WITH queue <- Unread, Room <- NumRecords - 1

TypeOK ==
  /\ array \in [Slots -> Record]
  /\ readhead \in Slots /\ writetail \in Slots
  /\ writer \in {"idle", "stored"} /\ reader \in {"idle", "copied"}
  /\ copied \in Record /\ got \in Record

(* The reader's copy is still the oldest unread record when it moves the    *)
(* head: the writer has not used the slot again in the meantime.           *)
CopyIsOldest == reader = "copied" => readhead # writetail /\ copied = array[readhead]

(* The writer's slot stays outside what the reader may read until it is     *)
(* published, whatever the reader does in between.                         *)
StoreIsUnpublished == writer = "stored" => After(writetail) # readhead

(* The ring is a queue with room for NumRecords - 1 records: every record   *)
(* is read once, unchanged and in the order of the writes.                 *)
ImplementsQueue == Queue!QueueSpec
=============================================================================
