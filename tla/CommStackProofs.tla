-------------------------- MODULE CommStackProofs --------------------------
(***************************************************************************)
(* The ring of kGUICommStack is a bounded first-in first-out queue, for     *)
(* every size and every kind of record.                                    *)
(*                                                                          *)
(* The invariant adds to the types that the writer's slot is not the last   *)
(* free one and that the reader's copy is what its slot still holds.  With  *)
(* it, Publish is the queue's Put, Advance its Get, and the other steps     *)
(* leave the unread records as they are.                                   *)
(***************************************************************************)
EXTENDS CommStack, SequenceTheorems, TLAPS

RingInv == TypeOK /\ CopyIsOldest /\ StoreIsUnpublished

(* The index after a slot is a slot.                                       *)
LEMMA AfterIsSlot == \A i \in Slots : After(i) \in Slots /\ After(i) # i
BY RingAssumption DEF Slots, After

(* The ring starts in the invariant.                                       *)
LEMMA RingInitHolds == Init => RingInv
BY RingAssumption, SMT DEF Init, RingInv, TypeOK, CopyIsOldest, StoreIsUnpublished, Slots

(* Every step of Write and Read keeps the invariant.                       *)
LEMMA RingStepKeepsInv == RingInv /\ [Next]_vars => RingInv'
<1> SUFFICES ASSUME RingInv, [Next]_vars PROVE RingInv'
  OBVIOUS
<1> USE AfterIsSlot, RingAssumption DEF RingInv, TypeOK, CopyIsOldest, StoreIsUnpublished
<1>1. CASE UNCHANGED vars
  BY <1>1 DEF vars
<1>2. ASSUME NEW v \in Record, Store(v) PROVE RingInv'
  BY <1>2 DEF Store
<1>3. CASE Publish
  BY <1>3 DEF Publish
<1>4. CASE Copy
  BY <1>4 DEF Copy
<1>5. CASE Advance
  BY <1>5 DEF Advance, Slots, After
<1> QED
  BY <1>1, <1>2, <1>3, <1>4, <1>5 DEF Next

(* The types, the reader's copy and the writer's slot are as they should be *)
(* in every state.                                                         *)
THEOREM RingInvHolds == Spec => []RingInv
BY RingInitHolds, RingStepKeepsInv, PTL DEF Spec

(* The reader never moves the head over a record it has not copied, though  *)
(* Read takes no lock.                                                     *)
THEOREM CopyIsOldestHolds == Spec => []CopyIsOldest
<1>1. RingInv => CopyIsOldest
  BY DEF RingInv
<1> QED
  BY <1>1, RingInvHolds, PTL

(* The slots of the unread records are distinct and none is the tail.      *)
LEMMA UnreadSlots ==
  ASSUME TypeOK
  PROVE  /\ Count \in 0 .. NumRecords - 1
         /\ \A k \in 1 .. Count : SlotOf(k) \in Slots /\ SlotOf(k) # writetail
BY RingAssumption, SMT DEF TypeOK, Slots, Count, SlotOf

(* The unread records form a sequence of records.                          *)
LEMMA UnreadIsSequence ==
  ASSUME TypeOK
  PROVE  Unread \in Seq(Record) /\ Len(Unread) = Count
<1>1. Count \in Nat
  BY UnreadSlots, RingAssumption
<1>2. \A k \in 1 .. Count : array[SlotOf(k)] \in Record
  BY UnreadSlots DEF TypeOK
<1> QED
  BY <1>1, <1>2 DEF Unread

(* A ring whose indices are equal has nothing to read.                     *)
LEMMA StartsEmpty == Init => Queue!QueueInit
<1> SUFFICES ASSUME Init PROVE Queue!QueueInit
  OBVIOUS
<1>1. Count = 0
  BY DEF Init, Count
<1>2. Unread = <<>>
  BY <1>1 DEF Unread
<1> QED
  BY <1>2 DEF Init, Queue!QueueInit

(* Moving the tail puts the record of its slot at the end of the queue.    *)
LEMMA PublishPuts == RingInv /\ Publish => \E v \in Record : Queue!Put(v)
<1> SUFFICES ASSUME RingInv, Publish PROVE Queue!Put(array[writetail])
  BY DEF RingInv, TypeOK
<1> USE DEF RingInv
<1>1. TypeOK /\ writetail \in Slots /\ readhead \in Slots /\ After(writetail) # readhead
  BY DEF Publish, StoreIsUnpublished, TypeOK
<1>2. readhead' = readhead /\ array' = array /\ writetail' = After(writetail) /\ got' = got
  BY DEF Publish
<1>3. Count' = Count + 1 /\ Count < NumRecords - 1
  BY <1>1, <1>2, RingAssumption, SMT DEF Count, After, Slots
<1>4. SlotOf(Count + 1) = writetail
  BY <1>1, RingAssumption, SMT DEF Count, SlotOf, Slots
<1>5. Unread' = [k \in 1 .. Count + 1 |-> IF k <= Count THEN array[SlotOf(k)] ELSE array[writetail]]
  <2>1. Unread' = [k \in 1 .. Count + 1 |-> array[SlotOf(k)]]
    BY <1>2, <1>3 DEF Unread, SlotOf
  <2>2. Count \in Nat
    BY <1>1, UnreadSlots, RingAssumption
  <2>3. \A k \in 1 .. Count + 1 : ~(k <= Count) => k = Count + 1
    BY <2>2
  <2>4. \A k \in 1 .. Count + 1 :
          array[SlotOf(k)] = IF k <= Count THEN array[SlotOf(k)] ELSE array[writetail]
    BY <1>4, <2>3
  <2> QED
    BY <2>1, <2>4
<1>6. Unread' = Append(Unread, array[writetail])
  <2>1. Count \in Nat /\ Unread \in Seq(Record) /\ Len(Unread) = Count
    BY <1>1, UnreadSlots, UnreadIsSequence, RingAssumption
  <2>2. \A k \in 1 .. Count : Unread[k] = array[SlotOf(k)]
    BY DEF Unread
  <2> QED
    BY <1>5, <2>1, <2>2
<1> QED
  BY <1>1, <1>2, <1>3, <1>6, UnreadIsSequence DEF Queue!Put

(* Moving the head takes the oldest record off the queue.                  *)
LEMMA AdvanceGets == RingInv /\ Advance => Queue!Get
<1> SUFFICES ASSUME RingInv, Advance PROVE Queue!Get
  OBVIOUS
<1> USE DEF RingInv
<1>1. TypeOK /\ writetail \in Slots /\ readhead \in Slots
  BY DEF TypeOK
<1>2. readhead # writetail /\ copied = array[readhead]
  BY DEF Advance, CopyIsOldest
<1>3. writetail' = writetail /\ array' = array /\ readhead' = After(readhead) /\ got' = copied
  BY DEF Advance
<1>4. Count \in Nat /\ Count > 0 /\ Count' = Count - 1 /\ SlotOf(1) = readhead
  BY <1>1, <1>2, <1>3, RingAssumption, SMT DEF Count, After, Slots, SlotOf
<1>5. \A k \in 1 .. Count - 1 : SlotOf(k)' = SlotOf(k + 1)
  BY <1>1, <1>2, <1>3, RingAssumption, SMT DEF Count, After, Slots, SlotOf
<1>6. Unread \in Seq(Record) /\ Len(Unread) = Count
  BY <1>1, UnreadIsSequence
<1>7. Unread' = [k \in 1 .. Count - 1 |-> Unread[k + 1]]
  <2>1. Unread' = [k \in 1 .. Count - 1 |-> array[SlotOf(k)']]
    BY <1>3, <1>4 DEF Unread
  <2>2. \A k \in 1 .. Count - 1 : Unread[k + 1] = array[SlotOf(k + 1)]
    BY <1>4 DEF Unread
  <2> QED
    BY <1>5, <2>1, <2>2
<1>8. Head(Unread) = got'
  BY <1>2, <1>3, <1>4, <1>6 DEF Unread
<1>9. Unread' = Tail(Unread) /\ Unread # <<>>
  <2>1. Unread # <<>>
    BY <1>4, <1>6
  <2>2. Tail(Unread) \in Seq(Record) /\ Len(Tail(Unread)) = Count - 1
    BY <1>4, <1>6, <2>1, HeadTailProperties
  <2>3. \A k \in 1 .. Count - 1 : Tail(Unread)[k] = Unread[k + 1]
    BY <1>6, <2>1, <2>2, HeadTailProperties
  <2>4. Tail(Unread) = [k \in 1 .. Count - 1 |-> Tail(Unread)[k]]
    BY <2>2, LenProperties
  <2>5. Tail(Unread) = [k \in 1 .. Count - 1 |-> Unread[k + 1]]
    BY <2>3, <2>4
  <2> QED
    BY <1>7, <2>1, <2>5
<1> QED
  BY <1>8, <1>9 DEF Queue!Get

(* Storing a record in the tail's slot does not touch the unread ones.     *)
LEMMA StoreStutters ==
  ASSUME RingInv, NEW v \in Record, Store(v)
  PROVE  Unread' = Unread /\ got' = got
<1>1. TypeOK /\ array \in [Slots -> Record]
  BY DEF RingInv, TypeOK
<1>2. readhead' = readhead /\ writetail' = writetail /\ got' = got
      /\ array' = [array EXCEPT ![writetail] = v]
  BY DEF Store
<1>3. Count' = Count /\ \A k \in 1 .. Count : SlotOf(k)' = SlotOf(k)
  BY <1>2 DEF Count, SlotOf
<1>4. \A k \in 1 .. Count : array'[SlotOf(k)] = array[SlotOf(k)]
  BY <1>1, <1>2, UnreadSlots
<1> QED
  BY <1>2, <1>3, <1>4 DEF Unread

(* Every step of the ring is a step of the queue or leaves it alone.       *)
LEMMA StepIsQueueStep ==
  RingInv /\ [Next]_vars => [Queue!QueueNext]_<<Unread, got>>
<1> SUFFICES ASSUME RingInv, [Next]_vars
             PROVE  Queue!QueueNext \/ UNCHANGED <<Unread, got>>
  OBVIOUS
<1>1. CASE UNCHANGED vars
  BY <1>1 DEF vars, Unread, Count, SlotOf
<1>2. ASSUME NEW v \in Record, Store(v) PROVE UNCHANGED <<Unread, got>>
  BY <1>2, StoreStutters
<1>3. CASE Publish
  BY <1>3, PublishPuts DEF Queue!QueueNext
<1>4. CASE Copy
  BY <1>4 DEF Copy, Unread, Count, SlotOf
<1>5. CASE Advance
  BY <1>5, AdvanceGets DEF Queue!QueueNext
<1> QED
  BY <1>1, <1>2, <1>3, <1>4, <1>5 DEF Next

(* kGUICommStack implements the queue its two threads count on.            *)
THEOREM RingImplementsQueue == Spec => ImplementsQueue
BY RingInvHolds, StartsEmpty, StepIsQueueStep, PTL
   DEF Spec, ImplementsQueue, Queue!QueueSpec
=============================================================================
