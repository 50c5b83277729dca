-------------------------------- MODULE VHeap --------------------------------
(***************************************************************************)
(* The virtual heap of src/vheap.cpp: a byte heap cut into blocks, of which *)
(* at most MaxBlocksInMem are in memory; the others are in a backing file.  *)
(* Reads and writes walk over the blocks of their range, and each block is  *)
(* Activated first: moved to the head of the active list, or, when it is    *)
(* not in memory, given the buffer of the block at the tail.                *)
(*                                                                          *)
(* A read or a write is a sequence of chunks, one per block, so that the    *)
(* state between two Activate calls is visible: that is where fatalerror    *)
(* ends the program when the backing file is too short.                     *)
(***************************************************************************)
EXTENDS Integers, Sequences

CONSTANTS
  BlockSize,       (* m_blocksizebytes                                      *)
  MaxBlocksInMem,  (* m_maxblocksinmem                                      *)
  MaxUsed,         (* Bound: the client allocates at most this many bytes.  *)
  Byte,            (* The values a byte can have.                           *)
  ZeroByte,        (* The value memset and a hole of the file give a byte.  *)
  Unset,           (* Marks a byte the client never wrote.                  *)
  Nowhere,         (* The null m_addr of a block that is not in memory.     *)
  AllocSizes,      (* The sizes clients allocate,                           *)
  Writes,          (* the offsets and byte sequences they write,            *)
  Reads            (* and the offsets and lengths they read.                *)

ASSUME SizeAssumption ==
  /\ BlockSize \in Nat \ {0}
  /\ MaxBlocksInMem \in Nat \ {0}
  /\ MaxUsed \in Nat

Buffer == [0 .. BlockSize - 1 -> Byte]

ASSUME ValueAssumption ==
  /\ ZeroByte \in Byte
  /\ Unset \notin Byte
  /\ Nowhere \notin Buffer
  /\ AllocSizes \subseteq Nat
  /\ Writes \subseteq Nat \X Seq(Byte)
  /\ Reads \subseteq Nat \X Nat

VARIABLES
  used,       (* m_used: bytes allocated                                    *)
  numblocks,  (* m_numblocks                                                *)
  addr,       (* m_addr of each block: its buffer, or Nowhere               *)
  dirty,      (* m_dirty of each block                                      *)
  isnew,      (* m_new of each block                                        *)
  active,     (* the active list, from m_head.m_next to m_tail.m_prev       *)
  file,       (* backing file: the block-sized pieces before its end        *)
  op,         (* the read or write in progress: kind, pos, bytes, count     *)
  answer,     (* the bytes a Read copied out, until the next call           *)
  halted,     (* fatalerror has ended the program                           *)
  written     (* history: the byte offsets the client has written           *)

vars == <<used, numblocks, addr, dirty, isnew, active, file, op, answer,
          halted, written>>

heapVars == <<used, numblocks>>
cacheVars == <<addr, dirty, isnew, active, file>>

-----------------------------------------------------------------------------
Minimum(a, b) == IF a <= b THEN a ELSE b

ZeroBuffer == [i \in 0 .. BlockSize - 1 |-> ZeroByte]

BlockOf(a) == a \div BlockSize
Within(a) == a % BlockSize

Blocks == 0 .. numblocks - 1

(* The backing file after writing block b: writing past its end leaves a   *)
(* hole that reads as zeros.                                               *)
FileWith(b, buffer) ==
  [i \in 1 .. IF b < Len(file) THEN Len(file) ELSE b + 1 |->
     IF i = b + 1 THEN buffer
     ELSE IF i <= Len(file) THEN file[i] ELSE ZeroBuffer]

(* The blocks it takes for the first total bytes to be followed by a block *)
(* boundary: the block after the last full one is always allocated.        *)
BugExactBlocks(total) == (total + BlockSize - 1) \div BlockSize
BlocksFor(total) == total \div BlockSize + 1

(* The sequence s with its k-th element dropped and b put at the head.     *)
BugNoUnlink(s, k, b) == [i \in 1 .. Len(s) |-> IF i = 1 THEN b ELSE s[i]]
PushFront(s, k, b) ==
  [i \in 1 .. Len(s) |-> IF i = 1 THEN b ELSE IF i <= k THEN s[i - 1] ELSE s[i]]

Idle == [kind |-> "idle", pos |-> 0, bytes |-> <<>>, count |-> 0]

-----------------------------------------------------------------------------
Init ==
  /\ used = 0
  /\ numblocks = 0
  /\ addr = [b \in {} |-> Nowhere]
  /\ dirty = [b \in {} |-> FALSE]
  /\ isnew = [b \in {} |-> FALSE]
  /\ active = <<>>
  /\ file = <<>>
  /\ op = Idle
  /\ answer = <<>>
  /\ halted = FALSE
  /\ written = {}

(* VHeap::Alloc.  Blocks are added until one lies past the last byte; the   *)
(* first MaxBlocksInMem of them get an uninitialised buffer at once and go  *)
(* to the head of the active list, the rest are new and not in memory.      *)
Alloc(n) ==
  LET total == BlocksFor(used + n)
      now   == IF numblocks < total THEN total ELSE numblocks
      added == numblocks .. now - 1
      top   == Minimum(now, MaxBlocksInMem)
      inmem == numblocks .. top - 1
      fresh == IF numblocks < top THEN top - numblocks ELSE 0
  IN
  /\ op = Idle /\ ~halted
  /\ used + n <= MaxUsed
  /\ used' = used + n
  /\ numblocks' = now
  /\ \E garbage \in [inmem -> Buffer] :
       addr' = [b \in 0 .. now - 1 |->
                  IF b \in inmem THEN garbage[b]
                  ELSE IF b \in added THEN Nowhere ELSE addr[b]]
  /\ dirty' = [b \in 0 .. now - 1 |-> IF b \in added THEN FALSE ELSE dirty[b]]
  /\ isnew' = [b \in 0 .. now - 1 |-> IF b \in added THEN b \notin inmem ELSE isnew[b]]
  /\ active' = [i \in 1 .. fresh |-> numblocks + fresh - i] \o active
  /\ answer' = <<>>
  /\ UNCHANGED <<file, op, halted, written>>

(* A client calls Write or Read on a range it has allocated.               *)
BeginWrite(off, bytes) ==
  /\ op = Idle /\ ~halted
  /\ numblocks > 0 /\ off + Len(bytes) <= used
  /\ op' = [kind |-> "write", pos |-> off, bytes |-> bytes, count |-> Len(bytes)]
  /\ written' = written \cup (off .. off + Len(bytes) - 1)
  /\ answer' = <<>>
  /\ UNCHANGED <<heapVars, cacheVars, halted>>

BeginRead(off, count) ==
  /\ op = Idle /\ ~halted
  /\ numblocks > 0 /\ off + count <= used
  /\ op' = [kind |-> "read", pos |-> off, bytes |-> <<>>, count |-> count]
  /\ answer' = <<>>
  /\ UNCHANGED <<heapVars, cacheVars, halted, written>>

-----------------------------------------------------------------------------
(* The chunk a read or a write is about to copy: its block and its length. *)
Block == BlockOf(op.pos)
ChunkSize == Minimum(op.count, BlockSize - Within(op.pos))

(* memcpy into the block's buffer, and out of it.                          *)
BugWriteAtStart(buffer) ==
  [i \in 0 .. BlockSize - 1 |->
     IF i \in 0 .. ChunkSize - 1 THEN op.bytes[i + 1] ELSE buffer[i]]
Overwritten(buffer) ==
  [i \in 0 .. BlockSize - 1 |->
     IF i - Within(op.pos) \in 0 .. ChunkSize - 1
     THEN op.bytes[i - Within(op.pos) + 1] ELSE buffer[i]]

Copied(buffer) == [i \in 1 .. ChunkSize |-> buffer[Within(op.pos) + i - 1]]

BugLoopsForever(bytes) ==
  [kind |-> op.kind, pos |-> op.pos + ChunkSize, bytes |-> bytes,
   count |-> op.count - ChunkSize]

(* What remains to be done when the chunk is copied and these are the bytes *)
(* still to write, or the bytes read so far.                                *)
Rest(bytes) ==
  IF ChunkSize = op.count THEN Idle
  ELSE [kind |-> op.kind, pos |-> op.pos + ChunkSize, bytes |-> bytes,
        count |-> op.count - ChunkSize]

(* The loop body of Write and of Read, once the block is active: buffer is  *)
(* its buffer, addrs and dirties what Activate made of m_addr and m_dirty.  *)
BugCleanWrite(buffer, addrs, dirties) ==
  /\ op.kind = "write"
  /\ addr' = [addrs EXCEPT ![Block] = Overwritten(buffer)]
  /\ dirty' = dirties
  /\ op' = Rest(SubSeq(op.bytes, ChunkSize + 1, Len(op.bytes)))
  /\ UNCHANGED answer
WriteChunk(buffer, addrs, dirties) ==
  /\ op.kind = "write"
  /\ addr' = [addrs EXCEPT ![Block] = Overwritten(buffer)]
  /\ dirty' = [dirties EXCEPT ![Block] = TRUE]
  /\ op' = Rest(SubSeq(op.bytes, ChunkSize + 1, Len(op.bytes)))
  /\ UNCHANGED answer

ReadChunk(buffer, addrs, dirties) ==
  LET sofar == op.bytes \o Copied(buffer)
  IN /\ op.kind = "read"
     /\ addr' = [addrs EXCEPT ![Block] = buffer]
     /\ dirty' = dirties
     /\ op' = Rest(sofar)
     /\ answer' = IF ChunkSize = op.count THEN sofar ELSE answer

CopyChunk(buffer, addrs, dirties) ==
  \/ WriteChunk(buffer, addrs, dirties)
  \/ ReadChunk(buffer, addrs, dirties)

-----------------------------------------------------------------------------
(* VHeap::Activate of a block that is in memory: it moves to the head of    *)
(* the active list and keeps its buffer.                                    *)
ChunkInMemory ==
  /\ ~halted /\ op # Idle
  /\ addr[Block] # Nowhere
  /\ \E k \in 1 .. Len(active) :
       active[k] = Block /\ active' = PushFront(active, k, Block)
  /\ CopyChunk(addr[Block], addr, dirty)
  /\ UNCHANGED <<heapVars, isnew, file, halted, written>>

(* VHeap::Activate of any other block takes the buffer of the block at the  *)
(* tail of the active list, which is written to the file first if dirty.    *)
Victim == active[Len(active)]

BugNoWriteBack == file
Evicted == IF dirty[Victim] THEN FileWith(Victim, addr[Victim]) ELSE file

(* A new block starts as zeros; any other is read back from the file.      *)
Loaded == IF isnew[Block] THEN ZeroBuffer ELSE Evicted[Block + 1]

ChunkFromFile ==
  /\ ~halted /\ op # Idle
  /\ addr[Block] = Nowhere
  /\ isnew[Block] \/ Block < Len(Evicted)
  /\ file' = Evicted
  /\ active' = PushFront(active, Len(active), Block)
  /\ isnew' = [isnew EXCEPT ![Block] = FALSE]
  /\ CopyChunk(Loaded, [addr EXCEPT ![Victim] = Nowhere],
               [dirty EXCEPT ![Victim] = FALSE, ![Block] = isnew[Block]])
  /\ UNCHANGED <<heapVars, halted, written>>

(* fread comes up short: assert(false, "Read Error!") ends the program, and *)
(* what it leaves of the cache is never looked at again.                    *)
ReadError ==
  /\ ~halted /\ op # Idle
  /\ addr[Block] = Nowhere
  /\ ~isnew[Block] /\ Block >= Len(Evicted)
  /\ halted' = TRUE
  /\ UNCHANGED <<heapVars, cacheVars, op, answer, written>>

-----------------------------------------------------------------------------
Next ==
  \/ \E n \in AllocSizes : Alloc(n)
  \/ \E w \in Writes : BeginWrite(w[1], w[2])
  \/ \E r \in Reads : BeginRead(r[1], r[2])
  \/ ChunkInMemory
  \/ ChunkFromFile
  \/ ReadError

Spec == Init /\ [][Next]_vars

(* A call in progress runs to its end: nothing else holds the thread.      *)
FairSpec == Spec /\ WF_vars(ChunkInMemory \/ ChunkFromFile \/ ReadError)

-----------------------------------------------------------------------------
(* The bytes of a Write in progress that are still to be copied.           *)
Pending == IF op.kind = "write" THEN op.pos .. op.pos + op.count - 1 ELSE {}

(* Block b holds a byte that the client wrote and Write has copied.        *)
Used(b) == \E a \in written \ Pending : BlockOf(a) = b

TypeOK ==
  /\ used \in 0 .. MaxUsed
  /\ numblocks \in Nat
  /\ addr \in [Blocks -> Buffer \cup {Nowhere}]
  /\ dirty \in [Blocks -> BOOLEAN]
  /\ isnew \in [Blocks -> BOOLEAN]
  /\ active \in Seq(Blocks)
  /\ file \in Seq(Buffer)
  /\ op \in [kind : {"idle", "read", "write"}, pos : Nat, bytes : Seq(Byte), count : Nat]
  /\ answer \in Seq(Byte)
  /\ halted \in BOOLEAN
  /\ written \subseteq 0 .. used - 1

(* Block b is on the active list.                                          *)
Listed(list, b) == \E i \in 1 .. Len(list) : list[i] = b

(* Activate always finds a tail to take a buffer from, and the buffers      *)
(* never exceed the limit given to Init: the active list names exactly the  *)
(* blocks in memory, each once, and is as long as the limit allows.         *)
ActiveList ==
  /\ \A i, j \in 1 .. Len(active) : active[i] = active[j] => i = j
  /\ \A b \in Blocks : addr[b] # Nowhere <=> Listed(active, b)
  /\ Len(active) = Minimum(numblocks, MaxBlocksInMem)

(* assert(blocknum<m_numblocks) of Activate: a call on allocated bytes, even *)
(* of no bytes at the very end of the heap, touches allocated blocks only.  *)
OnlyAllocated == op # Idle => Block \in Blocks

(* A block whose bytes matter is never dropped: out of memory it is in the  *)
(* file, in memory and clean it is what the file holds, and it is not new,  *)
(* so that Activate will not clear it.                                      *)
NothingLost ==
  \A b \in Blocks : Used(b) =>
    /\ ~isnew[b]
    /\ addr[b] = Nowhere => b < Len(file)
    /\ addr[b] # Nowhere /\ ~dirty[b] => b < Len(file) /\ file[b + 1] = addr[b]

(* The fatal "Read Error!" can only hit a block no Write ever reached.      *)
ErrorOnlyUnwritten == halted => ~Used(Block)

(* assert(false,"Read Error!") states that a block that is read back is     *)
(* always in the file.                                                      *)
NoReadError == ~halted

(* Every call comes back, unless the program dies of a read error.         *)
CallsReturn == op # Idle ~> (op = Idle \/ halted)

-----------------------------------------------------------------------------
(* The heap as its caller sees it: the buffer of a block in memory, the     *)
(* file for the others, and the rest of a Write in progress already there.  *)
Stored(a) ==
  LET b == BlockOf(a)
  IN IF addr[b] # Nowhere THEN addr[b][Within(a)]
     ELSE IF b < Len(file) THEN file[b + 1][Within(a)] ELSE Unset

Cell(a) ==
  IF a \in Pending THEN op.bytes[a - op.pos + 1]
  ELSE IF a \in written THEN Stored(a) ELSE Unset

(* The call in progress: of a Read, the range it was asked for.             *)
Call ==
  IF op.kind = "read"
  THEN [kind |-> "read", first |-> op.pos - Len(op.bytes), past |-> op.pos + op.count]
  ELSE [kind |-> op.kind, first |-> 0, past |-> 0]

Flat == INSTANCE FlatHeap WITH cells <- [a \in 0 .. used - 1 |-> Cell(a)],
                               call <- Call

(* Reads return what was last written, whatever Activate moved in between:  *)
(* only the start of a Write changes the bytes, and a Read that ends has    *)
(* copied the range it was asked for.                                      *)
ImplementsFlatHeap == Flat!FlatSpec

-----------------------------------------------------------------------------
(* What the theorems of VHeapProofs add to make the invariant inductive.   *)
CallInRange ==
  /\ op.kind = "idle" => op = Idle
  /\ op.kind # "idle" =>
       /\ numblocks > 0 /\ op.pos + op.count <= used
       /\ op.kind = "write" => Len(op.bytes) = op.count
  /\ Pending \subseteq written

Sized ==
  \/ numblocks = 0 /\ used = 0
  \/ numblocks = BlocksFor(used)

NewIsOut == \A b \in Blocks : isnew[b] => addr[b] = Nowhere

HeapInv ==
  /\ TypeOK
  /\ CallInRange
  /\ Sized
  /\ ActiveList
  /\ NewIsOut
  /\ NothingLost
  /\ ErrorOnlyUnwritten
=============================================================================
