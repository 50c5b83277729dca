----------------------------- MODULE VHeapProofs -----------------------------
(***************************************************************************)
(* Theorems about VHeap, for every block size, cache size, heap size and    *)
(* set of client calls.  HeapInv is the inductive invariant; TypeOK,        *)
(* ActiveList, OnlyAllocated, NothingLost and ErrorOnlyUnwritten follow.    *)
(* With what a read has copied so far (ReadSoFar) it shows that every step  *)
(* of the heap is a step, or none, of a flat array of bytes.               *)
(***************************************************************************)
EXTENDS VHeap, SequenceTheorems, TLAPS

(* What is left of a sequence without its first n elements.                *)
LEMMA WithoutFront ==
  ASSUME NEW S, NEW list \in Seq(S), NEW n \in Nat, n <= Len(list),
         NEW k \in 1 .. Len(list) - n
  PROVE  SubSeq(list, n + 1, Len(list))[k] = list[n + k]
  OBVIOUS

(* Arithmetic of offsets: offset & mask and offset >> pow2 of the code.    *)
LEMMA OffsetSplit ==
  ASSUME NEW a \in Nat
  PROVE  /\ BlockOf(a) \in Nat
         /\ Within(a) \in 0 .. BlockSize - 1
  BY SizeAssumption DEF BlockOf, Within

(* A larger offset is never in an earlier block.                           *)
LEMMA BlockMonotone ==
  ASSUME NEW a \in Nat, NEW c \in Nat, a <= c
  PROVE  BlockOf(a) <= BlockOf(c)
  BY SizeAssumption DEF BlockOf

(* Two bytes of one block differ by the difference of their places in it.  *)
LEMMA SameBlock ==
  ASSUME NEW a \in Nat, NEW k \in Nat, Within(a) + k < BlockSize
  PROVE  BlockOf(a + k) = BlockOf(a)
  BY SizeAssumption DEF BlockOf, Within

(* Moving b to the head, over what was at place k, keeps the list's length. *)
LEMMA PushFrontShape ==
  ASSUME NEW S, NEW s \in Seq(S), NEW k \in 1 .. Len(s), NEW b \in S
  PROVE  /\ PushFront(s, k, b) \in Seq(S)
         /\ Len(PushFront(s, k, b)) = Len(s)
  BY DEF PushFront

(* Moving a block to the head leaves no block twice in the active list.    *)
LEMMA PushFrontDistinct ==
  ASSUME NEW S, NEW s \in Seq(S), NEW k \in 1 .. Len(s), NEW b \in S,
         \A i, j \in 1 .. Len(s) : s[i] = s[j] => i = j,
         \A i \in 1 .. Len(s) : s[i] = b => i = k
  PROVE  \A i, j \in 1 .. Len(s) :
           PushFront(s, k, b)[i] = PushFront(s, k, b)[j] => i = j
  BY DEF PushFront

(* The list gains the block moved to the head and loses only place k.      *)
LEMMA PushFrontMembers ==
  ASSUME NEW S, NEW s \in Seq(S), NEW k \in 1 .. Len(s), NEW b \in S, NEW x \in S,
         \A i, j \in 1 .. Len(s) : s[i] = s[j] => i = j
  PROVE  Listed(PushFront(s, k, b), x) <=> (x = b \/ (Listed(s, x) /\ x # s[k]))
  <1> DEFINE t == PushFront(s, k, b)
  <1>1. /\ Len(t) = Len(s)
        /\ \A i \in 1 .. Len(s) :
             t[i] = IF i = 1 THEN b ELSE IF i <= k THEN s[i - 1] ELSE s[i]
    BY DEF PushFront
  <1> HIDE DEF t
  <1>2. ASSUME NEW i \in 1 .. Len(s), t[i] = x
        PROVE  x = b \/ (Listed(s, x) /\ x # s[k])
    <2>1. CASE i = 1
      BY <1>1, <1>2, <2>1
    <2>2. CASE i # 1 /\ i <= k
      <3>1. i - 1 \in 1 .. Len(s) /\ i - 1 # k /\ s[i - 1] = x
        BY <1>1, <1>2, <2>2
      <3>2. QED BY <3>1 DEF Listed
    <2>3. CASE i # 1 /\ i > k
      BY <1>1, <1>2, <2>3 DEF Listed
    <2>4. QED BY <2>1, <2>2, <2>3
  <1>3. ASSUME x = b PROVE Listed(t, x)
    <2>1. 1 \in 1 .. Len(t) /\ t[1] = x
      BY <1>1, <1>3
    <2>2. QED BY <2>1 DEF Listed
  <1>4. ASSUME NEW i \in 1 .. Len(s), i # k, s[i] = x
        PROVE  Listed(t, x)
    <2>1. CASE i < k
      <3>1. i + 1 \in 1 .. Len(t) /\ t[i + 1] = x
        BY <1>1, <1>4, <2>1
      <3>2. QED BY <3>1 DEF Listed
    <2>2. CASE i > k
      BY <1>1, <1>4, <2>2 DEF Listed
    <2>3. QED BY <1>4, <2>1, <2>2
  <1>5. QED BY <1>1, <1>2, <1>3, <1>4 DEF t, Listed

(* Writing one block extends the file if need be and leaves the rest alone. *)
LEMMA FileWithFacts ==
  ASSUME file \in Seq(Buffer), NEW b \in Nat, NEW buffer \in Buffer
  PROVE  LET f == FileWith(b, buffer)
         IN /\ f \in Seq(Buffer)
            /\ Len(f) >= Len(file) /\ Len(f) > b
            /\ f[b + 1] = buffer
            /\ \A i \in 1 .. Len(file) : i # b + 1 => f[i] = file[i]
  <1>1. ZeroBuffer \in Buffer
    BY ValueAssumption DEF ZeroBuffer, Buffer
  <1>2. QED BY <1>1 DEF FileWith

-----------------------------------------------------------------------------
(* The chunk of a call in range lies inside one allocated block.           *)
LEMMA ChunkInBlock ==
  ASSUME TypeOK, CallInRange, Sized, op # Idle
  PROVE  /\ op.kind \in {"read", "write"}
         /\ Block \in Blocks
         /\ ChunkSize \in 0 .. op.count
         /\ Within(op.pos) \in 0 .. BlockSize - 1
         /\ Within(op.pos) + ChunkSize <= BlockSize
         /\ \A a \in op.pos .. op.pos + ChunkSize - 1 : BlockOf(a) = Block
  <1>1. op.kind \in {"read", "write"} /\ op.pos \in Nat /\ op.count \in Nat
    BY DEF TypeOK, CallInRange
  <1>2. numblocks > 0 /\ op.pos + op.count <= used /\ used \in Nat
    BY <1>1 DEF CallInRange, TypeOK
  <1>3. BlockOf(op.pos) \in Nat /\ Within(op.pos) \in 0 .. BlockSize - 1
    BY <1>1, OffsetSplit
  <1>4. Block \in Blocks
    <2>1. numblocks = BlockOf(used) + 1
      BY <1>2 DEF Sized, BlocksFor, BlockOf
    <2>2. BlockOf(op.pos) <= BlockOf(used) /\ BlockOf(used) \in Nat
      BY <1>1, <1>2, BlockMonotone, OffsetSplit
    <2>3. QED BY <1>3, <2>1, <2>2 DEF Block, Blocks
  <1>5. ChunkSize \in 0 .. op.count /\ Within(op.pos) + ChunkSize <= BlockSize
    BY <1>1, <1>3, SizeAssumption DEF ChunkSize, Minimum
  <1>6. ASSUME NEW a \in op.pos .. op.pos + ChunkSize - 1
        PROVE  BlockOf(a) = Block
    <2>1. a - op.pos \in Nat /\ Within(op.pos) + (a - op.pos) < BlockSize
      BY <1>1, <1>3, <1>5, SizeAssumption
    <2>2. BlockOf(op.pos + (a - op.pos)) = BlockOf(op.pos)
      BY <1>1, <2>1, SameBlock
    <2>3. op.pos + (a - op.pos) = a
      BY <1>1, <1>5
    <2>4. QED BY <2>2, <2>3 DEF Block
  <1>7. QED BY <1>1, <1>3, <1>4, <1>5, <1>6

(* One turn of the loop of Write or Read: it changes the buffer and the     *)
(* dirty flag of the active block only, and shrinks the call.               *)
LEMMA CopyChunkFacts ==
  ASSUME TypeOK, CallInRange, Sized, op # Idle,
         NEW buffer \in Buffer,
         NEW addrs \in [Blocks -> Buffer \cup {Nowhere}],
         NEW dirties \in [Blocks -> BOOLEAN],
         CopyChunk(buffer, addrs, dirties),
         UNCHANGED <<numblocks, used, written>>
  PROVE  /\ addr' \in [Blocks -> Buffer \cup {Nowhere}]
         /\ addr'[Block] \in Buffer
         /\ \A b \in Blocks : b # Block => addr'[b] = addrs[b]
         /\ dirty' \in [Blocks -> BOOLEAN]
         /\ \A b \in Blocks : b # Block => dirty'[b] = dirties[b]
         /\ dirty'[Block] \/ (addr'[Block] = buffer /\ dirty'[Block] = dirties[Block])
         /\ op' \in [kind : {"idle", "read", "write"}, pos : Nat,
                     bytes : Seq(Byte), count : Nat]
         /\ answer' \in Seq(Byte)
         /\ CallInRange'
         /\ \A b : Used(b)' => Used(b) \/ (b = Block /\ dirty'[Block])
  <1>0. /\ Block \in Blocks /\ ChunkSize \in 0 .. op.count
        /\ Within(op.pos) \in 0 .. BlockSize - 1
        /\ Within(op.pos) + ChunkSize <= BlockSize
        /\ \A a \in op.pos .. op.pos + ChunkSize - 1 : BlockOf(a) = Block
    BY ChunkInBlock
  <1>1. /\ op.pos \in Nat /\ op.count \in Nat /\ op.bytes \in Seq(Byte)
        /\ answer \in Seq(Byte)
        /\ written \subseteq 0 .. used - 1 /\ used \in Nat
        /\ numblocks > 0 /\ op.pos + op.count <= used
        /\ op.kind = "write" => Len(op.bytes) = op.count
        /\ Pending \subseteq written
    BY DEF TypeOK, CallInRange
  <1>2. CASE WriteChunk(buffer, addrs, dirties)
    <2>1. op.kind = "write" /\ Len(op.bytes) = op.count
      BY <1>1, <1>2 DEF WriteChunk
    <2>2. Overwritten(buffer) \in Buffer
      <3>1. \A i \in 0 .. BlockSize - 1 :
              i - Within(op.pos) \in 0 .. ChunkSize - 1
              => op.bytes[i - Within(op.pos) + 1] \in Byte
        <4>1. \A k \in 1 .. Len(op.bytes) : op.bytes[k] \in Byte
          BY <1>1, ElementOfSeq
        <4>2. Within(op.pos) \in Int /\ ChunkSize <= Len(op.bytes) /\ ChunkSize \in Int
          BY <1>0, <1>1, <2>1, SizeAssumption
        <4>3. \A w : w - Within(op.pos) \in 0 .. ChunkSize - 1
                     => w - Within(op.pos) + 1 \in 1 .. Len(op.bytes)
          BY <4>2, <1>1, LenProperties
        <4> QED BY <4>1, <4>3
      <3>2. QED BY <3>1, SizeAssumption DEF Overwritten, Buffer
    <2> DEFINE left == SubSeq(op.bytes, ChunkSize + 1, Len(op.bytes))
    <2>3. left \in Seq(Byte) /\ Len(left) = op.count - ChunkSize
      BY <1>0, <1>1, <2>1, SMTT(30)
    <2>4. op' = Rest(left)
      BY <1>2 DEF WriteChunk
    <2> HIDE DEF left
    <2>5. CASE ChunkSize = op.count
      <3>1. op' = Idle
        BY <2>4, <2>5 DEF Rest
      <3>2. Pending' = {} /\ CallInRange'
        BY <3>1 DEF Pending, CallInRange, Idle
      <3>3. \A a \in Pending : BlockOf(a) = Block
        BY <1>0, <2>5, <2>1 DEF Pending
      <3>4. \A b : Used(b)' => Used(b) \/ b = Block
        BY <3>2, <3>3 DEF Used, BlockOf
      <3>5. op' \in [kind : {"idle", "read", "write"}, pos : Nat,
                     bytes : Seq(Byte), count : Nat]
        BY <3>1 DEF Idle
      <3>6. QED BY <1>0, <1>1, <1>2, <2>2, <3>2, <3>4, <3>5 DEF WriteChunk
    <2>6. CASE ChunkSize # op.count
      <3>1. op' = [kind |-> op.kind, pos |-> op.pos + ChunkSize, bytes |-> left,
                   count |-> op.count - ChunkSize]
        BY <2>4, <2>6 DEF Rest
      <3>2. op'.count \in Nat /\ op'.pos \in Nat
            /\ op'.pos + op'.count = op.pos + op.count
        <4>1. op'.pos = op.pos + ChunkSize /\ op'.count = op.count - ChunkSize
          BY <3>1
        <4>2. PICK pos \in Nat, count \in Nat, chunk \in Nat :
                pos = op.pos /\ count = op.count /\ chunk = ChunkSize /\ chunk <= count
          BY <1>0, <1>1
        <4>3. op'.pos = pos + chunk /\ op'.count = count - chunk
          BY <4>1, <4>2
        <4>4. QED BY <4>2, <4>3
      <3>3. Pending' = op.pos + ChunkSize .. op.pos + op.count - 1
        BY <1>0, <1>1, <2>1, <3>1 DEF Pending
      <3>4. Pending' \subseteq Pending
            /\ \A a \in Pending \ Pending' : BlockOf(a) = Block
        <4>1. Pending = op.pos .. op.pos + op.count - 1
          BY <2>1 DEF Pending
        <4>2. Pending' \subseteq Pending
          BY <1>0, <1>1, <3>3, <4>1
        <4>3. ASSUME NEW a \in Pending \ Pending'
              PROVE  a \in op.pos .. op.pos + ChunkSize - 1
          BY <1>0, <1>1, <3>3, <4>1
        <4>4. QED BY <1>0, <4>2, <4>3
      <3>5. CallInRange'
        BY <1>1, <2>1, <2>3, <3>1, <3>2, <3>4 DEF CallInRange
      <3>6. \A b : Used(b)' => Used(b) \/ b = Block
        BY <3>4 DEF Used, BlockOf
      <3>7. op' \in [kind : {"idle", "read", "write"}, pos : Nat,
                     bytes : Seq(Byte), count : Nat]
        BY <2>1, <2>3, <3>1, <3>2
      <3>8. QED BY <1>0, <1>1, <1>2, <2>2, <3>5, <3>6, <3>7 DEF WriteChunk
    <2>7. QED BY <2>5, <2>6
  <1>3. CASE ReadChunk(buffer, addrs, dirties)
    <2> DEFINE sofar == op.bytes \o Copied(buffer)
    <2>1. op.kind = "read" /\ op' = Rest(sofar)
          /\ answer' = (IF ChunkSize = op.count THEN sofar ELSE answer)
      BY <1>3 DEF ReadChunk
    <2>2. Copied(buffer) \in Seq(Byte)
      <3>1. \A i \in 1 .. ChunkSize : buffer[Within(op.pos) + i - 1] \in Byte
        BY <1>0, <1>1, SizeAssumption DEF Buffer
      <3>2. QED BY <1>0, <1>1, <3>1 DEF Copied
    <2>3. sofar \in Seq(Byte)
      BY <1>1, <2>2
    <2> HIDE DEF sofar
    <2>4. Pending = {} /\ Pending' = {}
      BY <2>1 DEF Pending, Rest, Idle
    <2>5. \A b : Used(b)' => Used(b)
      BY <2>4 DEF Used, BlockOf
    <2>6. op' \in [kind : {"idle", "read", "write"}, pos : Nat,
                   bytes : Seq(Byte), count : Nat]
      BY <1>0, <1>1, <2>1, <2>3, SMTT(30) DEF Rest, Idle
    <2>7. CallInRange'
      BY <1>0, <1>1, <2>1, <2>4 DEF CallInRange, Rest, Idle
    <2>8. QED BY <1>0, <1>1, <1>3, <2>1, <2>3, <2>5, <2>6, <2>7 DEF ReadChunk
  <1>4. QED BY <1>2, <1>3 DEF CopyChunk

-----------------------------------------------------------------------------
(* VHeap::Init leaves an empty heap, of which every part of HeapInv holds. *)
LEMMA InitEstablishes == Init => HeapInv
  <1> SUFFICES ASSUME Init PROVE HeapInv
    OBVIOUS
  <1>1. TypeOK
    <2>1. Blocks = {}
      BY DEF Init, Blocks
    <2>2. /\ addr \in [Blocks -> Buffer \cup {Nowhere}]
          /\ dirty \in [Blocks -> BOOLEAN]
          /\ isnew \in [Blocks -> BOOLEAN]
      BY <2>1 DEF Init
    <2>3. active \in Seq(Blocks) /\ file \in Seq(Buffer) /\ answer \in Seq(Byte)
      BY EmptySeq DEF Init
    <2>4. op \in [kind : {"idle", "read", "write"}, pos : Nat,
                  bytes : Seq(Byte), count : Nat]
      BY EmptySeq DEF Init, Idle
    <2>5. used \in 0 .. MaxUsed /\ numblocks \in Nat
      BY SizeAssumption DEF Init
    <2>6. halted \in BOOLEAN /\ written \subseteq 0 .. used - 1
      BY DEF Init
    <2>7. QED BY <2>2, <2>3, <2>4, <2>5, <2>6 DEF TypeOK
  <1>2. CallInRange
    BY DEF Init, CallInRange, Pending, Idle
  <1>3. ActiveList
    BY SizeAssumption DEF Init, ActiveList, Blocks, Minimum, Listed
  <1>4. Sized /\ NewIsOut /\ NothingLost /\ ErrorOnlyUnwritten
    BY DEF Init, Sized, NewIsOut, NothingLost, ErrorOnlyUnwritten, Blocks
  <1>5. QED BY <1>1, <1>2, <1>3, <1>4 DEF HeapInv

(* Alloc appends new, cleared-on-demand blocks and disturbs no old one.    *)
LEMMA AllocPreserves ==
  ASSUME HeapInv, NEW n \in Nat, Alloc(n)
  PROVE  HeapInv'
  <1> DEFINE total == BlocksFor(used + n)
             now   == IF numblocks < total THEN total ELSE numblocks
             added == numblocks .. now - 1
             top   == Minimum(now, MaxBlocksInMem)
             inmem == numblocks .. top - 1
             fresh == IF numblocks < top THEN top - numblocks ELSE 0
  <1> USE DEF HeapInv
  <1>1. used \in Nat /\ numblocks \in Nat /\ used' = used + n /\ used' \in 0 .. MaxUsed
    BY SizeAssumption DEF TypeOK, Alloc
  <1>2. total \in Nat \ {0} /\ (numblocks = 0 \/ numblocks <= total)
    <2>1. BlockOf(used + n) \in Nat /\ BlockOf(used) <= BlockOf(used + n)
          /\ BlockOf(used) \in Nat
      BY <1>1, OffsetSplit, BlockMonotone
    <2>2. total = BlockOf(used + n) + 1 /\ BlocksFor(used) = BlockOf(used) + 1
      BY DEF BlocksFor, BlockOf
    <2>3. QED BY <1>1, <2>1, <2>2 DEF Sized
  <1>3. now = total /\ now \in Nat /\ numblocks <= now
    BY <1>1, <1>2
  <1>4. /\ numblocks' = now
        /\ dirty' = [b \in 0 .. now - 1 |-> IF b \in added THEN FALSE ELSE dirty[b]]
        /\ isnew' = [b \in 0 .. now - 1 |->
                       IF b \in added THEN b \notin inmem ELSE isnew[b]]
        /\ active' = [i \in 1 .. fresh |-> numblocks + fresh - i] \o active
        /\ op = Idle /\ ~halted /\ answer' = <<>>
        /\ UNCHANGED <<file, op, halted, written>>
    BY DEF Alloc
  <1>5. PICK garbage \in [inmem -> Buffer] :
          addr' = [b \in 0 .. now - 1 |->
                     IF b \in inmem THEN garbage[b]
                     ELSE IF b \in added THEN Nowhere ELSE addr[b]]
    BY DEF Alloc
  <1>6. /\ Blocks = 0 .. numblocks - 1
        /\ Blocks' = 0 .. now - 1
        /\ Blocks \subseteq Blocks'
        /\ \A b \in Blocks' : b \notin added => b \in Blocks
        /\ \A b \in Blocks : b \notin added
    BY <1>1, <1>3, <1>4 DEF Blocks
  <1>7. /\ top \in Nat /\ top <= now
        /\ inmem \subseteq added
        /\ fresh \in Nat
        /\ numblocks < top => fresh = top - numblocks
        /\ numblocks >= top => fresh = 0
        /\ Len(active) + fresh = top
    <2>1. Len(active) = Minimum(numblocks, MaxBlocksInMem)
      BY DEF ActiveList
    <2>2. top \in Nat /\ top <= now /\ fresh \in Nat
      BY <1>1, <1>3, SizeAssumption DEF Minimum
    <2>3. inmem \subseteq added
      BY <1>1, <1>3, <2>2
    <2>4. Len(active) + fresh = top
      BY <1>1, <1>3, <2>1, SizeAssumption DEF Minimum
    <2>5. /\ numblocks < top => fresh = top - numblocks
          /\ numblocks >= top => fresh = 0
      BY <1>1, <2>2
    <2>6. QED BY <2>2, <2>3, <2>4, <2>5
  <1> HIDE DEF total, now, top, fresh
  <1>8. TypeOK'
    <2>1. addr' \in [Blocks' -> Buffer \cup {Nowhere}]
      BY <1>5, <1>6 DEF TypeOK
    <2>2. dirty' \in [Blocks' -> BOOLEAN] /\ isnew' \in [Blocks' -> BOOLEAN]
      BY <1>4, <1>6 DEF TypeOK
    <2>3. active' \in Seq(Blocks')
      <3>1. active \in Seq(Blocks')
        <4>1. active \in Seq(Blocks)
          BY DEF TypeOK
        <4> DEFINE more == Blocks'
        <4>2. Blocks \subseteq more
          BY <1>6
        <4> HIDE DEF more
        <4>3. active \in Seq(more)
          BY <4>1, <4>2, SeqMonotonic
        <4>4. QED BY <4>3 DEF more
      <3>2. \A i \in 1 .. fresh : numblocks + fresh - i \in Blocks'
        BY <1>1, <1>3, <1>6, <1>7
      <3>3. [i \in 1 .. fresh |-> numblocks + fresh - i] \in Seq(Blocks')
        BY <3>2, <1>7
      <3>4. QED BY <1>4, <3>1, <3>3
    <2>4. written' \subseteq 0 .. used' - 1
      BY <1>1, <1>4 DEF TypeOK
    <2>5. answer' \in Seq(Byte)
      BY <1>4, EmptySeq
    <2>6. QED BY <1>1, <1>3, <1>4, <2>1, <2>2, <2>3, <2>4, <2>5 DEF TypeOK
  <1>9. CallInRange'
    BY <1>4 DEF CallInRange, Pending, Idle
  <1>10. Sized'
    BY <1>1, <1>3, <1>4 DEF Sized, total, BlocksFor
  <1>11. ActiveList'
    <2>1. active \in Seq(Blocks) /\ fresh \in Nat
      BY <1>7 DEF TypeOK
    <2>2. /\ Len(active') = fresh + Len(active)
          /\ \A i \in 1 .. fresh : active'[i] = numblocks + fresh - i
          /\ \A i \in fresh + 1 .. fresh + Len(active) : active'[i] = active[i - fresh]
      BY <1>4, <2>1
    <2>3. \A i \in 1 .. Len(active) : active[i] \in 0 .. numblocks - 1
      BY <2>1, <1>6, ElementOfSeq
    <2>4. \A i, j \in 1 .. Len(active') : active'[i] = active'[j] => i = j
      <3> SUFFICES ASSUME NEW i \in 1 .. Len(active'), NEW j \in 1 .. Len(active'),
                          active'[i] = active'[j]
                   PROVE  i = j
        OBVIOUS
      <3>0. \A m \in 1 .. Len(active') :
              IF m <= fresh THEN active'[m] = numblocks + fresh - m
                            ELSE active'[m] \in 0 .. numblocks - 1
        <4> SUFFICES ASSUME NEW m \in 1 .. Len(active'), m > fresh
                     PROVE  active'[m] \in 0 .. numblocks - 1
          BY <2>1, <2>2
        <4>1. m - fresh \in 1 .. Len(active) /\ active'[m] = active[m - fresh]
          BY <2>1, <2>2
        <4>2. QED BY <4>1, <2>3
      <3>1. CASE i <= fresh /\ j <= fresh
        BY <1>1, <2>1, <2>2, <3>1
      <3>2. CASE i <= fresh /\ j > fresh
        BY <1>1, <2>1, <3>0, <3>2
      <3>3. CASE i > fresh /\ j <= fresh
        BY <1>1, <2>1, <3>0, <3>3
      <3>4. CASE i > fresh /\ j > fresh
        <4>1. i - fresh \in 1 .. Len(active) /\ j - fresh \in 1 .. Len(active)
              /\ active[i - fresh] = active[j - fresh]
          BY <2>1, <2>2, <3>4
        <4>2. i - fresh = j - fresh
          BY <4>1 DEF ActiveList
        <4>3. QED BY <4>2, <2>1, <2>2
      <3>5. QED BY <2>1, <2>2, <3>1, <3>2, <3>3, <3>4
    <2>5. ASSUME NEW b \in Blocks'
          PROVE  addr'[b] # Nowhere <=> Listed(active', b)
      <3>1. CASE b \in inmem
        <4>1. addr'[b] # Nowhere
          BY <1>5, <1>6, <3>1, ValueAssumption
        <4>2. numblocks + fresh - b \in 1 .. fresh
          BY <1>1, <1>7, <3>1
        <4>3. active'[numblocks + fresh - b] = b
              /\ numblocks + fresh - b \in 1 .. Len(active')
          BY <1>1, <1>7, <2>1, <2>2, <3>1, <4>2
        <4>4. QED BY <4>1, <4>3 DEF Listed
      <3>2. CASE b \notin inmem /\ b \in added
        <4>1. addr'[b] = Nowhere
          BY <1>5, <1>6, <3>2
        <4>2. ASSUME NEW i \in 1 .. Len(active'), active'[i] = b
              PROVE  FALSE
          <5>1. CASE i <= fresh
            BY <1>1, <1>7, <2>1, <2>2, <3>2, <4>2, <5>1
          <5>2. CASE i > fresh
            <6>1. i - fresh \in 1 .. Len(active) /\ b = active[i - fresh]
              BY <2>1, <2>2, <4>2, <5>2
            <6>2. b \in 0 .. numblocks - 1
              BY <6>1, <2>3
            <6>3. QED BY <1>1, <1>3, <3>2, <6>2
          <5>3. QED BY <2>1, <5>1, <5>2
        <4>3. QED BY <4>1, <4>2 DEF Listed
      <3>3. CASE b \notin added
        <4>1. b \in Blocks /\ addr'[b] = addr[b] /\ b < numblocks /\ b \in Nat
          BY <1>1, <1>5, <1>6, <1>7, <3>3
        <4>2. ASSUME NEW i \in 1 .. Len(active), active[i] = b
              PROVE  i + fresh \in 1 .. Len(active') /\ active'[i + fresh] = b
          BY <2>1, <2>2, <4>2
        <4>3. ASSUME NEW i \in 1 .. Len(active'), active'[i] = b
              PROVE  i - fresh \in 1 .. Len(active) /\ active[i - fresh] = b
          <5>1. i > fresh
            BY <1>1, <2>1, <2>2, <4>1, <4>3
          <5>2. QED BY <2>1, <2>2, <4>3, <5>1
        <4>4. Listed(active', b) <=> Listed(active, b)
          BY <4>2, <4>3 DEF Listed
        <4>5. QED BY <4>1, <4>4 DEF ActiveList
      <3>4. QED BY <3>1, <3>2, <3>3
    <2>6. Len(active') = Minimum(numblocks', MaxBlocksInMem)
      BY <1>4, <1>7, <2>1, <2>2 DEF top
    <2>7. QED BY <2>4, <2>5, <2>6 DEF ActiveList
  <1>12. NewIsOut'
    BY <1>4, <1>5, <1>6, <1>7 DEF NewIsOut
  <1>13. NothingLost'
    <2>1. \A b : Used(b)' => Used(b)
      BY <1>4 DEF Used, Pending, BlockOf, Idle
    <2>2. \A b : Used(b) => b \in Blocks
      <3>1. ASSUME NEW a \in written PROVE BlockOf(a) \in Blocks
        <4>1. a \in Nat /\ a <= used
          BY <1>1 DEF TypeOK
        <4>2. BlockOf(a) \in Nat /\ BlockOf(a) <= BlockOf(used) /\ BlockOf(used) \in Nat
          BY <1>1, <4>1, OffsetSplit, BlockMonotone
        <4>3. used # 0
          BY <1>1 DEF TypeOK
        <4>4. numblocks = BlockOf(used) + 1
          BY <4>3 DEF Sized, BlocksFor, BlockOf
        <4>5. QED BY <1>6, <4>2, <4>4
      <3>2. QED BY <3>1 DEF Used
    <2>3. \A b \in Blocks : addr'[b] = addr[b] /\ dirty'[b] = dirty[b]
                            /\ isnew'[b] = isnew[b]
      BY <1>4, <1>5, <1>6, <1>7
    <2>4. QED BY <1>4, <1>6, <2>1, <2>2, <2>3 DEF NothingLost
  <1>14. ErrorOnlyUnwritten'
    BY <1>4 DEF ErrorOnlyUnwritten
  <1>15. QED BY <1>8, <1>9, <1>10, <1>11, <1>12, <1>13, <1>14

(* A call of Write or Read that starts inside the heap stays inside it.    *)
LEMMA BeginWritePreserves ==
  ASSUME HeapInv, NEW off \in Nat, NEW bytes \in Seq(Byte), BeginWrite(off, bytes)
  PROVE  HeapInv'
  <1> USE DEF HeapInv
  <1>1. /\ op = Idle /\ ~halted /\ numblocks > 0 /\ off + Len(bytes) <= used
        /\ op' = [kind |-> "write", pos |-> off, bytes |-> bytes, count |-> Len(bytes)]
        /\ written' = written \cup (off .. off + Len(bytes) - 1)
        /\ answer' = <<>>
        /\ UNCHANGED <<used, numblocks, addr, dirty, isnew, active, file, halted>>
    BY DEF BeginWrite, heapVars, cacheVars
  <1>2. Len(bytes) \in Nat /\ used \in Nat /\ written \subseteq 0 .. used - 1
    BY LenProperties DEF TypeOK
  <1>3. Blocks' = Blocks
    BY <1>1 DEF Blocks
  <1>4. TypeOK'
    <2>1. op' \in [kind : {"idle", "read", "write"}, pos : Nat,
                   bytes : Seq(Byte), count : Nat]
      BY <1>1, <1>2
    <2>2. written' \subseteq 0 .. used' - 1
      <3>1. used' = used /\ written' = written \cup (off .. off + Len(bytes) - 1)
            /\ off + Len(bytes) <= used
        BY <1>1
      <3>2. ASSUME NEW a \in written' PROVE a \in 0 .. used' - 1
        <4>1. CASE a \in written
          BY <1>2, <3>1, <4>1
        <4>2. CASE a \in off .. off + Len(bytes) - 1
          BY <1>2, <3>1, <4>2
        <4>3. QED BY <3>1, <4>1, <4>2
      <3>3. QED BY <3>2
    <2>3. QED BY <1>1, <1>3, <2>1, <2>2, EmptySeq DEF TypeOK
  <1>5. Pending' = off .. off + Len(bytes) - 1
    BY <1>1 DEF Pending
  <1>6. CallInRange'
    BY <1>1, <1>2, <1>5 DEF CallInRange
  <1>7. \A b : Used(b)' => Used(b)
    <2>1. Pending = {}
      BY <1>1 DEF Pending, Idle
    <2>2. (written \ Pending)' \subseteq written \ Pending
      BY <1>1, <1>5, <2>1
    <2>3. QED BY <2>2 DEF Used, BlockOf
  <1>8. Sized' /\ ActiveList' /\ NewIsOut'
    BY <1>1, <1>3 DEF Sized, BlocksFor, ActiveList, Listed, NewIsOut
  <1>9. NothingLost'
    BY <1>1, <1>3, <1>7 DEF NothingLost
  <1>10. ErrorOnlyUnwritten'
    BY <1>1 DEF ErrorOnlyUnwritten
  <1>11. QED BY <1>4, <1>6, <1>8, <1>9, <1>10

(* Starting a Read touches no block: only the pending call changes.        *)
LEMMA BeginReadPreserves ==
  ASSUME HeapInv, NEW off \in Nat, NEW count \in Nat, BeginRead(off, count)
  PROVE  HeapInv'
  <1> USE DEF HeapInv
  <1>1. /\ op = Idle /\ ~halted /\ numblocks > 0 /\ off + count <= used
        /\ op' = [kind |-> "read", pos |-> off, bytes |-> <<>>, count |-> count]
        /\ answer' = <<>>
        /\ UNCHANGED <<used, numblocks, addr, dirty, isnew, active, file, halted, written>>
    BY DEF BeginRead, heapVars, cacheVars
  <1>2. Blocks' = Blocks /\ Pending' = {} /\ Pending = {}
    BY <1>1 DEF Blocks, Pending, Idle
  <1>3. TypeOK'
    <2>1. op' \in [kind : {"idle", "read", "write"}, pos : Nat,
                   bytes : Seq(Byte), count : Nat]
      BY <1>1, EmptySeq
    <2>2. QED BY <1>1, <1>2, <2>1, EmptySeq DEF TypeOK
  <1>4. CallInRange'
    BY <1>1, <1>2 DEF CallInRange
  <1>5. \A b : Used(b)' => Used(b)
    BY <1>1, <1>2 DEF Used, BlockOf
  <1>6. Sized' /\ ActiveList' /\ NewIsOut'
    BY <1>1, <1>2 DEF Sized, BlocksFor, ActiveList, Listed, NewIsOut
  <1>7. NothingLost' /\ ErrorOnlyUnwritten'
    BY <1>1, <1>2, <1>5 DEF NothingLost, ErrorOnlyUnwritten
  <1>8. QED BY <1>3, <1>4, <1>6, <1>7

-----------------------------------------------------------------------------
(* Activate of a block in memory: it moves to the head, nothing is evicted.*)
LEMMA ChunkInMemoryPreserves ==
  ASSUME HeapInv, ChunkInMemory
  PROVE  HeapInv'
  <1> USE DEF HeapInv
  <1>1. /\ op # Idle /\ ~halted /\ addr[Block] # Nowhere
        /\ CopyChunk(addr[Block], addr, dirty)
        /\ UNCHANGED <<used, numblocks, isnew, file, halted, written>>
    BY DEF ChunkInMemory, heapVars
  <1>2. PICK k \in 1 .. Len(active) :
          active[k] = Block /\ active' = PushFront(active, k, Block)
    BY DEF ChunkInMemory
  <1>3. Block \in Blocks /\ Blocks' = Blocks
    BY <1>1, ChunkInBlock DEF Blocks
  <1>4. addr[Block] \in Buffer /\ addr \in [Blocks -> Buffer \cup {Nowhere}]
        /\ dirty \in [Blocks -> BOOLEAN]
    BY <1>1, <1>3 DEF TypeOK
  <1>5. /\ addr' \in [Blocks -> Buffer \cup {Nowhere}]
        /\ addr'[Block] \in Buffer
        /\ \A b \in Blocks : b # Block => addr'[b] = addr[b]
        /\ dirty' \in [Blocks -> BOOLEAN]
        /\ \A b \in Blocks : b # Block => dirty'[b] = dirty[b]
        /\ dirty'[Block] \/ (addr'[Block] = addr[Block] /\ dirty'[Block] = dirty[Block])
        /\ op' \in [kind : {"idle", "read", "write"}, pos : Nat,
                    bytes : Seq(Byte), count : Nat]
        /\ answer' \in Seq(Byte)
        /\ CallInRange'
        /\ \A b : Used(b)' => Used(b) \/ (b = Block /\ dirty'[Block])
    BY <1>1, <1>4, CopyChunkFacts
  <1>6. active' \in Seq(Blocks) /\ Len(active') = Len(active)
    BY <1>2, <1>3, PushFrontShape DEF TypeOK
  <1>7. TypeOK'
    BY <1>1, <1>3, <1>5, <1>6 DEF TypeOK
  <1>8. ActiveList'
    <2>1. /\ \A i, j \in 1 .. Len(active) : active[i] = active[j] => i = j
          /\ \A i \in 1 .. Len(active) : active[i] = Block => i = k
      BY <1>2 DEF ActiveList
    <2>2. active \in Seq(Blocks)
      BY DEF TypeOK
    <2>3. \A i, j \in 1 .. Len(active) : active'[i] = active'[j] => i = j
      BY <1>2, <1>3, <2>1, <2>2, PushFrontDistinct
    <2>4. ASSUME NEW b \in Blocks
          PROVE  addr'[b] # Nowhere <=> Listed(active', b)
      <3>1. addr'[b] # Nowhere <=> addr[b] # Nowhere
        BY <1>1, <1>3, <1>5, ValueAssumption
      <3>2. Listed(active', b) <=> (b = Block \/ (Listed(active, b) /\ b # active[k]))
        BY <1>2, <1>3, <2>1, <2>2, PushFrontMembers
      <3>3. addr[b] # Nowhere <=> Listed(active, b)
        BY DEF ActiveList
      <3>4. QED BY <1>1, <1>2, <3>1, <3>2, <3>3
    <2>5. QED BY <1>1, <1>3, <1>6, <2>3, <2>4 DEF ActiveList
  <1>9. Sized' /\ NewIsOut'
    BY <1>1, <1>3, <1>5 DEF Sized, BlocksFor, NewIsOut
  <1>10. NothingLost'
    BY <1>1, <1>3, <1>5, ValueAssumption DEF NothingLost, NewIsOut
  <1>11. ErrorOnlyUnwritten'
    BY <1>1 DEF ErrorOnlyUnwritten
  <1>12. QED BY <1>5, <1>7, <1>8, <1>9, <1>10, <1>11

(* The block that loses its buffer is the last of the active list, and not  *)
(* the one to activate; its bytes are in the file before the buffer is      *)
(* reused, and the file keeps every other block.                           *)
LEMMA EvictionFacts ==
  ASSUME HeapInv, ChunkFromFile
  PROVE  /\ op # Idle /\ addr[Block] = Nowhere
         /\ isnew[Block] \/ Block < Len(Evicted)
         /\ file' = Evicted
         /\ active' = PushFront(active, Len(active), Block)
         /\ isnew' = [isnew EXCEPT ![Block] = FALSE]
         /\ UNCHANGED <<used, numblocks, halted, written>>
         /\ Block \in Blocks /\ Blocks' = Blocks
         /\ active \in Seq(Blocks) /\ Len(active) \in 1 .. Len(active)
         /\ file \in Seq(Buffer)
         /\ Victim \in Blocks /\ Victim \in Nat /\ active[Len(active)] = Victim
         /\ addr[Victim] \in Buffer /\ Victim # Block
         /\ Evicted \in Seq(Buffer) /\ Len(Evicted) >= Len(file)
         /\ dirty[Victim] => Len(Evicted) > Victim /\ Evicted[Victim + 1] = addr[Victim]
         /\ \A i \in 1 .. Len(file) : (dirty[Victim] /\ i = Victim + 1)
                                      \/ Evicted[i] = file[i]
         /\ Loaded \in Buffer
         /\ \E addrs \in [Blocks -> Buffer \cup {Nowhere}], dirties \in [Blocks -> BOOLEAN] :
              /\ CopyChunk(Loaded, addrs, dirties)
              /\ addrs[Victim] = Nowhere /\ dirties[Block] = isnew[Block]
              /\ \A b \in Blocks : b # Victim => addrs[b] = addr[b]
              /\ \A b \in Blocks : b # Victim /\ b # Block => dirties[b] = dirty[b]
  <1> USE DEF HeapInv
  <1> DEFINE n       == Len(active)
             addrs   == [addr EXCEPT ![Victim] = Nowhere]
             dirties == [dirty EXCEPT ![Victim] = FALSE, ![Block] = isnew[Block]]
  <1>1. /\ op # Idle /\ ~halted /\ addr[Block] = Nowhere
        /\ isnew[Block] \/ Block < Len(Evicted)
        /\ file' = Evicted
        /\ active' = PushFront(active, n, Block)
        /\ isnew' = [isnew EXCEPT ![Block] = FALSE]
        /\ CopyChunk(Loaded, addrs, dirties)
        /\ UNCHANGED <<used, numblocks, halted, written>>
    BY DEF ChunkFromFile, heapVars
  <1>2. Block \in Blocks /\ Blocks' = Blocks /\ numblocks \in Nat /\ numblocks > 0
    BY <1>1, ChunkInBlock DEF Blocks, TypeOK, CallInRange
  <1>3. /\ active \in Seq(Blocks) /\ n \in Nat /\ n \in 1 .. n
        /\ file \in Seq(Buffer)
    BY <1>2, SizeAssumption, LenProperties DEF TypeOK, ActiveList, Minimum
  <1>4. /\ Victim \in Blocks /\ Victim \in Nat /\ active[n] = Victim
        /\ addr[Victim] \in Buffer /\ Victim # Block
    <2>1. Victim \in Blocks /\ active[n] = Victim
      BY <1>3, ElementOfSeq DEF Victim
    <2>2. addr[Victim] # Nowhere
      BY <1>3, <2>1 DEF ActiveList, Listed
    <2>3. QED BY <1>1, <1>2, <2>1, <2>2 DEF TypeOK, Blocks
  <1>5. /\ Evicted \in Seq(Buffer) /\ Len(Evicted) >= Len(file)
        /\ dirty[Victim] => Len(Evicted) > Victim /\ Evicted[Victim + 1] = addr[Victim]
        /\ \A i \in 1 .. Len(file) : (dirty[Victim] /\ i = Victim + 1)
                                     \/ Evicted[i] = file[i]
    <2>1. CASE dirty[Victim]
      <3> DEFINE f == FileWith(Victim, addr[Victim])
      <3>1. /\ f \in Seq(Buffer) /\ Len(f) >= Len(file) /\ Len(f) > Victim
            /\ f[Victim + 1] = addr[Victim]
            /\ \A i \in 1 .. Len(file) : i # Victim + 1 => f[i] = file[i]
        BY <1>3, <1>4, FileWithFacts
      <3>2. Evicted = f
        BY <2>1 DEF Evicted
      <3> HIDE DEF f
      <3>3. QED BY <2>1, <3>1, <3>2
    <2>2. CASE ~dirty[Victim]
      <3>1. Evicted = file
        BY <2>2 DEF Evicted
      <3>2. Len(file) \in Nat
        BY <1>3, LenProperties
      <3>3. QED BY <1>3, <2>2, <3>1, <3>2
    <2>3. QED BY <2>1, <2>2
  <1>6. Loaded \in Buffer
    <2>1. CASE isnew[Block]
      BY <2>1, ValueAssumption DEF Loaded, ZeroBuffer, Buffer
    <2>2. CASE ~isnew[Block]
      <3>1. Block + 1 \in 1 .. Len(Evicted)
        BY <1>1, <1>2, <1>5, <2>2, LenProperties DEF Blocks
      <3>2. QED BY <1>5, <2>2, <3>1, ElementOfSeq DEF Loaded
    <2>3. QED BY <2>1, <2>2
  <1>7. /\ addrs \in [Blocks -> Buffer \cup {Nowhere}]
        /\ dirties \in [Blocks -> BOOLEAN]
        /\ addrs[Victim] = Nowhere /\ dirties[Block] = isnew[Block]
        /\ \A b \in Blocks : b # Victim => addrs[b] = addr[b]
        /\ \A b \in Blocks : b # Victim /\ b # Block => dirties[b] = dirty[b]
    BY <1>2, <1>4 DEF TypeOK
  <1> HIDE DEF addrs, dirties
  <1>8. QED BY <1>1, <1>2, <1>3, <1>4, <1>5, <1>6, <1>7

(* Activate of a block that is not in memory: it takes the last buffer.    *)
LEMMA ChunkFromFilePreserves ==
  ASSUME HeapInv, ChunkFromFile
  PROVE  HeapInv'
  <1> USE DEF HeapInv
  <1> DEFINE n == Len(active)
  <1>1. /\ op # Idle /\ ~halted /\ addr[Block] = Nowhere
        /\ isnew[Block] \/ Block < Len(Evicted)
        /\ file' = Evicted
        /\ active' = PushFront(active, n, Block)
        /\ isnew' = [isnew EXCEPT ![Block] = FALSE]
        /\ UNCHANGED <<used, numblocks, halted, written>>
    BY DEF ChunkFromFile, heapVars
  <1>2. Block \in Blocks /\ Blocks' = Blocks
    BY EvictionFacts
  <1>3. /\ active \in Seq(Blocks) /\ n \in Nat /\ n \in 1 .. n
        /\ file \in Seq(Buffer)
    BY EvictionFacts, LenProperties
  <1>4. /\ Victim \in Blocks /\ Victim \in Nat /\ active[n] = Victim
        /\ addr[Victim] \in Buffer /\ Victim # Block
    BY EvictionFacts
  <1>5. active' \in Seq(Blocks) /\ Len(active') = n
    BY <1>1, <1>2, <1>3, PushFrontShape
  <1>6. /\ Evicted \in Seq(Buffer) /\ Len(Evicted) >= Len(file)
        /\ dirty[Victim] => Len(Evicted) > Victim /\ Evicted[Victim + 1] = addr[Victim]
        /\ \A i \in 1 .. Len(file) : (dirty[Victim] /\ i = Victim + 1)
                                     \/ Evicted[i] = file[i]
    BY EvictionFacts
  <1>7. Loaded \in Buffer
    BY EvictionFacts
  <1>8. PICK addrs \in [Blocks -> Buffer \cup {Nowhere}], dirties \in [Blocks -> BOOLEAN] :
          /\ CopyChunk(Loaded, addrs, dirties)
          /\ addrs[Victim] = Nowhere /\ dirties[Block] = isnew[Block]
          /\ \A b \in Blocks : b # Victim => addrs[b] = addr[b]
          /\ \A b \in Blocks : b # Victim /\ b # Block => dirties[b] = dirty[b]
    BY EvictionFacts
  <1>9. /\ addr' \in [Blocks -> Buffer \cup {Nowhere}]
        /\ addr'[Block] \in Buffer
        /\ \A b \in Blocks : b # Block => addr'[b] = addrs[b]
        /\ dirty' \in [Blocks -> BOOLEAN]
        /\ \A b \in Blocks : b # Block => dirty'[b] = dirties[b]
        /\ dirty'[Block] \/ (addr'[Block] = Loaded /\ dirty'[Block] = dirties[Block])
        /\ op' \in [kind : {"idle", "read", "write"}, pos : Nat,
                    bytes : Seq(Byte), count : Nat]
        /\ answer' \in Seq(Byte)
        /\ CallInRange'
        /\ \A b : Used(b)' => Used(b) \/ (b = Block /\ dirty'[Block])
    BY <1>1, <1>7, <1>8, CopyChunkFacts
  <1>10. TypeOK'
    <2>1. isnew' \in [Blocks -> BOOLEAN]
      BY <1>1, <1>2 DEF TypeOK
    <2>2. QED BY <1>1, <1>2, <1>6, <1>9, <1>5, <2>1 DEF TypeOK
  <1>11. ActiveList'
    <2>1. /\ \A i, j \in 1 .. n : active[i] = active[j] => i = j
          /\ \A b \in Blocks : addr[b] # Nowhere <=> Listed(active, b)
          /\ n = Minimum(numblocks, MaxBlocksInMem)
      BY DEF ActiveList
    <2>2. \A i \in 1 .. n : active[i] = Block => i = n
      BY <1>1, <1>2, <2>1 DEF Listed
    <2>3. \A i, j \in 1 .. n : active'[i] = active'[j] => i = j
      BY <1>1, <1>2, <1>3, <2>1, <2>2, PushFrontDistinct
    <2>4. ASSUME NEW b \in Blocks
          PROVE  addr'[b] # Nowhere <=> Listed(active', b)
      <3>1. Listed(active', b) <=> (b = Block \/ (Listed(active, b) /\ b # Victim))
        BY <1>1, <1>2, <1>3, <1>4, <2>1, PushFrontMembers
      <3>2. CASE b = Block
        BY <1>9, <3>1, <3>2, ValueAssumption
      <3>3. CASE b = Victim
        BY <1>4, <1>8, <1>9, <3>1, <3>3
      <3>4. CASE b # Block /\ b # Victim
        BY <1>8, <1>9, <2>1, <3>1, <3>4
      <3>5. QED BY <3>2, <3>3, <3>4
    <2>5. QED BY <1>1, <1>2, <1>5, <2>1, <2>3, <2>4 DEF ActiveList
  <1>12. Sized'
    BY <1>1 DEF Sized, BlocksFor
  <1>13. NewIsOut'
    BY <1>1, <1>2, <1>8, <1>9 DEF NewIsOut, TypeOK
  <1>14. NothingLost'
    <2> SUFFICES ASSUME NEW b \in Blocks, Used(b)'
                 PROVE  /\ ~isnew'[b]
                        /\ addr'[b] = Nowhere => b < Len(file')
                        /\ addr'[b] # Nowhere /\ ~dirty'[b]
                           => b < Len(file') /\ file'[b + 1] = addr'[b]
      BY <1>2 DEF NothingLost
    <2>1. b \in Nat /\ Len(file) \in Nat /\ Len(Evicted) \in Nat /\ Len(file) <= Len(Evicted)
      BY <1>3, <1>6, LenProperties DEF Blocks
    <2>2. CASE b = Block
      <3>1. ~isnew'[b]
        BY <1>1, <1>2, <2>2 DEF TypeOK
      <3>2. addr'[b] # Nowhere
        BY <1>9, <2>2, ValueAssumption
      <3>3. ASSUME ~dirty'[b] PROVE b < Len(file') /\ file'[b + 1] = addr'[b]
        <4>1. addr'[b] = Loaded /\ ~isnew[Block]
          BY <1>8, <1>9, <2>2, <3>3
        <4>2. QED BY <1>1, <2>2, <4>1 DEF Loaded
      <3>4. QED BY <3>1, <3>2, <3>3
    <2>3. CASE b # Block
      <3>1. /\ Used(b) /\ ~isnew[b]
            /\ addr[b] = Nowhere => b < Len(file)
            /\ addr[b] # Nowhere /\ ~dirty[b] => b < Len(file) /\ file[b + 1] = addr[b]
        BY <1>9, <2>3 DEF NothingLost
      <3>2. ~isnew'[b]
        BY <1>1, <2>3, <3>1 DEF TypeOK
      <3>3. CASE b = Victim
        <4>1. addr'[b] = Nowhere
          BY <1>4, <1>8, <1>9, <3>3
        <4>2. b < Len(Evicted)
          BY <1>4, <1>6, <2>1, <3>1, <3>3, ValueAssumption
        <4>3. b < Len(file')
          BY <1>1, <4>2
        <4>4. QED BY <3>2, <4>1, <4>3
      <3>4. CASE b # Victim
        <4>1. addr'[b] = addr[b] /\ dirty'[b] = dirty[b]
          BY <1>8, <1>9, <2>3, <3>4
        <4>2. b < Len(file) => b < Len(Evicted) /\ Evicted[b + 1] = file[b + 1]
          <5>1. b + 1 # Victim + 1
            BY <1>4, <2>1, <3>4
          <5>2. b < Len(file) => b + 1 \in 1 .. Len(file) /\ b < Len(Evicted)
            BY <2>1
          <5>3. QED BY <1>6, <5>1, <5>2
        <4>3. QED BY <1>1, <3>1, <3>2, <4>1, <4>2
      <3>5. QED BY <3>3, <3>4
    <2>4. QED BY <2>2, <2>3
  <1>15. ErrorOnlyUnwritten'
    BY <1>1 DEF ErrorOnlyUnwritten
  <1>16. QED BY <1>9, <1>10, <1>11, <1>12, <1>13, <1>14, <1>15

(* A read error needs a block that is neither new nor in the file, which    *)
(* NothingLost rules out for every block a Write has reached.               *)
LEMMA ReadErrorPreserves ==
  ASSUME HeapInv, ReadError
  PROVE  HeapInv'
  <1> USE DEF HeapInv
  <1>1. /\ op # Idle /\ addr[Block] = Nowhere
        /\ ~isnew[Block] /\ Block >= Len(Evicted)
        /\ halted' = TRUE
        /\ UNCHANGED <<used, numblocks, addr, dirty, isnew, active, file, op,
                       answer, written>>
    BY DEF ReadError, heapVars, cacheVars
  <1>2. Block \in Blocks /\ Block \in Nat
    BY <1>1, ChunkInBlock DEF Blocks
  <1>3. Len(Evicted) >= Len(file) /\ Len(file) \in Nat /\ Len(Evicted) \in Nat
    <2>1. file \in Seq(Buffer)
      BY DEF TypeOK
    <2>2. CASE dirty[Victim]
      <3>1. active \in Seq(Blocks) /\ Len(active) \in 1 .. Len(active)
        BY <1>1, SizeAssumption, LenProperties
           DEF TypeOK, ActiveList, Minimum, CallInRange
      <3>2. Victim \in Blocks
        BY <3>1, ElementOfSeq DEF Victim
      <3>3. addr[Victim] # Nowhere
        BY <3>1, <3>2 DEF ActiveList, Victim, Listed
      <3>4. Victim \in Nat /\ addr[Victim] \in Buffer
        BY <3>2, <3>3 DEF TypeOK, Blocks
      <3>5. QED BY <2>1, <2>2, <3>4, FileWithFacts, LenProperties DEF Evicted
    <2>3. CASE ~dirty[Victim]
      BY <2>1, <2>3, LenProperties DEF Evicted
    <2>4. QED BY <2>2, <2>3
  <1>4. ~Used(Block)
    BY <1>1, <1>2, <1>3 DEF NothingLost
  <1>5. ErrorOnlyUnwritten'
    BY <1>1, <1>4 DEF ErrorOnlyUnwritten, Used, Pending, Block, BlockOf
  <1>6. TypeOK' /\ CallInRange' /\ Sized' /\ ActiveList' /\ NewIsOut' /\ NothingLost'
    <2>1. TypeOK' /\ CallInRange' /\ Sized'
      BY <1>1 DEF TypeOK, CallInRange, Sized, BlocksFor, Pending, Blocks
    <2>2. ActiveList' /\ NewIsOut'
      BY <1>1 DEF ActiveList, Listed, NewIsOut, Blocks
    <2>3. NothingLost'
      BY <1>1 DEF NothingLost, Used, Pending, Blocks, BlockOf
    <2> QED BY <2>1, <2>2, <2>3
  <1>7. QED BY <1>5, <1>6

-----------------------------------------------------------------------------
(* Every operation of the heap preserves the inductive invariant.          *)
LEMMA StepPreserves == HeapInv /\ [Next]_vars => HeapInv'
  <1> SUFFICES ASSUME HeapInv, [Next]_vars PROVE HeapInv'
    OBVIOUS
  <1>1. ASSUME NEW n \in AllocSizes, Alloc(n) PROVE HeapInv'
    BY <1>1, AllocPreserves, ValueAssumption
  <1>2. ASSUME NEW w \in Writes, BeginWrite(w[1], w[2]) PROVE HeapInv'
    <2>1. w[1] \in Nat /\ w[2] \in Seq(Byte)
      BY ValueAssumption
    <2>2. QED BY <1>2, <2>1, BeginWritePreserves
  <1>3. ASSUME NEW r \in Reads, BeginRead(r[1], r[2]) PROVE HeapInv'
    <2>1. r[1] \in Nat /\ r[2] \in Nat
      BY ValueAssumption
    <2>2. QED BY <1>3, <2>1, BeginReadPreserves
  <1>4. CASE ChunkInMemory
    BY <1>4, ChunkInMemoryPreserves
  <1>5. CASE ChunkFromFile
    BY <1>5, ChunkFromFilePreserves
  <1>6. CASE ReadError
    BY <1>6, ReadErrorPreserves
  <1>7. CASE UNCHANGED vars
    BY <1>7 DEF HeapInv, TypeOK, CallInRange, Sized, BlocksFor, ActiveList, Listed, NewIsOut,
                NothingLost, ErrorOnlyUnwritten, Used, Pending, Blocks, Block,
                BlockOf, Within, vars
  <1>8. QED BY <1>1, <1>2, <1>3, <1>4, <1>5, <1>6, <1>7 DEF Next

(* HeapInv holds in every reachable state: Alloc, Write, Read, Activate and *)
(* Clear never break the agreement of buffers, active list and file.       *)
THEOREM HeapInvHolds == Spec => []HeapInv
  <1>1. QED BY InitEstablishes, StepPreserves, PTL DEF Spec

(* Every variable of VHeap keeps its type.                                 *)
THEOREM TypesHold == Spec => []TypeOK
  <1>1. HeapInv => TypeOK
    BY DEF HeapInv
  <1>2. QED BY <1>1, HeapInvHolds, PTL

(* The active list of Activate names exactly the blocks in memory, once     *)
(* each, and is never longer than m_maxblocksinmem.                         *)
THEOREM ActiveListHolds == Spec => []ActiveList
  <1>1. HeapInv => ActiveList
    BY DEF HeapInv
  <1>2. QED BY <1>1, HeapInvHolds, PTL

(* A block that Write has reached survives every eviction: it is in memory, *)
(* or the backing file has it, and Activate will not clear it.              *)
THEOREM NothingLostHolds == Spec => []NothingLost
  <1>1. HeapInv => NothingLost
    BY DEF HeapInv
  <1>2. QED BY <1>1, HeapInvHolds, PTL

(* "Read Error!" is only ever raised for a block no Write has reached.      *)
THEOREM ErrorOnlyUnwrittenHolds == Spec => []ErrorOnlyUnwritten
  <1>1. HeapInv => ErrorOnlyUnwritten
    BY DEF HeapInv
  <1>2. QED BY <1>1, HeapInvHolds, PTL

(* Activate's assertion on the block number never fails.                    *)
THEOREM OnlyAllocatedHolds == Spec => []OnlyAllocated
  <1>1. HeapInv => OnlyAllocated
    BY ChunkInBlock DEF HeapInv, OnlyAllocated
  <1>2. QED BY <1>1, HeapInvHolds, PTL

-----------------------------------------------------------------------------
(* The refinement: what the client reads.  ReadSoFar adds to HeapInv that    *)
(* the bytes a Read has copied so far are those of the heap, whatever        *)
(* Activate has moved since.                                                 *)
ReadSoFar ==
  op.kind = "read" =>
    /\ op.pos - Len(op.bytes) >= 0
    /\ \A i \in 1 .. Len(op.bytes) :
         Cell(op.pos - Len(op.bytes) + i - 1) \in {op.bytes[i], Unset}

ReadInv == HeapInv /\ ReadSoFar

(* Two bytes of one block are as far apart in it as in the heap.           *)
LEMMA SameBlockApart ==
  ASSUME NEW a \in Nat, NEW c \in Nat, BlockOf(a) = BlockOf(c)
  PROVE  Within(a) - Within(c) = a - c
  <1>1. /\ a = BlockSize * BlockOf(a) + Within(a)
        /\ c = BlockSize * BlockOf(c) + Within(c)
    BY SizeAssumption DEF BlockOf, Within
  <1>2. /\ BlockSize * BlockOf(a) \in Nat
        /\ Within(a) \in Nat /\ Within(c) \in Nat
    BY SizeAssumption DEF BlockOf, Within
  <1> DEFINE start == BlockSize * BlockOf(a)
  <1>3. a = start + Within(a) /\ c = start + Within(c)
    BY <1>1
  <1>4. start \in Nat
    BY <1>2
  <1> HIDE DEF start
  <1>5. QED BY <1>2, <1>3, <1>4

(* A byte the client has allocated is in an allocated block.               *)
LEMMA AllocatedBlock ==
  ASSUME HeapInv, NEW a \in Nat, a < used
  PROVE  BlockOf(a) \in Blocks
  <1>1. used \in Nat /\ numblocks = BlockOf(used) + 1
    BY DEF HeapInv, TypeOK, Sized, BlocksFor, BlockOf
  <1>2. BlockOf(a) <= BlockOf(used) /\ BlockOf(a) \in Nat /\ BlockOf(used) \in Nat
    BY <1>1, BlockMonotone, OffsetSplit
  <1>3. QED BY <1>1, <1>2 DEF Blocks

(* Every cell of the heap is a byte, or was never written.                 *)
LEMMA CellType ==
  ASSUME HeapInv, NEW a \in 0 .. used - 1
  PROVE  Cell(a) \in Byte \cup {Unset}
  <1> USE DEF HeapInv
  <1>1. used \in Nat /\ a \in Nat /\ a < used
    BY DEF TypeOK
  <1>2. CASE a \in Pending
    <2>1. op.kind = "write" /\ a \in op.pos .. op.pos + op.count - 1
      BY <1>2 DEF Pending
    <2>2. op.kind # "idle" /\ Len(op.bytes) = op.count
      BY <2>1 DEF CallInRange
    <2>3. op.bytes \in Seq(Byte) /\ op.pos \in Nat /\ op.count \in Nat
      BY DEF TypeOK
    <2>4. a - op.pos + 1 \in 1 .. Len(op.bytes)
      BY <1>1, <2>1, <2>2, <2>3
    <2>5. op.bytes[a - op.pos + 1] \in Byte
      BY <2>3, <2>4, ElementOfSeq
    <2>6. QED BY <1>2, <2>5 DEF Cell
  <1>3. CASE a \notin Pending
    <2>1. BlockOf(a) \in Blocks /\ BlockOf(a) \in Nat /\ Within(a) \in 0 .. BlockSize - 1
      BY <1>1, AllocatedBlock, OffsetSplit
    <2>2. CASE addr[BlockOf(a)] # Nowhere
      <3>1. addr[BlockOf(a)] \in Buffer
        BY <2>1, <2>2 DEF TypeOK
      <3>2. addr[BlockOf(a)][Within(a)] \in Byte
        BY <2>1, <3>1 DEF Buffer
      <3>3. QED BY <1>3, <2>2, <3>2 DEF Cell, Stored
    <2>3. CASE addr[BlockOf(a)] = Nowhere /\ BlockOf(a) < Len(file)
      <3>1. file \in Seq(Buffer) /\ BlockOf(a) + 1 \in 1 .. Len(file)
        BY <2>1, <2>3, LenProperties DEF TypeOK
      <3>2. file[BlockOf(a) + 1] \in Buffer
        BY <3>1, ElementOfSeq
      <3>3. file[BlockOf(a) + 1][Within(a)] \in Byte
        BY <2>1, <3>2 DEF Buffer
      <3>4. QED BY <1>3, <2>3, <3>3 DEF Cell, Stored
    <2>4. CASE addr[BlockOf(a)] = Nowhere /\ ~(BlockOf(a) < Len(file))
      BY <1>3, <2>4 DEF Cell, Stored
    <2>5. QED BY <2>2, <2>3, <2>4
  <1>4. QED BY <1>2, <1>3

(* What Activate does for the turn of the loop that follows it: the buffer   *)
(* it returns holds what was stored in the block, and every other block      *)
(* keeps what was stored in it, in memory or in the file.                    *)
Activated(buffer, addrs) ==
  \A a \in written \ Pending :
    /\ BlockOf(a) = Block => Stored(a) = buffer[Within(a)]
    /\ BlockOf(a) # Block =>
         \/ addrs[BlockOf(a)] # Nowhere /\ Stored(a) = addrs[BlockOf(a)][Within(a)]
         \/ /\ addrs[BlockOf(a)] = Nowhere
            /\ BlockOf(a) < Len(file')
            /\ Stored(a) = file'[BlockOf(a) + 1][Within(a)]

LEMMA ActivatedInMemory ==
  ASSUME HeapInv, ChunkInMemory
  PROVE  Activated(addr[Block], addr)
  <1> USE DEF HeapInv
  <1>1. addr[Block] # Nowhere /\ file' = file
    BY DEF ChunkInMemory
  <1> SUFFICES ASSUME NEW a \in written \ Pending
               PROVE  /\ BlockOf(a) = Block => Stored(a) = addr[Block][Within(a)]
                      /\ BlockOf(a) # Block =>
                           \/ addr[BlockOf(a)] # Nowhere
                              /\ Stored(a) = addr[BlockOf(a)][Within(a)]
                           \/ /\ addr[BlockOf(a)] = Nowhere
                              /\ BlockOf(a) < Len(file')
                              /\ Stored(a) = file'[BlockOf(a) + 1][Within(a)]
    BY DEF Activated
  <1>2. a \in Nat /\ a < used /\ used \in Nat
    BY DEF TypeOK
  <1>3. BlockOf(a) \in Blocks /\ Used(BlockOf(a))
    BY <1>2, AllocatedBlock DEF Used
  <1>4. addr[BlockOf(a)] = Nowhere => BlockOf(a) < Len(file)
    BY <1>3 DEF NothingLost
  <1>5. QED BY <1>1, <1>4 DEF Stored

LEMMA ActivatedFromFile ==
  ASSUME HeapInv, ChunkFromFile,
         NEW addrs \in [Blocks -> Buffer \cup {Nowhere}],
         addrs[Victim] = Nowhere,
         \A b \in Blocks : b # Victim => addrs[b] = addr[b]
  PROVE  Activated(Loaded, addrs)
  <1> USE DEF HeapInv
  <1>1. /\ addr[Block] = Nowhere /\ file' = Evicted /\ file \in Seq(Buffer)
        /\ Evicted \in Seq(Buffer) /\ Len(Evicted) >= Len(file)
        /\ Victim \in Blocks /\ addr[Victim] \in Buffer /\ Victim # Block
        /\ Block \in Blocks
    BY EvictionFacts
  <1>2. dirty[Victim] => Len(Evicted) > Victim /\ Evicted[Victim + 1] = addr[Victim]
    BY EvictionFacts
  <1>3. \A i \in 1 .. Len(file) : (dirty[Victim] /\ i = Victim + 1) \/ Evicted[i] = file[i]
    BY EvictionFacts
  <1> SUFFICES ASSUME NEW a \in written \ Pending
               PROVE  /\ BlockOf(a) = Block => Stored(a) = Loaded[Within(a)]
                      /\ BlockOf(a) # Block =>
                           \/ addrs[BlockOf(a)] # Nowhere
                              /\ Stored(a) = addrs[BlockOf(a)][Within(a)]
                           \/ /\ addrs[BlockOf(a)] = Nowhere
                              /\ BlockOf(a) < Len(file')
                              /\ Stored(a) = file'[BlockOf(a) + 1][Within(a)]
    BY DEF Activated
  <1> DEFINE b == BlockOf(a)
  <1>4. a \in Nat /\ a < used /\ used \in Nat
    BY DEF TypeOK
  <1>5. b \in Blocks /\ Used(b) /\ b \in Nat
    BY <1>4, AllocatedBlock, OffsetSplit DEF Used
  <1>6. Stored(a) = IF addr[b] # Nowhere THEN addr[b][Within(a)]
                    ELSE IF b < Len(file) THEN file[b + 1][Within(a)] ELSE Unset
    BY DEF Stored
  <1> HIDE DEF b
  <1>7. /\ ~isnew[b]
        /\ addr[b] = Nowhere => b < Len(file)
        /\ addr[b] # Nowhere /\ ~dirty[b] => b < Len(file) /\ file[b + 1] = addr[b]
    BY <1>5 DEF NothingLost
  <1>8. Len(file) \in Nat /\ Len(Evicted) \in Nat /\ Victim \in Nat
    BY <1>1, LenProperties DEF Blocks
  <1>9. b < Len(file) => b < Len(Evicted) /\ b + 1 \in 1 .. Len(file)
    BY <1>1, <1>5, <1>8
  <1>10. b # Victim /\ b < Len(file) => Evicted[b + 1] = file[b + 1]
    BY <1>3, <1>5, <1>8, <1>9
  <1>11. CASE b = Block
    <2>1. Loaded = Evicted[b + 1]
      BY <1>7, <1>11 DEF Loaded
    <2>2. Stored(a) = file[b + 1][Within(a)] /\ b < Len(file)
      BY <1>1, <1>6, <1>7, <1>11
    <2>3. QED BY <1>1, <1>10, <1>11, <2>1, <2>2 DEF b
  <1>12. CASE b = Victim
    <2>1. addr[b] # Nowhere /\ addrs[b] = Nowhere
      BY <1>1, <1>12, ValueAssumption
    <2>2. Stored(a) = addr[b][Within(a)]
      BY <1>6, <2>1
    <2>3. b < Len(Evicted) /\ Evicted[b + 1] = addr[b]
      <3>1. CASE dirty[b]
        BY <1>2, <1>8, <1>12, <3>1
      <3>2. CASE ~dirty[b]
        BY <1>3, <1>7, <1>9, <1>12, <2>1, <3>2
      <3>3. QED BY <3>1, <3>2
    <2>4. QED BY <1>1, <1>12, <2>1, <2>2, <2>3 DEF b
  <1>13. CASE b # Block /\ b # Victim
    <2>1. addrs[b] = addr[b]
      BY <1>5, <1>13
    <2>2. CASE addr[b] # Nowhere
      BY <1>6, <1>13, <2>1, <2>2 DEF b
    <2>3. CASE addr[b] = Nowhere
      BY <1>1, <1>6, <1>7, <1>9, <1>10, <1>13, <2>1, <2>3 DEF b
    <2>4. QED BY <2>2, <2>3
  <1>14. QED BY <1>11, <1>12, <1>13

(* Both ways to activate a block, for the loop body that follows.          *)
LEMMA ActivationFacts ==
  ASSUME HeapInv, ChunkInMemory \/ ChunkFromFile
  PROVE  /\ op # Idle
         /\ UNCHANGED <<used, numblocks, halted, written>>
         /\ \E buffer \in Buffer, addrs \in [Blocks -> Buffer \cup {Nowhere}],
               dirties \in [Blocks -> BOOLEAN] :
              CopyChunk(buffer, addrs, dirties) /\ Activated(buffer, addrs)
  <1>1. CASE ChunkInMemory
    <2>1. /\ op # Idle /\ addr[Block] # Nowhere
          /\ CopyChunk(addr[Block], addr, dirty)
          /\ UNCHANGED <<used, numblocks, halted, written>>
      BY <1>1 DEF ChunkInMemory, heapVars
    <2>2. Block \in Blocks
      BY <2>1, ChunkInBlock DEF HeapInv
    <2>3. addr[Block] \in Buffer /\ addr \in [Blocks -> Buffer \cup {Nowhere}]
          /\ dirty \in [Blocks -> BOOLEAN]
      BY <2>1, <2>2 DEF HeapInv, TypeOK
    <2>4. Activated(addr[Block], addr)
      BY <1>1, ActivatedInMemory
    <2>5. QED BY <2>1, <2>3, <2>4
  <1>2. CASE ChunkFromFile
    <2>1. /\ op # Idle /\ Loaded \in Buffer
          /\ UNCHANGED <<used, numblocks, halted, written>>
      BY <1>2, EvictionFacts
    <2>2. PICK addrs \in [Blocks -> Buffer \cup {Nowhere}], dirties \in [Blocks -> BOOLEAN] :
            /\ CopyChunk(Loaded, addrs, dirties)
            /\ addrs[Victim] = Nowhere
            /\ \A b \in Blocks : b # Victim => addrs[b] = addr[b]
      BY <1>2, EvictionFacts
    <2>3. Activated(Loaded, addrs)
      BY <1>2, <2>2, ActivatedFromFile
    <2>4. QED BY <2>1, <2>2, <2>3
  <1>3. QED BY <1>1, <1>2

(* A turn of the loop of Write moves bytes from the call to the block and    *)
(* changes no cell: the bytes of the chunk, the rest of the call and all     *)
(* other bytes read as before.                                               *)
LEMMA WriteKeepsCells ==
  ASSUME HeapInv, op # Idle, UNCHANGED <<used, written>>,
         NEW buffer \in Buffer, NEW addrs \in [Blocks -> Buffer \cup {Nowhere}],
         NEW dirties \in [Blocks -> BOOLEAN],
         WriteChunk(buffer, addrs, dirties), Activated(buffer, addrs),
         NEW a \in 0 .. used - 1
  PROVE  Cell(a)' = Cell(a)
  <1> USE DEF HeapInv
  <1>1. /\ op.kind = "write"
        /\ addr' = [addrs EXCEPT ![Block] = Overwritten(buffer)]
        /\ op' = Rest(SubSeq(op.bytes, ChunkSize + 1, Len(op.bytes)))
    BY DEF WriteChunk
  <1>2. /\ Block \in Blocks /\ ChunkSize \in 0 .. op.count
        /\ Within(op.pos) \in 0 .. BlockSize - 1
        /\ Within(op.pos) + ChunkSize <= BlockSize
        /\ \A c \in op.pos .. op.pos + ChunkSize - 1 : BlockOf(c) = Block
    BY ChunkInBlock
  <1>3. /\ op.pos \in Nat /\ op.count \in Nat /\ op.bytes \in Seq(Byte)
        /\ Len(op.bytes) = op.count /\ used \in Nat /\ a \in Nat /\ a < used
        /\ written \subseteq 0 .. used - 1 /\ Pending \subseteq written
    BY <1>1 DEF TypeOK, CallInRange
  <1>4. /\ BlockOf(a) \in Blocks /\ Within(a) \in 0 .. BlockSize - 1
    BY <1>3, AllocatedBlock, OffsetSplit
  <1>5. addr'[Block] = Overwritten(buffer) /\ addr'[Block] # Nowhere
    <2>1. addr' \in [Blocks -> Buffer \cup {Nowhere}] /\ addr'[Block] \in Buffer
      <3>1. Overwritten(buffer) \in Buffer
        <4>1. \A i \in 0 .. BlockSize - 1 :
                i - Within(op.pos) \in 0 .. ChunkSize - 1
                => op.bytes[i - Within(op.pos) + 1] \in Byte
          <5>1. \A k \in 1 .. Len(op.bytes) : op.bytes[k] \in Byte
            BY <1>3, ElementOfSeq
          <5>2. ASSUME NEW i \in 0 .. BlockSize - 1,
                       i - Within(op.pos) \in 0 .. ChunkSize - 1
                PROVE  i - Within(op.pos) + 1 \in 1 .. Len(op.bytes)
            <6>1. ChunkSize \in Nat /\ ChunkSize <= op.count
              BY <1>2, <1>3
            <6>2. PICK d \in Nat : d = i - Within(op.pos) /\ d < ChunkSize
              BY <5>2, <6>1
            <6>3. d + 1 \in 1 .. Len(op.bytes)
              BY <1>3, <6>1, <6>2
            <6>4. QED BY <6>2, <6>3
          <5>3. QED BY <5>1, <5>2
        <4>2. QED BY <4>1, SizeAssumption DEF Overwritten, Buffer
      <3>2. QED BY <1>1, <1>2, <3>1
    <2>2. QED BY <1>1, <1>2, <2>1, ValueAssumption
  <1>6. \A b \in Blocks : b # Block => addr'[b] = addrs[b]
    BY <1>1, <1>2
  <1>7. Pending = op.pos .. op.pos + op.count - 1
    BY <1>1 DEF Pending
  <1>8. Pending' = op.pos + ChunkSize .. op.pos + op.count - 1
    <2>1. CASE ChunkSize = op.count
      <3>1. op'.kind = "idle"
        BY <1>1, <2>1 DEF Rest, Idle
      <3>2. Pending' = {}
        BY <3>1 DEF Pending
      <3>3. op.pos + op.count .. op.pos + op.count - 1 = {}
        BY <1>3
      <3>4. QED BY <2>1, <3>2, <3>3
    <2>2. CASE ChunkSize # op.count
      <3>1. /\ op'.kind = "write" /\ op'.pos = op.pos + ChunkSize
            /\ op'.count = op.count - ChunkSize
        BY <1>1, <2>2 DEF Rest
      <3>2. Pending' = op'.pos .. op'.pos + op'.count - 1
        BY <3>1 DEF Pending
      <3>3. PICK pos \in Nat, count \in Nat, chunk \in Nat :
              pos = op.pos /\ count = op.count /\ chunk = ChunkSize /\ chunk <= count
        BY <1>2, <1>3
      <3>4. op'.pos = pos + chunk /\ op'.count = count - chunk
        BY <3>1, <3>3
      <3>5. PICK first \in Nat, rest \in Nat : first = op'.pos /\ rest = op'.count
        BY <3>3, <3>4
      <3>6. first = pos + chunk /\ rest = count - chunk
        BY <3>4, <3>5
      <3>7. PICK last \in Int : last = first + rest - 1
        BY <3>5
      <3>8. Pending' = first .. last
        BY <3>2, <3>5, <3>7
      <3>9. last = pos + count - 1
        BY <3>6, <3>7
      <3>10. first = op.pos + ChunkSize /\ last = op.pos + op.count - 1
        BY <3>3, <3>6, <3>9
      <3>11. QED BY <3>8, <3>10
    <2>3. QED BY <2>1, <2>2
  <1>9. written' = written
    OBVIOUS
  <1>10. CASE a \in op.pos .. op.pos + ChunkSize - 1
    <2>1. a \in Pending /\ a \notin Pending' /\ a \in written
      <3>1. PICK pos \in Nat, count \in Nat, chunk \in Nat :
              pos = op.pos /\ count = op.count /\ chunk = ChunkSize /\ chunk <= count
        BY <1>2, <1>3
      <3>2. pos <= a /\ a < pos + chunk
        BY <1>3, <1>10, <3>1
      <3>3. a \in Pending <=> pos <= a /\ a < pos + count
        BY <1>3, <1>7, <3>1
      <3>4. a \in Pending' <=> pos + chunk <= a /\ a < pos + count
        BY <1>3, <1>8, <3>1
      <3>5. a \in Pending /\ a \notin Pending'
        BY <1>3, <3>1, <3>2, <3>3, <3>4
      <3>6. QED BY <1>3, <3>5
    <2>2. BlockOf(a) = Block /\ BlockOf(a) = BlockOf(op.pos)
      BY <1>2, <1>10 DEF Block
    <2>3. Within(a) - Within(op.pos) = a - op.pos
      BY <1>3, <2>2, SameBlockApart
    <2>4. Within(a) - Within(op.pos) \in 0 .. ChunkSize - 1
      BY <1>2, <1>3, <1>10, <2>3
    <2>5. Overwritten(buffer)[Within(a)] = op.bytes[a - op.pos + 1]
      BY <1>4, <2>3, <2>4 DEF Overwritten
    <2>6. Stored(a)' = op.bytes[a - op.pos + 1]
      BY <1>5, <2>2, <2>5 DEF Stored, BlockOf, Within
    <2>7. Cell(a) = op.bytes[a - op.pos + 1]
      BY <2>1 DEF Cell
    <2>8. Cell(a)' = Stored(a)'
      BY <1>9, <2>1 DEF Cell
    <2>9. QED BY <2>6, <2>7, <2>8
  <1>11. CASE a \in Pending /\ a \notin op.pos .. op.pos + ChunkSize - 1
    <2>1. a \in Pending' /\ ChunkSize # op.count
      BY <1>2, <1>3, <1>7, <1>8, <1>11
    <2>2. op'.pos = op.pos + ChunkSize
          /\ op'.bytes = SubSeq(op.bytes, ChunkSize + 1, Len(op.bytes))
      BY <1>1, <2>1 DEF Rest
    <2>3. /\ Len(op.bytes) \in Nat /\ ChunkSize \in Nat /\ ChunkSize <= Len(op.bytes)
          /\ a - (op.pos + ChunkSize) + 1 \in 1 .. Len(op.bytes) - ChunkSize
          /\ ChunkSize + (a - (op.pos + ChunkSize) + 1) = a - op.pos + 1
      <3>1. a \in op.pos + ChunkSize .. op.pos + op.count - 1
        BY <1>8, <2>1
      <3>2. op.pos \in Nat /\ op.count \in Nat /\ a \in Nat /\ ChunkSize \in 0 .. op.count
        BY <1>2, <1>3
      <3>3. /\ a - (op.pos + ChunkSize) + 1 \in 1 .. op.count - ChunkSize
            /\ ChunkSize + (a - (op.pos + ChunkSize) + 1) = a - op.pos + 1
        BY <3>1, <3>2
      <3>4. QED BY <1>3, <3>2, <3>3
    <2>4. SubSeq(op.bytes, ChunkSize + 1, Len(op.bytes))[a - (op.pos + ChunkSize) + 1]
          = op.bytes[a - op.pos + 1]
      <3> DEFINE k == a - (op.pos + ChunkSize) + 1
      <3>1. k \in 1 .. Len(op.bytes) - ChunkSize /\ ChunkSize + k = a - op.pos + 1
        BY <2>3
      <3> HIDE DEF k
      <3>2. SubSeq(op.bytes, ChunkSize + 1, Len(op.bytes))[k] = op.bytes[ChunkSize + k]
        BY <1>3, <2>3, <3>1, WithoutFront
      <3>3. QED BY <3>1, <3>2 DEF k
    <2>5. Cell(a)' = op'.bytes[a - op'.pos + 1]
      BY <2>1 DEF Cell
    <2>6. Cell(a) = op.bytes[a - op.pos + 1]
      BY <1>11 DEF Cell
    <2>7. QED BY <2>2, <2>4, <2>5, <2>6
  <1>12. CASE a \notin Pending /\ a \notin written
    <2>1. a \notin Pending'
      BY <1>2, <1>3, <1>7, <1>8, <1>12
    <2>2. QED BY <1>9, <1>12, <2>1 DEF Cell
  <1>13. CASE a \notin Pending /\ a \in written
    <2>1. a \notin Pending'
      BY <1>2, <1>3, <1>7, <1>8, <1>13
    <2>2. Cell(a)' = Stored(a)' /\ Cell(a) = Stored(a)
      BY <1>9, <1>13, <2>1 DEF Cell
    <2>3. CASE BlockOf(a) = Block
      <3>1. Stored(a) = buffer[Within(a)]
        BY <1>13, <2>3 DEF Activated
      <3>2. Within(a) - Within(op.pos) = a - op.pos
        BY <1>3, <2>3, SameBlockApart DEF Block
      <3>3. Within(a) - Within(op.pos) \notin 0 .. ChunkSize - 1
        BY <1>2, <1>3, <1>7, <1>13, <3>2
      <3>4. Overwritten(buffer)[Within(a)] = buffer[Within(a)]
        BY <1>4, <3>3 DEF Overwritten
      <3>5. Stored(a)' = Overwritten(buffer)[Within(a)]
        BY <1>5, <2>3 DEF Stored, BlockOf, Within
      <3>6. QED BY <2>2, <3>1, <3>4, <3>5
    <2>4. CASE BlockOf(a) # Block
      <3>1. addr'[BlockOf(a)] = addrs[BlockOf(a)]
        BY <1>4, <1>6, <2>4
      <3>2. \/ addrs[BlockOf(a)] # Nowhere /\ Stored(a) = addrs[BlockOf(a)][Within(a)]
            \/ /\ addrs[BlockOf(a)] = Nowhere
               /\ BlockOf(a) < Len(file')
               /\ Stored(a) = file'[BlockOf(a) + 1][Within(a)]
        BY <1>13, <2>4 DEF Activated
      <3>3. Stored(a)' = Stored(a)
        BY <3>1, <3>2 DEF Stored, BlockOf, Within
      <3>4. QED BY <2>2, <3>3
    <2>5. QED BY <2>3, <2>4
  <1>14. QED BY <1>7, <1>10, <1>11, <1>12, <1>13, <1>3, <1>2

(* A turn of the loop of Read changes no cell.                             *)
LEMMA ReadKeepsCells ==
  ASSUME HeapInv, op # Idle, UNCHANGED <<used, written>>,
         NEW buffer \in Buffer, NEW addrs \in [Blocks -> Buffer \cup {Nowhere}],
         NEW dirties \in [Blocks -> BOOLEAN],
         ReadChunk(buffer, addrs, dirties), Activated(buffer, addrs),
         NEW a \in 0 .. used - 1
  PROVE  Cell(a)' = Cell(a)
  <1> USE DEF HeapInv
  <1>1. /\ op.kind = "read" /\ op'.kind \in {"read", "idle"}
        /\ addr' = [addrs EXCEPT ![Block] = buffer]
    BY DEF ReadChunk, Rest, Idle
  <1>2. Pending = {} /\ Pending' = {}
    BY <1>1 DEF Pending
  <1>3. Block \in Blocks
    BY ChunkInBlock
  <1>4. buffer # Nowhere
    BY ValueAssumption
  <1>5. a \in Nat /\ a < used
    BY DEF TypeOK
  <1>6. BlockOf(a) \in Blocks
    BY <1>5, AllocatedBlock
  <1>7. CASE a \notin written
    BY <1>2, <1>7 DEF Cell
  <1>8. CASE a \in written
    <2>1. Cell(a)' = Stored(a)' /\ Cell(a) = Stored(a)
      BY <1>2, <1>8 DEF Cell
    <2>2. CASE BlockOf(a) = Block
      <3>1. Stored(a) = buffer[Within(a)]
        BY <1>2, <1>8, <2>2 DEF Activated
      <3>2. addr'[BlockOf(a)] = buffer
        BY <1>1, <1>3, <2>2
      <3>3. Stored(a)' = buffer[Within(a)]
        BY <1>4, <3>2 DEF Stored, BlockOf, Within
      <3>4. QED BY <2>1, <3>1, <3>3
    <2>3. CASE BlockOf(a) # Block
      <3>1. addr'[BlockOf(a)] = addrs[BlockOf(a)]
        BY <1>1, <1>6, <2>3
      <3>2. \/ addrs[BlockOf(a)] # Nowhere /\ Stored(a) = addrs[BlockOf(a)][Within(a)]
            \/ /\ addrs[BlockOf(a)] = Nowhere
               /\ BlockOf(a) < Len(file')
               /\ Stored(a) = file'[BlockOf(a) + 1][Within(a)]
        BY <1>2, <1>8, <2>3 DEF Activated
      <3>3. Stored(a)' = Stored(a)
        BY <3>1, <3>2 DEF Stored, BlockOf, Within
      <3>4. QED BY <2>1, <3>3
    <2>4. QED BY <2>2, <2>3
  <1>9. QED BY <1>7, <1>8

(* A Read's chunk extends what it has read by the cells that follow.       *)
LEMMA ReadExtends ==
  ASSUME ReadInv, op.kind = "read", op # Idle,
         NEW buffer \in Buffer, NEW addrs, Activated(buffer, addrs)
  PROVE  LET sofar == op.bytes \o Copied(buffer)
         IN /\ sofar \in Seq(Byte) /\ Len(sofar) = Len(op.bytes) + ChunkSize
            /\ \A i \in 1 .. Len(sofar) :
                 Cell(op.pos - Len(op.bytes) + i - 1) \in {sofar[i], Unset}
  <1> USE DEF ReadInv, HeapInv
  <1>1. /\ ChunkSize \in 0 .. op.count
        /\ Within(op.pos) \in 0 .. BlockSize - 1
        /\ Within(op.pos) + ChunkSize <= BlockSize
        /\ \A c \in op.pos .. op.pos + ChunkSize - 1 : BlockOf(c) = Block
    BY ChunkInBlock
  <1>2. /\ op.pos \in Nat /\ op.count \in Nat /\ op.bytes \in Seq(Byte)
        /\ Len(op.bytes) \in Nat /\ op.pos - Len(op.bytes) >= 0
    BY LenProperties DEF TypeOK, ReadSoFar
  <1>3. /\ Copied(buffer) \in Seq(Byte) /\ Len(Copied(buffer)) = ChunkSize
        /\ \A i \in 1 .. ChunkSize : Copied(buffer)[i] = buffer[Within(op.pos) + i - 1]
    <2>1. \A i \in 1 .. ChunkSize : buffer[Within(op.pos) + i - 1] \in Byte
      BY <1>1, <1>2, SizeAssumption DEF Buffer
    <2>2. QED BY <1>1, <1>2, <2>1 DEF Copied
  <1> DEFINE piece == Copied(buffer)
             sofar == op.bytes \o piece
  <1>4. piece \in Seq(Byte) /\ Len(piece) = ChunkSize /\ ChunkSize \in Nat
    BY <1>1, <1>2, <1>3
  <1>5. /\ sofar \in Seq(Byte) /\ Len(sofar) = Len(op.bytes) + ChunkSize
        /\ \A i \in 1 .. Len(sofar) :
             sofar[i] = IF i <= Len(op.bytes) THEN op.bytes[i]
                                              ELSE piece[i - Len(op.bytes)]
    <2> HIDE DEF piece
    <2>1. /\ sofar \in Seq(Byte) /\ Len(sofar) = Len(op.bytes) + Len(piece)
          /\ \A i \in 1 .. Len(op.bytes) + Len(piece) :
               sofar[i] = IF i <= Len(op.bytes) THEN op.bytes[i]
                                                ELSE piece[i - Len(op.bytes)]
      BY <1>2, <1>4, ConcatProperties
    <2> HIDE DEF sofar
    <2>2. QED BY <1>4, <2>1
  <1> HIDE DEF sofar
  <1>6. ASSUME NEW i \in 1 .. Len(sofar)
        PROVE  Cell(op.pos - Len(op.bytes) + i - 1) \in {sofar[i], Unset}
    <2>1. CASE i <= Len(op.bytes)
      <3>1. i \in 1 .. Len(op.bytes) /\ sofar[i] = op.bytes[i]
        BY <1>2, <1>5, <2>1
      <3>2. Cell(op.pos - Len(op.bytes) + i - 1) \in {op.bytes[i], Unset}
        BY <3>1 DEF ReadSoFar
      <3>3. QED BY <3>1, <3>2
    <2>2. CASE ~(i <= Len(op.bytes))
      <3> DEFINE j == i - Len(op.bytes)
                 a == op.pos - Len(op.bytes) + i - 1
      <3>1. j \in 1 .. ChunkSize /\ sofar[i] = piece[j]
        BY <1>2, <1>4, <1>5, <2>2
      <3>2. a = op.pos + j - 1
        BY <1>2, <1>5
      <3> HIDE DEF j, a
      <3>3. a \in op.pos .. op.pos + ChunkSize - 1 /\ a \in Nat
        BY <1>2, <1>4, <3>1, <3>2
      <3>4. BlockOf(a) = Block /\ BlockOf(a) = BlockOf(op.pos)
        BY <1>1, <3>3 DEF Block
      <3>5. Within(a) - Within(op.pos) = a - op.pos
        BY <1>2, <3>3, <3>4, SameBlockApart
      <3>6. Within(a) \in Nat
        BY <3>3, OffsetSplit, SizeAssumption
      <3>7. Within(op.pos) \in Nat /\ j \in Nat
        BY <1>1, <1>4, <3>1, SizeAssumption
      <3>8. Within(a) = Within(op.pos) + j - 1
        BY <1>2, <3>2, <3>5, <3>6, <3>7
      <3>9. sofar[i] = buffer[Within(a)]
        BY <1>3, <3>1, <3>8
      <3>10. Pending = {}
        BY DEF Pending
      <3>11. Cell(a) \in {Stored(a), Unset} /\ (a \in written => Cell(a) = Stored(a))
            /\ (a \notin written => Cell(a) = Unset)
        BY <3>10 DEF Cell
      <3>12. a \in written => Stored(a) = buffer[Within(a)]
        BY <3>4, <3>10 DEF Activated
      <3>13. Cell(a) \in {sofar[i], Unset}
        BY <3>9, <3>11, <3>12
      <3>14. QED BY <3>13 DEF a
    <2>3. QED BY <2>1, <2>2
  <1>7. QED BY <1>5, <1>6 DEF sofar

-----------------------------------------------------------------------------
(* The contents a caller sees, as the refinement mapping gives them.       *)
Cells == [a \in 0 .. used - 1 |-> Cell(a)]

(* An empty heap is an empty array.                                        *)
LEMMA StartsFlat == Init => Flat!FlatInit /\ ReadInv
  <1> SUFFICES ASSUME Init PROVE Flat!FlatInit /\ ReadInv
    OBVIOUS
  <1>1. used = 0 /\ op = Idle /\ answer = <<>>
    BY DEF Init
  <1>2. Call = Flat!Idle
    BY <1>1 DEF Call, Idle, Flat!Idle, Flat!Call
  <1>3. Cells = [a \in {} |-> Unset]
    BY <1>1 DEF Cells
  <1>4. ReadSoFar
    BY <1>1 DEF ReadSoFar, Idle
  <1>5. QED BY <1>1, <1>2, <1>3, <1>4, InitEstablishes DEF Flat!FlatInit, Cells, ReadInv

(* Alloc adds unset cells at the end and leaves the old ones as they are.  *)
LEMMA AllocIsFlat ==
  ASSUME ReadInv, NEW n \in Nat, Alloc(n)
  PROVE  Flat!FlatAlloc /\ ReadSoFar'
  <1> USE DEF ReadInv, HeapInv
  <1> DEFINE total == BlocksFor(used + n)
             now   == IF numblocks < total THEN total ELSE numblocks
             added == numblocks .. now - 1
             inmem == numblocks .. Minimum(now, MaxBlocksInMem) - 1
  <1>1. /\ op = Idle /\ op' = op /\ answer' = <<>>
        /\ used' = used + n /\ numblocks' = now
        /\ UNCHANGED <<file, written>>
    BY DEF Alloc
  <1>2. PICK garbage \in [inmem -> Buffer] :
          addr' = [b \in 0 .. now - 1 |->
                     IF b \in inmem THEN garbage[b]
                     ELSE IF b \in added THEN Nowhere ELSE addr[b]]
    BY DEF Alloc
  <1>3. used \in Nat /\ numblocks \in Nat /\ written \subseteq 0 .. used - 1
    BY DEF TypeOK
  <1>4. total \in Nat
    <2>1. BlockOf(used + n) \in Nat
      <3>1. used + n \in Nat
        BY <1>3
      <3>2. QED BY <3>1, OffsetSplit
    <2>2. total = BlockOf(used + n) + 1
      BY DEF BlocksFor, BlockOf
    <2>3. QED BY <2>1, <2>2
  <1>5. now \in Nat /\ numblocks <= now
    BY <1>3, <1>4
  <1> HIDE DEF total, now
  <1>6. \A b \in Blocks : addr'[b] = addr[b]
    BY <1>2, <1>3, <1>5 DEF Blocks
  <1>7. Pending = {} /\ Pending' = {}
    BY <1>1 DEF Pending, Idle
  <1>8. ASSUME NEW a \in 0 .. used' - 1
        PROVE  Cell(a)' = IF a < used THEN Cells[a] ELSE Unset
    <2>1. CASE a \in written
      <3>1. a \in 0 .. used - 1 /\ a \in Nat /\ a < used
        BY <1>3, <2>1
      <3>2. BlockOf(a) \in Blocks
        BY <3>1, AllocatedBlock
      <3>3. Stored(a)' = Stored(a)
        BY <1>1, <1>6, <3>2 DEF Stored, BlockOf, Within
      <3>4. Cell(a)' = Cell(a)
        BY <1>1, <1>7, <2>1, <3>3 DEF Cell
      <3>5. QED BY <3>1, <3>4 DEF Cells
    <2>2. CASE a \notin written
      <3>1. Cell(a)' = Unset /\ Cell(a) = Unset
        BY <1>1, <1>7, <2>2 DEF Cell
      <3>2. a < used => a \in 0 .. used - 1
        BY <1>1, <1>3
      <3>3. QED BY <3>1, <3>2 DEF Cells
    <2>3. QED BY <2>1, <2>2
  <1>9. Cells' = [a \in 0 .. used' - 1 |-> IF a < used THEN Cells[a] ELSE Unset]
    BY <1>8 DEF Cells
  <1>10. Call = Flat!Idle /\ Call' = Call
    BY <1>1 DEF Call, Idle, Flat!Idle, Flat!Call
  <1>11. used' >= used
    BY <1>1, <1>3
  <1>12. ReadSoFar'
    BY <1>1 DEF ReadSoFar, Idle
  <1>13. QED BY <1>1, <1>9, <1>10, <1>11, <1>12 DEF Flat!FlatAlloc, Cells

(* The start of a Write puts all its bytes into the array at once.         *)
LEMMA WriteIsFlat ==
  ASSUME ReadInv, NEW off \in Nat, NEW bytes \in Seq(Byte), BeginWrite(off, bytes)
  PROVE  Flat!FlatWrite /\ ReadSoFar'
  <1> USE DEF ReadInv, HeapInv
  <1>1. /\ op = Idle /\ off + Len(bytes) <= used
        /\ op' = [kind |-> "write", pos |-> off, bytes |-> bytes, count |-> Len(bytes)]
        /\ written' = written \cup (off .. off + Len(bytes) - 1)
        /\ answer' = <<>>
        /\ UNCHANGED <<used, numblocks, addr, file>>
    BY DEF BeginWrite, heapVars, cacheVars
  <1>2. used \in Nat /\ Len(bytes) \in Nat
    BY LenProperties DEF TypeOK
  <1> DEFINE past == off + Len(bytes)
  <1>3. off \in 0 .. used /\ past \in 0 .. used /\ off <= past
    BY <1>1, <1>2
  <1>4. Pending = {} /\ Pending' = off .. past - 1
    BY <1>1 DEF Pending, Idle
  <1>5. HeapInv'
    BY BeginWritePreserves
  <1>6. ASSUME NEW a \in 0 .. used - 1
        PROVE  /\ Cell(a)' \in Byte \cup {Unset}
               /\ IF a \in off .. past - 1 THEN Cell(a)' \in Byte ELSE Cell(a)' = Cell(a)
    <2>1. CASE a \in off .. past - 1
      <3>1. Cell(a)' = bytes[a - off + 1]
        BY <1>1, <1>4, <2>1 DEF Cell
      <3>2. a - off + 1 \in 1 .. Len(bytes)
        BY <1>2, <2>1
      <3>3. bytes[a - off + 1] \in Byte
        BY <3>2, ElementOfSeq
      <3>4. QED BY <2>1, <3>1, <3>3
    <2>2. CASE a \notin off .. past - 1
      <3>1. Stored(a)' = Stored(a)
        BY <1>1 DEF Stored, BlockOf, Within
      <3>2. a \in written' <=> a \in written
        BY <1>1, <2>2
      <3>3. Cell(a)' = Cell(a)
        BY <1>4, <2>2, <3>1, <3>2 DEF Cell
      <3>4. Cell(a) \in Byte \cup {Unset}
        BY CellType
      <3>5. QED BY <2>2, <3>3, <3>4
    <2>3. QED BY <2>1, <2>2
  <1>7. Cells' \in [0 .. used - 1 -> Byte \cup {Unset}]
    BY <1>1, <1>6 DEF Cells
  <1>8. \A a \in 0 .. used - 1 : IF a \in off .. past - 1 THEN Cells'[a] \in Byte
                                                        ELSE Cells'[a] = Cells[a]
    BY <1>1, <1>6 DEF Cells
  <1>9. Call = Flat!Idle /\ Call' = Flat!Call("write", 0, 0)
    BY <1>1 DEF Call, Idle, Flat!Idle, Flat!Call
  <1>10. ReadSoFar'
    BY <1>1 DEF ReadSoFar
  <1> HIDE DEF past
  <1>11. QED BY <1>1, <1>3, <1>7, <1>8, <1>9, <1>10 DEF Flat!FlatWrite, Flat!Offsets, Cells

(* The start of a Read asks for one range and moves nothing.               *)
LEMMA ReadIsFlat ==
  ASSUME ReadInv, NEW off \in Nat, NEW count \in Nat, BeginRead(off, count)
  PROVE  Flat!FlatRead /\ ReadSoFar'
  <1> USE DEF ReadInv, HeapInv
  <1>1. /\ op = Idle /\ off + count <= used
        /\ op' = [kind |-> "read", pos |-> off, bytes |-> <<>>, count |-> count]
        /\ answer' = <<>>
        /\ UNCHANGED <<used, numblocks, addr, file, written>>
    BY DEF BeginRead, heapVars, cacheVars
  <1>2. used \in Nat /\ off \in 0 .. used /\ off + count \in 0 .. used /\ off <= off + count
    BY <1>1 DEF TypeOK
  <1>3. Pending = {} /\ Pending' = {}
    BY <1>1 DEF Pending, Idle
  <1>4. \A a \in 0 .. used - 1 : Cell(a)' = Cell(a)
    BY <1>1, <1>3 DEF Cell, Stored, BlockOf, Within
  <1>5. Cells' = Cells
    BY <1>1, <1>4 DEF Cells
  <1>6. Call = Flat!Idle /\ Call' = Flat!Call("read", off, off + count)
    <2>1. off - Len(<<>>) = off
      OBVIOUS
    <2>2. QED BY <1>1, <2>1 DEF Call, Idle, Flat!Idle, Flat!Call
  <1>7. ReadSoFar'
    BY <1>1 DEF ReadSoFar
  <1>8. QED BY <1>1, <1>2, <1>5, <1>6, <1>7 DEF Flat!FlatRead, Cells

(* A turn of the loop leaves the array as it is; the last one returns, and   *)
(* a Read returns the cells of its range.                                    *)
LEMMA ChunkIsFlat ==
  ASSUME ReadInv, ChunkInMemory \/ ChunkFromFile
  PROVE  /\ Flat!FlatReturn \/ UNCHANGED <<used, Cells, Call, answer>>
         /\ ReadSoFar'
  <1> USE DEF ReadInv, HeapInv
  <1>1. op # Idle /\ UNCHANGED <<used, numblocks, halted, written>>
    BY ActivationFacts
  <1>2. PICK buffer \in Buffer, addrs \in [Blocks -> Buffer \cup {Nowhere}],
             dirties \in [Blocks -> BOOLEAN] :
          CopyChunk(buffer, addrs, dirties) /\ Activated(buffer, addrs)
    BY ActivationFacts
  <1>3. /\ ChunkSize \in 0 .. op.count
        /\ op.pos \in Nat /\ op.count \in Nat /\ op.bytes \in Seq(Byte) /\ Len(op.bytes) \in Nat
    BY <1>1, ChunkInBlock, LenProperties DEF TypeOK
  <1>4. ASSUME NEW a \in 0 .. used - 1 PROVE Cell(a)' = Cell(a)
    <2>1. CASE WriteChunk(buffer, addrs, dirties)
      BY <1>1, <1>2, <2>1, WriteKeepsCells
    <2>2. CASE ReadChunk(buffer, addrs, dirties)
      BY <1>1, <1>2, <2>2, ReadKeepsCells
    <2>3. QED BY <1>2, <2>1, <2>2 DEF CopyChunk
  <1>5. Cells' = Cells
    BY <1>1, <1>4 DEF Cells
  <1>6. CASE WriteChunk(buffer, addrs, dirties)
    <2>1. /\ op.kind = "write" /\ answer' = answer
          /\ op' = Rest(SubSeq(op.bytes, ChunkSize + 1, Len(op.bytes)))
      BY <1>6 DEF WriteChunk
    <2>2. Call = Flat!Call("write", 0, 0)
      BY <2>1 DEF Call, Flat!Call
    <2>3. CASE ChunkSize = op.count
      <3>1. op' = Idle
        BY <2>1, <2>3 DEF Rest
      <3>2. Call' = Flat!Idle /\ ReadSoFar'
        BY <3>1 DEF Call, Idle, Flat!Idle, Flat!Call, ReadSoFar
      <3>3. Call # Flat!Idle /\ Call.kind # "read"
        BY <2>2 DEF Flat!Idle, Flat!Call
      <3>4. QED BY <1>1, <1>5, <2>1, <3>2, <3>3 DEF Flat!FlatReturn, Cells
    <2>4. CASE ChunkSize # op.count
      <3>1. op'.kind = "write"
        BY <2>1, <2>4 DEF Rest
      <3>2. Call' = Call /\ ReadSoFar'
        BY <2>2, <3>1 DEF Call, Flat!Call, ReadSoFar
      <3>3. QED BY <1>1, <1>5, <2>1, <3>2
    <2>5. QED BY <2>3, <2>4
  <1>7. CASE ReadChunk(buffer, addrs, dirties)
    <2> DEFINE sofar == op.bytes \o Copied(buffer)
    <2>1. /\ op.kind = "read" /\ op' = Rest(sofar)
          /\ answer' = IF ChunkSize = op.count THEN sofar ELSE answer
      BY <1>7 DEF ReadChunk
    <2>2. op.pos - Len(op.bytes) \in Nat
      BY <1>3, <2>1 DEF ReadSoFar
    <2>3. PICK first \in Nat : first = op.pos - Len(op.bytes)
      BY <2>2
    <2>4. /\ sofar \in Seq(Byte) /\ Len(sofar) = Len(op.bytes) + ChunkSize
          /\ \A i \in 1 .. Len(sofar) : Cell(first + i - 1) \in {sofar[i], Unset}
      BY <1>1, <1>2, <2>1, <2>3, ReadExtends
    <2>5. Call = Flat!Call("read", first, op.pos + op.count)
      BY <2>1, <2>3 DEF Call, Flat!Call
    <2>6. op.pos + op.count <= used /\ used \in Nat
      BY <2>1 DEF CallInRange, TypeOK
    <2> HIDE DEF sofar
    <2>7. \A i \in 1 .. Len(sofar) : first + i - 1 \in 0 .. used - 1
      <3>1. first + Len(op.bytes) = op.pos
        BY <1>3, <2>3
      <3>2. first + Len(sofar) <= used
        BY <1>3, <2>4, <2>6, <3>1
      <3>3. Len(sofar) \in Nat
        BY <2>4, LenProperties
      <3>4. QED BY <2>6, <3>2, <3>3
    <2>8. /\ op.pos + ChunkSize - Len(sofar) = first
          /\ Len(sofar) = op.pos + ChunkSize - first
          /\ op.pos + ChunkSize + (op.count - ChunkSize) = op.pos + op.count
      <3> DEFINE length == Len(op.bytes)
      <3>1. /\ length \in Nat /\ first = op.pos - length
            /\ Len(sofar) = length + ChunkSize /\ ChunkSize \in Nat
        BY <1>3, <2>4, <2>3
      <3> HIDE DEF length
      <3>2. PICK pos \in Nat, count \in Nat, chunk \in Nat :
              pos = op.pos /\ count = op.count /\ chunk = ChunkSize
        BY <1>3, <3>1
      <3>3. first = pos - length /\ Len(sofar) = length + chunk
        BY <3>1, <3>2
      <3>4. /\ pos + chunk - Len(sofar) = first /\ Len(sofar) = pos + chunk - first
            /\ pos + chunk + (count - chunk) = pos + count
        BY <3>1, <3>3
      <3>5. QED BY <3>2, <3>4
    <2>9. CASE ChunkSize = op.count
      <3>1. op' = Idle /\ answer' = sofar
        BY <2>1, <2>9 DEF Rest
      <3>2. Call' = Flat!Idle /\ ReadSoFar'
        BY <3>1 DEF Call, Idle, Flat!Idle, Flat!Call, ReadSoFar
      <3>3. /\ Call # Flat!Idle /\ Call.kind = "read"
            /\ Call.first = first /\ Call.past = op.pos + op.count
        BY <2>5 DEF Flat!Idle, Flat!Call
      <3>4. Len(answer') = Call.past - Call.first
        <4>1. Len(sofar) = op.pos + op.count - first
          BY <2>9, <2>8
        <4>2. Len(answer') = Len(sofar)
          BY <3>1
        <4>3. Call.past - Call.first = op.pos + op.count - first
          <5>1. Call.past = op.pos + op.count /\ Call.first = first
            BY <3>3
          <5>2. Call.past \in Nat /\ Call.first \in Nat
            BY <1>3, <5>1
          <5>3. QED BY <1>3, <5>1, <5>2
        <4>4. QED BY <4>1, <4>2, <4>3
      <3>5. \A i \in 1 .. Len(answer') : Cells[Call.first + i - 1] \in {answer'[i], Unset}
        BY <2>4, <2>7, <3>1, <3>3 DEF Cells
      <3>6. QED BY <1>1, <1>5, <3>2, <3>3, <3>4, <3>5 DEF Flat!FlatReturn, Cells
    <2>10. CASE ChunkSize # op.count
      <3>1. /\ op' = [kind |-> op.kind, pos |-> op.pos + ChunkSize, bytes |-> sofar,
                      count |-> op.count - ChunkSize]
            /\ answer' = answer
        BY <2>1, <2>10 DEF Rest
      <3>2. /\ op'.kind = "read" /\ op'.bytes = sofar
            /\ op'.pos = op.pos + ChunkSize /\ op'.count = op.count - ChunkSize
        BY <2>1, <3>1
      <3>3. op'.pos - Len(op'.bytes) = first /\ op'.pos + op'.count = op.pos + op.count
        <4>1. PICK pos \in Nat, count \in Nat, chunk \in Nat :
                pos = op.pos /\ count = op.count /\ chunk = ChunkSize
          BY <1>3
        <4>2. op'.pos = pos + chunk /\ op'.count = count - chunk
          BY <3>2, <4>1
        <4>3. pos + chunk - Len(sofar) = first /\ pos + chunk + (count - chunk) = pos + count
          BY <2>8, <4>1
        <4>4. op'.pos - Len(op'.bytes) = first
          BY <3>2, <4>2, <4>3
        <4>5. QED BY <4>1, <4>2, <4>3, <4>4
      <3>4. Call' = Call
        BY <2>5, <3>2, <3>3 DEF Call, Flat!Call
      <3>5. \A i \in 1 .. Len(sofar) : Cell(first + i - 1)' \in {sofar[i], Unset}
        BY <1>4, <2>4, <2>7
      <3>6. ReadSoFar'
        <4>1. op'.pos - Len(op'.bytes) >= 0
          BY <3>3
        <4>2. \A i \in 1 .. Len(op'.bytes) :
                Cell(op.pos - Len(op.bytes) + i - 1)' \in {op'.bytes[i], Unset}
          BY <2>3, <3>2, <3>3, <3>5 DEF Cell, Pending, Stored, BlockOf, Within
        <4>3. QED BY <4>1, <4>2 DEF ReadSoFar
      <3>7. QED BY <1>1, <1>5, <3>1, <3>4, <3>6
    <2>11. QED BY <2>9, <2>10
  <1>8. QED BY <1>2, <1>6, <1>7 DEF CopyChunk

(* Every step of the heap is a step of the array or leaves it alone.       *)
LEMMA StepIsFlatStep ==
  ReadInv /\ [Next]_vars
    => ReadInv' /\ [Flat!FlatNext]_<<used, Cells, Call, answer>>
  <1> SUFFICES ASSUME ReadInv, [Next]_vars
               PROVE  ReadInv' /\ (Flat!FlatNext \/ UNCHANGED <<used, Cells, Call, answer>>)
    OBVIOUS
  <1>1. HeapInv'
    BY StepPreserves DEF ReadInv
  <1>2. ASSUME NEW n \in AllocSizes, Alloc(n) PROVE Flat!FlatAlloc /\ ReadSoFar'
    <2>1. n \in Nat
      BY ValueAssumption
    <2>2. QED BY <1>2, <2>1, AllocIsFlat
  <1>3. ASSUME NEW w \in Writes, BeginWrite(w[1], w[2]) PROVE Flat!FlatWrite /\ ReadSoFar'
    <2>1. w[1] \in Nat /\ w[2] \in Seq(Byte)
      BY ValueAssumption
    <2>2. QED BY <1>3, <2>1, WriteIsFlat
  <1>4. ASSUME NEW r \in Reads, BeginRead(r[1], r[2]) PROVE Flat!FlatRead /\ ReadSoFar'
    <2>1. r[1] \in Nat /\ r[2] \in Nat
      BY ValueAssumption
    <2>2. QED BY <1>4, <2>1, ReadIsFlat
  <1>5. CASE ChunkInMemory \/ ChunkFromFile
    BY <1>1, <1>5, ChunkIsFlat DEF ReadInv, Flat!FlatNext
  <1>6. CASE ReadError \/ UNCHANGED vars
    <2>1. UNCHANGED <<used, addr, file, op, answer, written>>
      BY <1>6 DEF ReadError, heapVars, cacheVars, vars
    <2>2. \A a \in 0 .. used - 1 : Cell(a)' = Cell(a)
      BY <2>1 DEF Cell, Stored, Pending, BlockOf, Within
    <2>3. Cells' = Cells
      BY <2>1, <2>2 DEF Cells
    <2>4. Call' = Call
      BY <2>1 DEF Call
    <2>5. ReadSoFar'
      BY <2>1 DEF ReadInv, ReadSoFar, Cell, Stored, Pending, BlockOf, Within
    <2>6. QED BY <1>1, <2>1, <2>3, <2>4, <2>5 DEF ReadInv
  <1>7. QED BY <1>1, <1>2, <1>3, <1>4, <1>5, <1>6 DEF Next, ReadInv, Flat!FlatNext

(* The virtual heap implements an array of bytes: through every Activate,   *)
(* eviction and reload, a Read returns what was last written.               *)
THEOREM HeapImplementsFlatHeap == Spec => ImplementsFlatHeap
  <1>1. Spec => []ReadInv
    BY StartsFlat, StepIsFlatStep, PTL DEF Spec
  <1>2. QED BY <1>1, StartsFlat, StepIsFlatStep, PTL
            DEF Spec, ImplementsFlatHeap, Flat!FlatSpec, Flat!flatVars, Cells
=============================================================================
