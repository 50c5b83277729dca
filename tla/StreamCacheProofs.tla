-------------------------- MODULE StreamCacheProofs --------------------------
(***************************************************************************)
(* KnowEachOther, for every file, block size and number of blocks.  What it *)
(* rests on: a call never goes past the end of the file, so that the byte   *)
(* it wants has a section (the code's assertion "Trying to read past end!"),*)
(* and the order of the blocks is made of blocks.                          *)
(*                                                                          *)
(* Then GivesTheFile and PositionKnown, for every file of more than two     *)
(* sections that a cache of two or more blocks reads, if no text and no     *)
(* comparison is longer than a block (FileFits).  They do not hold by the   *)
(* cache alone: it may fill a block from the wrong place when m_offset is   *)
(* behind the section the file is at, and may use a current block that was  *)
(* given to another section.  StreamInv says where StreamLoad is, and how   *)
(* far it can reach from there, so that it meets neither.                   *)
(***************************************************************************)
EXTENDS StreamCache, TLAPS

ClientTypes ==
  /\ fs \in Nat /\ fs <= FileSize /\ (phase \in {"end", "found?"} => fs > 0)
  /\ offset \in Nat /\ offset <= FileSize
  /\ mark \in Nat
  /\ given.index \in Nat /\ given.index < FileSize

CallInside ==
  /\ call = [index |-> call.index, left |-> call.left, skip |-> call.skip,
             setcurrent |-> call.setcurrent]
  /\ call.index \in Nat /\ call.left \in Nat /\ call.skip \in Int
  /\ call.index + call.left <= FileSize
  /\ call.left > 0 => offset + call.skip \in Nat /\ offset + call.skip <= FileSize

Tables ==
  /\ section \in [Blocks -> Sections]
  /\ attached \in [Sections -> Blocks \cup {NoBlock}]
  /\ order \in [Blocks -> Blocks]

CacheInv == ClientTypes /\ CallInside /\ Tables /\ KnowEachOther

-----------------------------------------------------------------------------
(* Numbers: there is at least one section, no more blocks than sections,    *)
(* and every index of the file is in a section.                            *)
LEMMA SectionOfIndex ==
  ASSUME NEW i \in Nat, i < FileSize
  PROVE  i \div BlockSize \in Sections
<1> DEFINE q == i \div BlockSize
           n == NumSections
<1>1. q \in Nat /\ (q * BlockSize) <= i /\ n \in Nat
  BY StreamCacheAssumption DEF NumSections
<1>2. FileSize + (BlockSize - 1) < (n + 1) * BlockSize
  BY StreamCacheAssumption DEF NumSections
<1>3. q < n
  <2> SUFFICES ASSUME q >= n PROVE FALSE
    BY <1>1
  <2>1. n * BlockSize <= q * BlockSize
    BY <1>1, StreamCacheAssumption
  <2>2. (n + 1) * BlockSize = (n * BlockSize) + BlockSize
    BY <1>1, StreamCacheAssumption
  <2> QED BY <1>1, <1>2, <2>1, <2>2, StreamCacheAssumption
<1> QED BY <1>1, <1>3 DEF Sections

(* There is a block, and there are no more of them than sections:          *)
(* InitReadStream lowers numblocks to m_numdatasections.                   *)
LEMMA BlockNumbers ==
  /\ NumSections \in Nat /\ LastBlock \in Nat
  /\ LastBlock > 0 /\ LastBlock <= NumSections
  /\ Blocks = 1 .. LastBlock
<1>1. 0 \div BlockSize \in Sections
  BY SectionOfIndex, StreamCacheAssumption
<1>2. NumSections \in Nat
  BY StreamCacheAssumption DEF NumSections
<1>3. NumSections > 0
  BY <1>1, <1>2 DEF Sections
<1> QED BY <1>2, <1>3, StreamCacheAssumption DEF LastBlock, Blocks

(* The order stays an order of blocks when one becomes the newest.         *)
LEMMA TouchedType ==
  ASSUME order \in [Blocks -> Blocks], NEW b \in Blocks
  PROVE  Touched(b) \in [Blocks -> Blocks]
<1> SUFFICES ASSUME NEW i \in Blocks, i # LastBlock PROVE i + 1 \in Blocks
  BY DEF Touched
<1> QED BY BlockNumbers

-----------------------------------------------------------------------------
(* Init: block b holds section b - 1.                                      *)
LEMMA InitCacheInv ==
  ASSUME Init PROVE CacheInv
<1>1. ClientTypes
  BY StreamCacheAssumption DEF Init, ClientTypes
<1>2. CallInside
  BY StreamCacheAssumption DEF Init, CallInside
<1>3. section \in [Blocks -> Sections]
  BY BlockNumbers DEF Init, Sections
<1>4. attached \in [Sections -> Blocks \cup {NoBlock}]
  BY DEF Init
<1>5. order \in [Blocks -> Blocks]
  BY BlockNumbers DEF Init
<1>6. ASSUME NEW b \in Blocks PROVE attached[section[b]] = b
  <2>1. b \in Nat /\ section[b] = b - 1 /\ section[b] + 1 = b
    BY BlockNumbers DEF Init
  <2> QED BY <1>3, <2>1 DEF Init
<1>7. ASSUME NEW s \in Sections, attached[s] # NoBlock PROVE section[attached[s]] = s
  <2>1. s \in Nat
    BY BlockNumbers DEF Sections
  <2>2. attached[s] = s + 1 /\ s + 1 \in Blocks
    BY <1>7 DEF Init
  <2> QED BY <2>1, <2>2 DEF Init
<1> QED BY <1>1, <1>2, <1>3, <1>4, <1>5, <1>6, <1>7 DEF CacheInv, Tables, KnowEachOther

(* Handing over a byte brings a call one byte nearer to its end.           *)
LEMMA HandKeepsClient ==
  ASSUME CacheInv, call.left > 0, NEW b, NEW start, NEW data, Hand(b, start, data)
  PROVE  ClientTypes' /\ CallInside'
<1> USE DEF CacheInv, ClientTypes, CallInside, Hand, client
<1>1. call' = [index |-> call.index + 1, left |-> call.left - 1, skip |-> call.skip,
               setcurrent |-> call.setcurrent]
  OBVIOUS
<1>2. ClientTypes'
  BY StreamCacheAssumption
<1>3. /\ call'.index = call.index + 1 /\ call'.left = call.left - 1
      /\ call'.skip = call.skip /\ call'.setcurrent = call.setcurrent
  BY <1>1
<1>4. call' = [index |-> call'.index, left |-> call'.left, skip |-> call'.skip,
               setcurrent |-> call'.setcurrent]
  BY <1>1, <1>3
<1>5. call'.left > 0 => offset' = offset
  BY <1>3
<1>6. CallInside'
  BY <1>3, <1>4, <1>5
<1> QED BY <1>2, <1>6

(* The only step that moves a block: the section it held lets go of it.     *)
LEMMA MovedKnowsEachOther ==
  ASSUME Tables, KnowEachOther, NEW b \in Blocks, NEW s \in Sections,
         attached[s] = NoBlock,
         attached' = Moved(b, s), section' = [section EXCEPT ![b] = s]
  PROVE  /\ section' \in [Blocks -> Sections]
         /\ attached' \in [Sections -> Blocks \cup {NoBlock}]
         /\ KnowEachOther'
<1> USE DEF Tables
<1>1. section[b] \in Sections /\ attached[section[b]] = b /\ b # NoBlock
  BY BlockNumbers DEF KnowEachOther, NoBlock
<1>2. section[b] # s
  BY <1>1
<1>3. /\ section' \in [Blocks -> Sections]
      /\ attached' \in [Sections -> Blocks \cup {NoBlock}]
  BY DEF Moved
<1>4. attached'[s] = b /\ attached'[section[b]] = NoBlock
  BY <1>1, <1>2 DEF Moved
<1>5. ASSUME NEW t \in Sections, t # s, t # section[b] PROVE attached'[t] = attached[t]
  BY <1>5 DEF Moved
<1>6. ASSUME NEW c \in Blocks PROVE attached'[section'[c]] = c
  <2>1. CASE c = b
    BY <1>4, <2>1
  <2>2. CASE c # b
    <3>1. section'[c] = section[c] /\ section[c] \in Sections /\ attached[section[c]] = c
      BY <2>2 DEF KnowEachOther
    <3>2. section[c] # s
      <4>1. c # NoBlock
        BY BlockNumbers DEF NoBlock
      <4> QED BY <3>1, <4>1
    <3>3. section[c] # section[b]
      BY <3>1, <1>1, <2>2
    <3> QED BY <3>1, <3>2, <3>3, <1>5
  <2> QED BY <2>1, <2>2
<1>7. ASSUME NEW t \in Sections, attached'[t] # NoBlock PROVE section'[attached'[t]] = t
  <2>1. CASE t = s
    BY <1>4, <2>1
  <2>2. CASE t # s
    <3>1. attached'[t] = attached[t] /\ attached[t] \in Blocks
      BY <1>4, <1>5, <1>7, <2>2
    <3>2. section[attached[t]] = t
      BY <1>7, <3>1 DEF KnowEachOther
    <3>3. attached[t] # b
      BY <1>4, <1>7, <3>1, <3>2
    <3> QED BY <3>1, <3>2, <3>3
  <2> QED BY <2>1, <2>2
<1> QED BY <1>3, <1>6, <1>7 DEF KnowEachOther

-----------------------------------------------------------------------------
(* Each of the four ways to get a byte keeps the tables right.             *)
LEMMA LoadKeepsInv ==
  ASSUME CacheInv, LoadStreamBlock PROVE CacheInv'
<1> USE DEF CacheInv
<1>1. CASE UseCurrent
  <2>1. ClientTypes' /\ CallInside'
    BY <1>1, HandKeepsClient DEF UseCurrent
  <2> QED BY <1>1, <2>1 DEF UseCurrent, cache, Tables, KnowEachOther
<1>2. CASE call.left > 0
  <2>1. Wanted \in Sections
    <3>1. call.index \in Nat /\ call.index < FileSize
      BY <1>2, StreamCacheAssumption DEF CallInside
    <3> QED BY <3>1, SectionOfIndex DEF Wanted
  <2>2. CASE UseLoaded
    <3>1. ClientTypes' /\ CallInside'
      BY <2>2, HandKeepsClient DEF UseLoaded
    <3>2. attached[Wanted] \in Blocks
      BY <2>1, <2>2 DEF UseLoaded, Tables
    <3>3. order' \in [Blocks -> Blocks]
      BY <2>2, <3>2, TouchedType DEF UseLoaded, Tables
    <3> QED BY <2>2, <3>1, <3>3 DEF UseLoaded, Tables, KnowEachOther
  <2>3. CASE FirstLoad
    <3>1. ClientTypes' /\ CallInside'
      BY <2>3, HandKeepsClient DEF FirstLoad
    <3>2. attached[Wanted] \in Blocks
      BY <2>1, <2>3 DEF FirstLoad, Tables
    <3>3. order' \in [Blocks -> Blocks]
      BY <2>3, <3>2, TouchedType DEF FirstLoad, Tables
    <3> QED BY <2>3, <3>1, <3>3 DEF FirstLoad, Tables, KnowEachOther
  <2>4. CASE Replace
    <3>1. ClientTypes' /\ CallInside'
      BY <2>4, HandKeepsClient DEF Replace
    <3>2. Oldest \in Blocks
      BY BlockNumbers DEF Oldest, Tables
    <3>3. order' \in [Blocks -> Blocks]
      BY <2>4, <3>2, TouchedType DEF Replace, Tables
    <3>4. /\ section' \in [Blocks -> Sections]
          /\ attached' \in [Sections -> Blocks \cup {NoBlock}]
          /\ KnowEachOther'
      BY <2>1, <2>4, <3>2, MovedKnowsEachOther DEF Replace
    <3> QED BY <3>1, <3>3, <3>4 DEF Tables
  <2> QED BY <1>1, <2>2, <2>3, <2>4 DEF LoadStreamBlock
<1> QED BY <1>1, <1>2 DEF LoadStreamBlock, UseLoaded, FirstLoad, Replace

(* StreamLoad leaves the cache alone, and asks for no byte past the end.    *)
LEMMA StreamLoadKeepsInv ==
  ASSUME CacheInv, StreamLoad PROVE CacheInv'
<1>1. UNCHANGED cache /\ UNCHANGED given
  BY DEF StreamLoad, PullBack, Found, Advance, LookAhead, StartToken, Scan,
         StartText, SkipText, EndComment, GoBack, Still
<1>2. Tables' /\ KnowEachOther'
  BY <1>1 DEF CacheInv, cache, Tables, KnowEachOther
<1>3. ClientTypes' /\ CallInside'
  <2> USE <1>1, StreamCacheAssumption
          DEF CacheInv, ClientTypes, CallInside, client, Still, Idle, Go
  <2>1. CASE PullBack
    BY <2>1 DEF PullBack, Peek
  <2>2. CASE Found
    <3>1. offset' \in Nat /\ offset' <= FileSize /\ mark' \in Nat
      BY <2>2 DEF Found
    <3>2. fs' \in Nat /\ fs' <= FileSize /\ (phase' \in {"end", "found?"} => fs' > 0)
      BY <2>2 DEF Found
    <3>3. CallInside'
      BY <2>2 DEF Found, Peek
    <3> QED BY <3>1, <3>2, <3>3
  <2>3. CASE Advance
    BY <2>3 DEF Advance, Peek
  <2>4. CASE LookAhead
    BY <2>4 DEF LookAhead, Compare
  <2>5. CASE StartToken
    BY <2>5 DEF StartToken, Seen
  <2>6. CASE Scan
    BY <2>6 DEF Scan, Peek
  <2>7. CASE StartText
    BY <2>7 DEF StartText, Compare, Seen
  <2>8. CASE SkipText
    BY <2>8 DEF SkipText, Compare
  <2>9. CASE EndComment
    BY <2>9 DEF EndComment, Peek
  <2>10. CASE GoBack
    BY <2>10 DEF GoBack, Read
  <2> QED BY <2>1, <2>2, <2>3, <2>4, <2>5, <2>6, <2>7, <2>8, <2>9, <2>10 DEF StreamLoad
<1> QED BY <1>2, <1>3 DEF CacheInv

(* The inductive invariant.                                                *)
LEMMA CacheInvHolds == Spec => []CacheInv
<1>1. CacheInv /\ [Next]_vars => CacheInv'
  <2>1. CASE LoadStreamBlock
    BY <2>1, LoadKeepsInv
  <2>2. CASE StreamLoad
    BY <2>2, StreamLoadKeepsInv
  <2>3. CASE UNCHANGED vars
    BY <2>3 DEF vars, cache, client, CacheInv, ClientTypes, CallInside, Tables, KnowEachOther
  <2> QED BY <2>1, <2>2, <2>3 DEF Next
<1> QED BY <1>1, InitCacheInv, PTL DEF Spec

(* A block and the section it holds know each other, whatever the client    *)
(* reads: LoadStreamBlock (datahandle.cpp) never leaves two sections with    *)
(* the same block.                                                         *)
THEOREM KnowEachOtherHolds == Spec => []KnowEachOther
<1>1. CacheInv => KnowEachOther
  BY DEF CacheInv
<1> QED BY <1>1, CacheInvHolds, PTL

(* No read past the end: the assertion of LoadStreamBlock (datahandle.cpp)  *)
(* cannot fail.                                                            *)
THEOREM NeverPastEnd == Spec => [](call.left > 0 => call.index < FileSize)
<1>1. CacheInv => (call.left > 0 => call.index < FileSize)
  BY StreamCacheAssumption DEF CacheInv, CallInside
<1> QED BY <1>1, CacheInvHolds, PTL

-----------------------------------------------------------------------------
(* Places in the file: the section of an index, and where sections start   *)
(* and end.  Everything below uses these facts and not the multiplication.  *)
Section(i) == i \div BlockSize

LEMMA StartsInOrder ==
  ASSUME NEW s \in Nat, NEW t \in Nat
  PROVE  /\ StartOf(s) \in Nat
         /\ StartOf(s + 1) = StartOf(s) + BlockSize
         /\ s < t => StartOf(s) + BlockSize <= StartOf(t)
<1>1. StartOf(s) \in Nat
  BY StreamCacheAssumption DEF StartOf
<1>2. StartOf(s + 1) = StartOf(s) + BlockSize
  BY StreamCacheAssumption DEF StartOf
<1>3. ASSUME s < t PROVE StartOf(s) + BlockSize <= StartOf(t)
  <2>1. (s + 1) * BlockSize <= t * BlockSize
    BY <1>3, StreamCacheAssumption
  <2> QED
    BY <1>2, <2>1 DEF StartOf
<1> QED
  BY <1>1, <1>2, <1>3

LEMMA InSection ==
  ASSUME NEW i \in Nat
  PROVE  /\ Section(i) \in Nat
         /\ StartOf(Section(i)) <= i
         /\ i < StartOf(Section(i)) + BlockSize
  BY StreamCacheAssumption DEF Section, StartOf

LEMMA SectionIs ==
  ASSUME NEW i \in Nat, NEW s \in Nat, StartOf(s) <= i, i < StartOf(s) + BlockSize
  PROVE  Section(i) = s
<1>1. /\ Section(i) \in Nat /\ StartOf(Section(i)) \in Nat
      /\ StartOf(Section(i)) <= i /\ i < StartOf(Section(i)) + BlockSize
  BY InSection, StartsInOrder
<1>2. ~(Section(i) < s)
  BY <1>1, StartsInOrder, StreamCacheAssumption
<1>3. ~(s < Section(i))
  BY <1>1, StartsInOrder, StreamCacheAssumption
<1> QED
  BY <1>1, <1>2, <1>3

LEMMA SectionsInOrder ==
  ASSUME NEW i \in Nat, NEW j \in Nat, i <= j
  PROVE  /\ Section(i) <= Section(j)
         /\ j <= i + BlockSize => Section(j) <= Section(i) + 1
<1>1. /\ Section(i) \in Nat /\ StartOf(Section(i)) \in Nat
      /\ StartOf(Section(i)) <= i /\ i < StartOf(Section(i)) + BlockSize
  BY InSection, StartsInOrder
<1>2. /\ Section(j) \in Nat /\ StartOf(Section(j)) \in Nat
      /\ StartOf(Section(j)) <= j /\ j < StartOf(Section(j)) + BlockSize
  BY InSection, StartsInOrder
<1>3. ~(Section(j) < Section(i))
  BY <1>1, <1>2, StartsInOrder, StreamCacheAssumption
<1>4. StartOf(Section(i) + 1) = StartOf(Section(i)) + BlockSize
  BY <1>1, StartsInOrder
<1>5. ASSUME j <= i + BlockSize PROVE ~(Section(i) + 1 < Section(j))
  <2>1. Section(i) + 1 \in Nat
    BY <1>1
  <2>2. Section(i) + 1 < Section(j)
          => StartOf(Section(i) + 1) + BlockSize <= StartOf(Section(j))
    BY <1>2, <2>1, StartsInOrder
  <2> QED
    BY <1>1, <1>2, <1>4, <1>5, <2>2, StreamCacheAssumption
<1> QED
  BY <1>1, <1>2, <1>3, <1>5

(* The byte behind one is in the same section, or starts the next.          *)
LEMMA NextPlace ==
  ASSUME NEW i \in Nat
  PROVE  \/ Section(i + 1) = Section(i)
         \/ /\ StartOf(Section(i + 1)) = i + 1
            /\ i + 1 = StartOf(Section(i)) + BlockSize
<1>1. /\ Section(i) \in Nat /\ StartOf(Section(i)) \in Nat
      /\ StartOf(Section(i)) <= i /\ i < StartOf(Section(i)) + BlockSize
  BY InSection, StartsInOrder
<1>2. CASE i + 1 < StartOf(Section(i)) + BlockSize
  BY <1>1, <1>2, SectionIs
<1>3. CASE i + 1 = StartOf(Section(i)) + BlockSize
  <2>1. Section(i) + 1 \in Nat /\ StartOf(Section(i) + 1) = i + 1 /\ i + 1 \in Nat
    BY <1>1, <1>3, StartsInOrder
  <2>2. Section(i + 1) = Section(i) + 1
    BY <2>1, SectionIs, StreamCacheAssumption
  <2> QED
    BY <1>3, <2>1, <2>2
<1> QED
  BY <1>1, <1>2, <1>3, StreamCacheAssumption

LEMMA SectionBounds ==
  ASSUME NEW s \in Sections
  PROVE  /\ s \in Nat /\ StartOf(s) \in Nat /\ EndOf(s) \in Nat
         /\ StartOf(s) < EndOf(s) /\ EndOf(s) <= FileSize
         /\ EndOf(s) = IF StartOf(s) + BlockSize > FileSize THEN FileSize
                       ELSE StartOf(s) + BlockSize
<1> DEFINE n == NumSections
<1>1. s \in Nat /\ n \in Nat /\ s + 1 <= n
  BY BlockNumbers DEF Sections
<1>2. n * BlockSize <= FileSize + (BlockSize - 1)
  BY StreamCacheAssumption DEF NumSections
<1>3. (s + 1) * BlockSize <= n * BlockSize
  <2> HIDE DEF n
  <2> QED
    BY <1>1, StreamCacheAssumption
<1>4. StartOf(s) \in Nat /\ (s + 1) * BlockSize = StartOf(s) + BlockSize
  BY <1>1, StartsInOrder DEF StartOf
<1>5. n * BlockSize \in Nat
  <2> HIDE DEF n
  <2> QED
    BY <1>1, StreamCacheAssumption
<1>6. StartOf(s) < FileSize
  BY <1>2, <1>3, <1>4, <1>5, StreamCacheAssumption
<1>7. EndOf(s) = IF StartOf(s) + BlockSize > FileSize THEN FileSize
                 ELSE StartOf(s) + BlockSize
  BY <1>4 DEF EndOf
<1> QED
  BY <1>1, <1>4, <1>6, <1>7, StreamCacheAssumption

LEMMA PlaceInFile ==
  ASSUME NEW i \in Nat, i < FileSize
  PROVE  Section(i) \in Sections /\ StartOf(Section(i)) <= i /\ i < EndOf(Section(i))
<1>1. Section(i) \in Sections
  BY SectionOfIndex DEF Section
<1> QED
  BY <1>1, InSection, SectionBounds, StreamCacheAssumption

-----------------------------------------------------------------------------
(* What GivesTheFile and PositionKnown rest on.                            *)

(* The files the cache can bear: more than two sections, blocks for two of  *)
(* them, and no look ahead and no text that leads out of two sections.     *)
FileFits ==
  /\ NumSections > 2 /\ NumBlocks > 1
  /\ MaxCmp <= BlockSize /\ MaxText + MaxCmp <= BlockSize + 1

Newest == order[LastBlock]
Second == order[LastBlock - 1]

(* Sections whose bytes are in a block; those, and those that start before  *)
(* the place the next read without a seek would be at, cannot be read      *)
(* wrongly; nor can a section whose first byte m_offset is at.             *)
Held == {s \in Sections : \E b \in Blocks : section[b] = s /\ Loaded(b, s)}
Known == {s \in Nat : s \in Held \/ StartOf(s) < seekindex}
Safe == {i \in Nat : StartOf(Section(i)) = i \/ Section(i) \in Known}

CacheTypes ==
  /\ blocks \in [Blocks -> [start : Nat, end : Nat, data : [Slots -> Int]]]
  /\ current \in [block : Blocks, start : Nat, end : Nat]
  /\ seekindex \in Nat /\ filepos \in Nat

InOrder ==
  /\ \A i \in Blocks, j \in Blocks : order[i] = order[j] => i = j
  /\ \A b \in Blocks : \E i \in Blocks : order[i] = b

DataRight ==
  \A b \in Blocks : Loaded(b, section[b]) =>
    \A i \in Slots : i < EndOf(section[b]) - StartOf(section[b]) =>
      blocks[b].data[i] = StartOf(section[b]) + i

(* The calls StreamLoad makes: it peeks at m_offset, reads a text it has    *)
(* gone back to, or compares near where it may go back to.                 *)
Searching == phase \in {"end", "found?"}
Low == IF phase \in {"token", "cdata"} THEN mark ELSE offset
Comparing == call.left > 0 /\ ~call.setcurrent
Moving == call.left > 0 /\ call.setcurrent
Peeking == call.left = 1 /\ call.skip = 0 /\ call.index = offset
Target == offset + call.skip
Reading == phase = "ready" /\ offset = mark /\ Target >= call.index + call.left

Calls ==
  /\ call.setcurrent \in BOOLEAN
  /\ phase \in {"end", "found?", "ready", "token", "cdata", "comment"}
  /\ phase = "end" => Idle
  /\ phase \in {"token", "cdata"} => mark <= offset
  /\ phase = "token" => offset <= mark + MaxText
  /\ call.left > 0 => call.index >= offset
  /\ Comparing =>
       /\ phase \in {"ready", "cdata", "comment"} /\ call.skip = 0
       /\ call.index + call.left <= Low + BlockSize + 1
       /\ phase = "ready" => call.index + call.left <= offset + BlockSize
  /\ Moving =>
       /\ phase \in {"found?", "ready", "token"}
       /\ Peeking \/ Reading

(* The last byte it was given is at or behind the place it has looked at.   *)
Answers ==
  /\ phase = "token" /\ Idle /\ offset > mark => given.index = offset
  /\ phase = "cdata" => given.index <= mark + BlockSize
  /\ phase \in {"cdata", "comment"} /\ Idle => given.index >= offset

(* The current block still holds its section, unless StreamLoad will not   *)
(* ask for a byte of it again.  A comparison may have touched the block of  *)
(* the next section since, and no other.                                   *)
CurrentSection == Section(current.start)
Fresh == section[current.block] = CurrentSection /\ Loaded(current.block, CurrentSection)
Passed == current.end <= Low

CurrentRight ==
  /\ CurrentSection \in Sections
  /\ current.start = StartOf(CurrentSection) /\ current.end = EndOf(CurrentSection)
  /\ Fresh \/ Passed
  /\ Searching => Fresh /\ Newest = current.block
  /\ Loaded(Newest, section[Newest])
  /\ \/ Passed
     \/ Newest = current.block
     \/ /\ Second = current.block
        /\ StartOf(section[Newest]) = current.end
        /\ StartOf(section[Newest]) <= Low + BlockSize
  /\ Section(given.index) \in {section[Newest], CurrentSection}
  /\ ~Moving => current.start <= offset

(* No load finds m_offset behind the start of a section the file is at:     *)
(* while it searches, every load but the first is before the last one.     *)
Untouched ==
  /\ fs = FileSize /\ seekindex <= BlockSize /\ current.end <= BlockSize
  /\ \A b \in Blocks : blocks[b].end <= BlockSize

SearchRight ==
  /\ Searching => seekindex >= fs \/ Untouched
  /\ phase = "found?" /\ Idle => seekindex >= fs
  /\ phase = "found?" /\ ~Idle => call.index = fs - 1

PlacesSafe ==
  /\ ~Searching => offset \in Safe
  /\ phase \in {"token", "cdata"} => mark \in Safe
  /\ phase = "ready" /\ ~Moving /\ given.index >= offset - 1 => Section(offset) \in Known
  /\ phase = "token" /\ Idle => Section(offset) \in Known
  /\ phase \in {"cdata", "comment"} =>
       (~Idle /\ call.index = offset) \/ Section(offset) \in Known

(* What is behind a text that is being read.                               *)
TargetSafe ==
  Moving /\ Reading =>
    \/ StartOf(Section(Target)) = Target /\ Target > call.index + call.left
    \/ /\ Section(Target) <= Section(mark) + 1
       /\ Section(Target) \in Known
       /\ \/ section[Newest] = Section(Target)
          \/ StartOf(Section(Target)) <= call.index
          \/ Section(call.index) \in Held

StreamInv ==
  /\ CacheInv /\ CacheTypes /\ InOrder /\ DataRight
  /\ Calls /\ Answers /\ CurrentRight
  /\ SearchRight /\ PlacesSafe /\ TargetSafe
  /\ GivesTheFile /\ PositionKnown

-----------------------------------------------------------------------------
(* A load: which section, what a block holds that is filled with it.        *)
LEMMA WantedPlace ==
  ASSUME CacheInv, call.left > 0
  PROVE  /\ Wanted \in Sections /\ Wanted = Section(call.index)
         /\ call.index \in Nat /\ call.index < FileSize
         /\ StartOf(Wanted) <= call.index /\ call.index < EndOf(Wanted)
<1>1. call.index \in Nat /\ call.index < FileSize
  BY StreamCacheAssumption DEF CacheInv, CallInside
<1>2. Wanted = Section(call.index)
  BY DEF Wanted, Section
<1> QED
  BY <1>1, <1>2, PlaceInFile

LEMMA FilledRight ==
  ASSUME CacheTypes, PositionKnown, NEW s \in Sections, NEW b \in Blocks,
         offset \in Nat, Fill(b, s),
         StartOf(s) = seekindex => offset <= StartOf(s)
  PROVE  /\ seekindex' = EndOf(s) /\ filepos' = EndOf(s)
         /\ blocks' \in [Blocks -> [start : Nat, end : Nat, data : [Slots -> Int]]]
         /\ blocks'[b].start = StartOf(s) /\ blocks'[b].end = EndOf(s)
         /\ \A i \in Slots : i < EndOf(s) - StartOf(s) => blocks'[b].data[i] = StartOf(s) + i
         /\ \A c \in Blocks : c # b => blocks'[c] = blocks[c]
<1> DEFINE st == StartOf(s)
           en == EndOf(s)
           filled == Filled(blocks[b].data, st, en)
<1>1. /\ st \in Nat /\ en \in Nat /\ st < en /\ en <= FileSize
      /\ FileSize \in Nat /\ seekindex \in Nat /\ filepos \in Nat /\ seekindex = filepos
  BY SectionBounds, StreamCacheAssumption DEF CacheTypes, PositionKnown
<1>2. /\ blocks' = [blocks EXCEPT ![b] = [start |-> st, end |-> en, data |-> filled]]
      /\ filepos' = IF From(st) + NumRead(st, en) > FileSize THEN FileSize
                    ELSE From(st) + NumRead(st, en)
      /\ seekindex' = en
  BY DEF Fill
<1>3. st = seekindex => offset <= st
  OBVIOUS
<1> HIDE DEF st, en
<1>4. From(st) = st
  BY <1>1 DEF From
<1>5. NumRead(st, en) = en - st
  <2>1. CASE st # seekindex
    BY <1>1, <2>1 DEF NumRead
  <2>2. CASE st = seekindex
    BY <1>1, <1>3, <2>2 DEF NumRead
  <2> QED
    BY <2>1, <2>2
<1>6. filepos' = en
  BY <1>1, <1>2, <1>4, <1>5
<1>7. \A i \in Slots : i < en - st => filled[i] = st + i
  BY <1>1, <1>4, <1>5, StreamCacheAssumption DEF Filled, Slots, Bytes
<1>8. filled \in [Slots -> Int]
  <2>1. blocks[b].data \in [Slots -> Int]
    BY DEF CacheTypes
  <2> QED
    <3>1. \A i \in Slots : i \in Nat /\ st + i \in Int /\ blocks[b].data[i] \in Int
      BY <1>1, <2>1, StreamCacheAssumption DEF Slots
    <3>2. filled = [i \in Slots |-> IF i < NumRead(st, en) /\ st + i \in Bytes
                                      THEN st + i ELSE blocks[b].data[i]]
      BY <1>4 DEF Filled
    <3> QED
      BY <3>1, <3>2
<1> HIDE DEF filled
<1>9. /\ blocks' \in [Blocks -> [start : Nat, end : Nat, data : [Slots -> Int]]]
      /\ blocks'[b] = [start |-> st, end |-> en, data |-> filled]
      /\ \A c \in Blocks : c # b => blocks'[c] = blocks[c]
  BY <1>1, <1>2, <1>8 DEF CacheTypes
<1>10. blocks'[b].start = st /\ blocks'[b].end = en /\ blocks'[b].data = filled
  BY <1>9
<1> QED
  BY <1>2, <1>6, <1>7, <1>9, <1>10 DEF st, en

(* The order after a block was used.                                       *)
LEMMA TouchedOrder ==
  ASSUME order \in [Blocks -> Blocks], InOrder, FileFits, NEW b \in Blocks
  PROVE  /\ \A i \in Blocks, j \in Blocks : Touched(b)[i] = Touched(b)[j] => i = j
         /\ \A c \in Blocks : \E i \in Blocks : Touched(b)[i] = c
         /\ Touched(b)[LastBlock] = b
         /\ b # Newest => Touched(b)[LastBlock - 1] = Newest
         /\ b = Newest => Touched(b) = order
<1> DEFINE new == Touched(b)
<1>1. /\ LastBlock \in Nat /\ LastBlock > 1 /\ Blocks = 1 .. LastBlock
  <2>1. LastBlock > 1
    BY BlockNumbers, StreamCacheAssumption DEF LastBlock, FileFits
  <2> QED
    BY <2>1, BlockNumbers
<1>2. PICK p \in Blocks : order[p] = b
  BY DEF InOrder
<1>3. \A i \in Blocks : new[i] = IF i = LastBlock THEN b
                                  ELSE IF i < p THEN order[i] ELSE order[i + 1]
  <2> SUFFICES ASSUME NEW i \in Blocks PROVE (\E j \in 1 .. i : order[j] = b) <=> ~(i < p)
    BY DEF Touched
  <2>1. ASSUME NEW j \in 1 .. i, order[j] = b PROVE ~(i < p)
    <3>1. j \in Blocks /\ j \in Nat /\ i \in Nat /\ j <= i
      BY <1>1
    <3>2. j = p
      BY <1>2, <2>1, <3>1 DEF InOrder
    <3> QED
      BY <3>1, <3>2
  <2>2. ASSUME ~(i < p) PROVE \E j \in 1 .. i : order[j] = b
    <3>1. p \in 1 .. i
      BY <1>1, <1>2, <2>2
    <3> QED
      BY <1>2, <3>1
  <2> QED
    BY <2>1, <2>2
<1>4. new \in [Blocks -> Blocks]
  BY TouchedType
<1> HIDE DEF new
<1>5. ASSUME NEW i \in Blocks, NEW j \in Blocks, new[i] = new[j], i < j PROVE FALSE
  <2>1. i \in Nat /\ j \in Nat /\ i + 1 \in Blocks /\ i # LastBlock /\ p \in Nat
    <3>1. i \in 1 .. LastBlock /\ j \in 1 .. LastBlock /\ p \in 1 .. LastBlock
      <4>1. Blocks = 1 .. LastBlock
        BY <1>1
      <4> QED
        BY <4>1, Zenon
    <3>2. i + 1 \in 1 .. LastBlock /\ i # LastBlock
      <4>1. LastBlock \in Nat /\ i < j
        BY <1>1, <1>5
      <4> QED
        BY <4>1, <3>1
    <3> QED
      BY <1>1, <3>1, <3>2
  <2>2. PICK k \in Blocks : new[i] = order[k] /\ k \in {i, i + 1} /\ k # p
                            /\ (k = i + 1 => p <= i)
    <3>1. new[i] = IF i < p THEN order[i] ELSE order[i + 1]
      BY <1>3, <2>1
    <3>2. CASE i < p
      BY <2>1, <3>1, <3>2
    <3>3. CASE ~(i < p)
      <4>1. i + 1 # p /\ p <= i /\ new[i] = order[i + 1]
        BY <2>1, <3>1, <3>3
      <4> QED
        BY <2>1, <4>1
    <3> QED
      BY <3>2, <3>3
  <2>3. CASE j = LastBlock
    BY <1>2, <1>3, <1>5, <2>2, <2>3 DEF InOrder
  <2>4. CASE j # LastBlock
    <3>1. j + 1 \in Blocks
      BY <1>1, <2>4
    <3>2. PICK m \in Blocks : new[j] = order[m] /\ m \in {j, j + 1} /\ (m = j => j < p)
      BY <1>2, <1>3, <2>1, <2>4, <3>1
    <3>3. k = m
      BY <1>5, <2>2, <3>2 DEF InOrder
    <3> QED
      BY <1>5, <2>1, <2>2, <3>2, <3>3
  <2> QED
    BY <2>3, <2>4
<1>6. ASSUME NEW i \in Blocks, NEW j \in Blocks, new[i] = new[j] PROVE i = j
  <2>1. i \in Nat /\ j \in Nat
    BY <1>1
  <2>2. ~(i < j) /\ ~(j < i)
    BY <1>5, <1>6
  <2> QED
    BY <2>1, <2>2
<1>7. ASSUME NEW c \in Blocks PROVE \E i \in Blocks : new[i] = c
  <2>1. CASE c = b
    <3>1. LastBlock \in Blocks
      BY <1>1
    <3>2. new[LastBlock] = c
      BY <1>3, <2>1, <3>1
    <3> QED
      BY <3>1, <3>2
  <2>2. CASE c # b
    <3>1. PICK q \in Blocks : order[q] = c
      BY DEF InOrder
    <3>2. q \in Nat /\ p \in Nat /\ q # p
      BY <1>1, <1>2, <2>2, <3>1
    <3>3. CASE q < p
      <4>1. q # LastBlock
        BY <1>1, <3>3
      <4>2. new[q] = order[q]
        BY <1>3, <3>3, <4>1
      <4> QED
        BY <3>1, <4>2
    <3>4. CASE q > p
      <4>1. q - 1 \in Blocks /\ q - 1 # LastBlock /\ ~(q - 1 < p) /\ (q - 1) + 1 = q
        BY <1>1, <3>2, <3>4
      <4>2. new[q - 1] = order[(q - 1) + 1]
        BY <1>3, <4>1
      <4> QED
        BY <3>1, <4>1, <4>2
    <3> QED
      BY <3>2, <3>3, <3>4
  <2> QED
    BY <2>1, <2>2
<1>8. new[LastBlock] = b
  BY <1>1, <1>3
<1>9. ASSUME b # Newest PROVE new[LastBlock - 1] = Newest
  <2>1. p # LastBlock
    BY <1>2, <1>9 DEF Newest
  <2>2. LastBlock - 1 \in Blocks /\ LastBlock - 1 # LastBlock
        /\ ~(LastBlock - 1 < p) /\ (LastBlock - 1) + 1 = LastBlock
    BY <1>1, <2>1
  <2> QED
    BY <1>3, <2>2 DEF Newest
<1>10. ASSUME b = Newest PROVE new = order
  <2>1. p = LastBlock
    BY <1>1, <1>2, <1>10 DEF Newest, InOrder
  <2>2. ASSUME NEW i \in Blocks PROVE new[i] = order[i]
    BY <1>1, <1>2, <1>3, <2>1
  <2> QED
    BY <1>4, <2>2
<1> QED
  BY <1>6, <1>7, <1>8, <1>9, <1>10 DEF new

-----------------------------------------------------------------------------
(* The current block may be used without a look: a byte the client asks for *)
(* is not before the place it may go back to, so the block is not stale.   *)
LEMMA QuickRight ==
  ASSUME StreamInv, UseCurrent
  PROVE  /\ CurrentSection = Wanted /\ Fresh /\ Wanted \in Held
         /\ given' = [index |-> call.index, byte |-> call.index]
<1> USE DEF StreamInv
<1>1. call.left > 0 /\ Quick
  BY DEF UseCurrent
<1>2. /\ Wanted \in Sections /\ Wanted = Section(call.index) /\ call.index \in Nat
  BY <1>1, WantedPlace
<1>3. /\ CurrentSection \in Sections
      /\ current.start = StartOf(CurrentSection) /\ current.end = EndOf(CurrentSection)
  BY DEF CurrentRight
<1>4. /\ CurrentSection \in Nat /\ StartOf(CurrentSection) \in Nat
      /\ EndOf(CurrentSection) \in Nat
      /\ EndOf(CurrentSection) <= StartOf(CurrentSection) + BlockSize
  BY <1>3, SectionBounds, StreamCacheAssumption
<1>5. StartOf(CurrentSection) <= call.index /\ call.index < EndOf(CurrentSection)
  BY <1>1, <1>2, <1>3, <1>4 DEF Quick
<1>6. CurrentSection = Wanted
  BY <1>2, <1>4, <1>5, SectionIs, StreamCacheAssumption
<1>7. Low <= call.index /\ Low \in Nat
  <2>1. call.index >= offset /\ offset \in Nat /\ mark \in Nat
    BY <1>1 DEF Calls, CacheInv, ClientTypes
  <2>2. Low = offset \/ (Low = mark /\ mark <= offset)
    BY DEF Low, Calls
  <2> QED
    BY <1>2, <2>1, <2>2
<1>8. Fresh
  BY <1>2, <1>3, <1>4, <1>5, <1>7 DEF CurrentRight, Passed
<1>9. current.block \in Blocks
  BY DEF CacheTypes
<1>10. Wanted \in Held
  BY <1>6, <1>8, <1>9, <1>2 DEF Held, Fresh
<1>11. blocks[current.block].data[call.index - current.start] = call.index
  <2> DEFINE k == call.index - current.start
  <2>1. k \in Slots /\ k < EndOf(CurrentSection) - StartOf(CurrentSection)
        /\ StartOf(CurrentSection) + k = call.index
    BY <1>2, <1>3, <1>4, <1>5, StreamCacheAssumption DEF Slots
  <2> HIDE DEF k
  <2>2. section[current.block] = CurrentSection
        /\ Loaded(current.block, section[current.block])
    BY <1>8 DEF Fresh
  <2>3. blocks[current.block].data[k] = StartOf(CurrentSection) + k
    BY <1>9, <2>1, <2>2 DEF DataRight
  <2> QED
    BY <2>1, <2>3 DEF k
<1>12. given' = [index |-> call.index,
                 byte |-> blocks[current.block].data[call.index - current.start]]
  BY DEF UseCurrent, Hand
<1> QED
  BY <1>6, <1>8, <1>10, <1>11, <1>12

(* A section that no block holds can be filled: when the file is at its     *)
(* start, and no seek is made, m_offset is not behind its start.           *)
LEMMA FillIsSafe ==
  ASSUME StreamInv, FileFits, call.left > 0, Wanted \notin Held
  PROVE  StartOf(Wanted) = seekindex => offset <= StartOf(Wanted)
<1> USE DEF StreamInv
<1>1. /\ Wanted \in Sections /\ Wanted = Section(call.index)
      /\ call.index \in Nat /\ call.index < FileSize
      /\ StartOf(Wanted) <= call.index /\ call.index < EndOf(Wanted)
  BY WantedPlace
<1>2. /\ Wanted \in Nat /\ StartOf(Wanted) \in Nat /\ EndOf(Wanted) \in Nat
      /\ EndOf(Wanted) <= StartOf(Wanted) + BlockSize
  BY <1>1, SectionBounds, StreamCacheAssumption
<1>3. offset \in Nat /\ offset <= call.index
  BY DEF Calls, CacheInv, ClientTypes
<1> SUFFICES ASSUME StartOf(Wanted) = seekindex, offset > StartOf(Wanted) PROVE FALSE
  BY <1>2, <1>3
<1>4. Section(offset) = Wanted
  BY <1>1, <1>2, <1>3, SectionIs, StreamCacheAssumption
<1>5. Wanted \notin Known
  BY <1>2 DEF Known
<1>6. offset \notin Safe
  BY <1>2, <1>3, <1>4, <1>5 DEF Safe
<1>7. Searching
  BY <1>6 DEF PlacesSafe
<1>8. phase = "found?" /\ call.index = fs - 1 /\ fs \in Nat
  BY <1>7 DEF Searching, Calls, Idle, SearchRight, CacheInv, ClientTypes
<1>9. Untouched
  BY <1>1, <1>2, <1>7, <1>8 DEF SearchRight
<1>10. call.index = FileSize - 1 /\ seekindex <= BlockSize
  BY <1>8, <1>9 DEF Untouched
<1>11. StartOf(2) < FileSize /\ StartOf(2) = 2 * BlockSize
  <2>1. 2 \in Sections
    BY BlockNumbers DEF FileFits, Sections
  <2> QED
    BY <2>1, SectionBounds, StreamCacheAssumption DEF StartOf
<1> QED
  BY <1>1, <1>2, <1>10, <1>11, StreamCacheAssumption

(* What the other three ways to a byte do, with block b.                   *)
Brings(b) ==
  /\ order' = Touched(b) /\ MakeCurrent(b, Wanted)
  /\ section' = [section EXCEPT ![b] = Wanted]
  /\ blocks' \in [Blocks -> [start : Nat, end : Nat, data : [Slots -> Int]]]
  /\ blocks'[b].start = StartOf(Wanted) /\ blocks'[b].end = EndOf(Wanted)
  /\ \A i \in Slots : i < EndOf(Wanted) - StartOf(Wanted)
                        => blocks'[b].data[i] = StartOf(Wanted) + i
  /\ \A c \in Blocks : c # b => blocks'[c] = blocks[c]
  /\ \/ /\ Wanted \in Held /\ section[b] = Wanted
        /\ UNCHANGED <<blocks, section, seekindex, filepos>>
     \/ /\ Wanted \notin Held /\ b # Newest
        /\ seekindex' = EndOf(Wanted) /\ filepos' = EndOf(Wanted)
  /\ given' = [index |-> call.index, byte |-> call.index]

LEMMA HandedRight ==
  ASSUME CacheInv, call.left > 0, NEW b \in Blocks,
         NEW data, \A i \in Slots : i < EndOf(Wanted) - StartOf(Wanted)
                                      => data[i] = StartOf(Wanted) + i,
         Hand(b, StartOf(Wanted), data)
  PROVE  given' = [index |-> call.index, byte |-> call.index]
<1> DEFINE k == call.index - StartOf(Wanted)
<1>1. /\ Wanted \in Sections /\ call.index \in Nat
      /\ StartOf(Wanted) <= call.index /\ call.index < EndOf(Wanted)
  BY WantedPlace
<1>2. /\ StartOf(Wanted) \in Nat /\ EndOf(Wanted) \in Nat
      /\ EndOf(Wanted) <= StartOf(Wanted) + BlockSize
  BY <1>1, SectionBounds, StreamCacheAssumption
<1>3. k \in Slots /\ k < EndOf(Wanted) - StartOf(Wanted) /\ StartOf(Wanted) + k = call.index
  BY <1>1, <1>2, StreamCacheAssumption DEF Slots
<1> HIDE DEF k
<1>4. data[k] = call.index
  BY <1>3
<1>5. given' = [index |-> call.index, byte |-> data[k]]
  BY DEF Hand, k
<1> QED
  BY <1>4, <1>5

LEMMA LoadBrings ==
  ASSUME StreamInv, FileFits, UseLoaded \/ FirstLoad \/ Replace
  PROVE  \E b \in Blocks : Brings(b)
<1> USE DEF StreamInv
<1>1. call.left > 0
  BY DEF UseLoaded, FirstLoad, Replace
<1>2. Wanted \in Sections
  BY <1>1, WantedPlace
<1>3. /\ section \in [Blocks -> Sections]
      /\ attached \in [Sections -> Blocks \cup {NoBlock}]
      /\ order \in [Blocks -> Blocks] /\ offset \in Nat
  BY DEF CacheInv, Tables, ClientTypes
<1>4. ASSUME NEW c \in Blocks, section[c] = Wanted PROVE attached[Wanted] = c /\ c # NoBlock
  <2>1. c # NoBlock
    BY BlockNumbers DEF NoBlock
  <2> QED
    BY <1>4, <2>1 DEF CacheInv, KnowEachOther
<1>5. LastBlock \in Nat /\ LastBlock > 1 /\ Blocks = 1 .. LastBlock
  <2>1. LastBlock > 1
    BY BlockNumbers, StreamCacheAssumption DEF LastBlock, FileFits
  <2> QED
    BY <2>1, BlockNumbers
<1>6. Newest \in Blocks /\ Loaded(Newest, section[Newest])
  BY <1>3, <1>5 DEF Newest, CurrentRight
<1>7. CASE UseLoaded
  <2> DEFINE b == attached[Wanted]
  <2>1. b \in Blocks /\ section[b] = Wanted /\ Loaded(b, Wanted)
    BY <1>2, <1>3, <1>7 DEF UseLoaded, CacheInv, KnowEachOther
  <2>2. Wanted \in Held
    BY <1>2, <2>1 DEF Held
  <2>3. /\ order' = Touched(b) /\ MakeCurrent(b, Wanted)
        /\ Hand(b, StartOf(Wanted), blocks[b].data)
        /\ UNCHANGED <<blocks, section, seekindex, filepos>>
    BY <1>7 DEF UseLoaded
  <2> HIDE DEF b
  <2>4. section' = [section EXCEPT ![b] = Wanted]
    BY <1>3, <2>1, <2>3
  <2>5. \A i \in Slots : i < EndOf(Wanted) - StartOf(Wanted)
                           => blocks[b].data[i] = StartOf(Wanted) + i
    BY <2>1 DEF DataRight
  <2>6. given' = [index |-> call.index, byte |-> call.index]
    BY <1>1, <2>1, <2>3, <2>5, HandedRight
  <2>7. Brings(b)
    BY <2>1, <2>2, <2>3, <2>4, <2>5, <2>6 DEF Brings, Loaded, CacheTypes
  <2> QED
    BY <2>1, <2>7
<1>8. ASSUME NEW b \in Blocks, Wanted \notin Held, b # Newest, Fill(b, Wanted),
             order' = Touched(b), MakeCurrent(b, Wanted),
             section' = [section EXCEPT ![b] = Wanted],
             Hand(b, StartOf(Wanted), blocks'[b].data)
      PROVE  Brings(b)
  <2>1. StartOf(Wanted) = seekindex => offset <= StartOf(Wanted)
    BY <1>1, <1>8, FillIsSafe
  <2>2. /\ seekindex' = EndOf(Wanted) /\ filepos' = EndOf(Wanted)
        /\ blocks' \in [Blocks -> [start : Nat, end : Nat, data : [Slots -> Int]]]
        /\ blocks'[b].start = StartOf(Wanted) /\ blocks'[b].end = EndOf(Wanted)
        /\ \A i \in Slots : i < EndOf(Wanted) - StartOf(Wanted)
                              => blocks'[b].data[i] = StartOf(Wanted) + i
        /\ \A c \in Blocks : c # b => blocks'[c] = blocks[c]
    BY <1>2, <1>3, <1>8, <2>1, FilledRight
  <2>3. given' = [index |-> call.index, byte |-> call.index]
    BY <1>1, <1>8, <2>2, HandedRight
  <2> QED
    BY <1>8, <2>2, <2>3 DEF Brings
<1>9. CASE FirstLoad
  <2> DEFINE b == attached[Wanted]
  <2>1. b \in Blocks /\ section[b] = Wanted /\ ~Loaded(b, Wanted)
    BY <1>2, <1>3, <1>9 DEF FirstLoad, CacheInv, KnowEachOther
  <2>2. Wanted \notin Held
    BY <1>4, <2>1 DEF Held
  <2>3. /\ order' = Touched(b) /\ MakeCurrent(b, Wanted) /\ Fill(b, Wanted)
        /\ Hand(b, StartOf(Wanted), blocks'[b].data)
        /\ section' = section
    BY <1>9 DEF FirstLoad
  <2> HIDE DEF b
  <2>4. section' = [section EXCEPT ![b] = Wanted]
    BY <1>3, <2>1, <2>3
  <2>5. b # Newest
    BY <1>6, <2>1
  <2>6. Brings(b)
    BY <1>8, <2>1, <2>2, <2>3, <2>4, <2>5
  <2> QED
    BY <2>1, <2>6
<1>10. CASE Replace
  <2>1. Oldest \in Blocks /\ Oldest # Newest
    BY <1>3, <1>5 DEF Oldest, Newest, InOrder
  <2>2. Wanted \notin Held
    BY <1>4, <1>10 DEF Held, Replace
  <2>3. /\ order' = Touched(Oldest) /\ MakeCurrent(Oldest, Wanted) /\ Fill(Oldest, Wanted)
        /\ Hand(Oldest, StartOf(Wanted), blocks'[Oldest].data)
        /\ section' = [section EXCEPT ![Oldest] = Wanted]
    BY <1>10 DEF Replace
  <2>4. Brings(Oldest)
    BY <1>8, <2>1, <2>2, <2>3
  <2> QED
    BY <2>1, <2>4
<1> QED
  BY <1>7, <1>9, <1>10

-----------------------------------------------------------------------------
(* After a load: the tables of the cache, and what is still known.         *)
LEMMA LoadKeepsTables ==
  ASSUME StreamInv, FileFits, LoadStreamBlock
  PROVE  /\ CacheTypes' /\ InOrder' /\ DataRight' /\ PositionKnown' /\ GivesTheFile'
         /\ given'.index = call.index
<1> USE DEF StreamInv
<1>1. CASE UseCurrent
  <2>1. given' = [index |-> call.index, byte |-> call.index]
    BY <1>1, QuickRight
  <2>2. UNCHANGED cache
    BY <1>1 DEF UseCurrent
  <2>3. CacheTypes' /\ InOrder' /\ DataRight' /\ PositionKnown'
    BY <2>2 DEF cache, CacheTypes, InOrder, DataRight, Loaded, PositionKnown
  <2> QED
    BY <2>1, <2>3 DEF GivesTheFile
<1>2. CASE UseLoaded \/ FirstLoad \/ Replace
  <2>1. PICK b \in Blocks : Brings(b)
    BY <1>2, LoadBrings
  <2>2. call.left > 0
    BY <1>2 DEF UseLoaded, FirstLoad, Replace
  <2>3. Wanted \in Sections
    BY <2>2, WantedPlace
  <2>4. /\ StartOf(Wanted) \in Nat /\ EndOf(Wanted) \in Nat
    BY <2>3, SectionBounds
  <2>5. section \in [Blocks -> Sections] /\ order \in [Blocks -> Blocks]
    BY DEF CacheInv, Tables
  <2>6. CacheTypes'
    <3>1. current' \in [block : Blocks, start : Nat, end : Nat]
      BY <2>1, <2>4 DEF Brings, MakeCurrent, CacheTypes
    <3>2. seekindex' \in Nat /\ filepos' \in Nat
      BY <2>1, <2>4 DEF Brings, CacheTypes
    <3> QED
      BY <2>1, <3>1, <3>2 DEF Brings, CacheTypes
  <2>7. InOrder'
    <3>1. order' = Touched(b)
      BY <2>1 DEF Brings
    <3>2. /\ \A i \in Blocks, j \in Blocks : Touched(b)[i] = Touched(b)[j] => i = j
          /\ \A c \in Blocks : \E i \in Blocks : Touched(b)[i] = c
      BY <2>5, TouchedOrder
    <3> QED
      BY <3>1, <3>2 DEF InOrder
  <2>8. DataRight'
    <3> SUFFICES ASSUME NEW c \in Blocks, Loaded(c, section[c])',
                        NEW i \in Slots, i < EndOf(section'[c]) - StartOf(section'[c])
                 PROVE  blocks'[c].data[i] = StartOf(section'[c]) + i
      BY DEF DataRight
    <3>1. CASE c = b
      BY <2>1, <2>5, <3>1 DEF Brings
    <3>2. CASE c # b
      <4>1. blocks'[c] = blocks[c] /\ section'[c] = section[c]
        BY <2>1, <2>5, <3>2 DEF Brings
      <4> QED
        BY <4>1 DEF DataRight, Loaded
    <3> QED
      BY <3>1, <3>2
  <2>9. PositionKnown'
    BY <2>1 DEF Brings, PositionKnown
  <2>10. GivesTheFile' /\ given'.index = call.index
    BY <2>1 DEF Brings, GivesTheFile
  <2> QED
    BY <2>6, <2>7, <2>8, <2>9, <2>10
<1> QED
  BY <1>1, <1>2 DEF LoadStreamBlock

(* The wanted section is held then, a section up to it that was known is    *)
(* known, one behind it is if nothing had to be read, and so is the one     *)
(* used last.                                                              *)
LEMMA LoadKeepsKnown ==
  ASSUME StreamInv, FileFits, LoadStreamBlock
  PROVE  /\ Wanted \in Held' /\ Wanted \in Known'
         /\ \A s \in Known : s <= Wanted \/ Wanted \in Held => s \in Known'
         /\ section[Newest] \in Known'
<1> USE DEF StreamInv
<1>1. call.left > 0
  BY DEF LoadStreamBlock, UseCurrent, UseLoaded, FirstLoad, Replace
<1>2. Wanted \in Sections
  BY <1>1, WantedPlace
<1>3. /\ Wanted \in Nat /\ StartOf(Wanted) \in Nat /\ EndOf(Wanted) \in Nat
      /\ StartOf(Wanted) < EndOf(Wanted)
  BY <1>2, SectionBounds
<1>4. section \in [Blocks -> Sections] /\ order \in [Blocks -> Blocks]
  BY DEF CacheInv, Tables
<1>5. LastBlock \in Blocks
  BY BlockNumbers
<1>6. /\ Newest \in Blocks /\ section[Newest] \in Sections /\ section[Newest] \in Nat
      /\ Loaded(Newest, section[Newest])
  BY <1>4, <1>5, SectionBounds DEF Newest, CurrentRight
<1>7. section[Newest] \in Held
  BY <1>6 DEF Held
<1>8. ASSUME Wanted \in Held, UNCHANGED <<blocks, section, seekindex>>
      PROVE  Wanted \in Held' /\ Known' = Known
  BY <1>8 DEF Held, Known, Loaded
<1>9. CASE UseCurrent
  <2>1. Wanted \in Held
    BY <1>9, QuickRight
  <2>2. Wanted \in Held' /\ Known' = Known
    BY <1>8, <1>9, <2>1 DEF UseCurrent, cache
  <2> QED
    BY <1>3, <1>6, <1>7, <2>1, <2>2 DEF Known
<1>10. CASE UseLoaded \/ FirstLoad \/ Replace
  <2>1. PICK b \in Blocks : Brings(b)
    BY <1>10, LoadBrings
  <2>2. CASE Wanted \in Held
    <3>1. Wanted \in Held' /\ Known' = Known
      BY <1>8, <2>1, <2>2 DEF Brings
    <3> QED
      BY <1>3, <1>6, <1>7, <2>2, <3>1 DEF Known
  <2>3. CASE Wanted \notin Held
    <3>2. Wanted \in Held'
      BY <1>2, <2>1, <1>4 DEF Held, Brings, Loaded
    <3>3. ASSUME NEW s \in Nat, s <= Wanted PROVE s \in Known'
      <4>1. StartOf(s) <= StartOf(Wanted)
        BY <1>3, <3>3, StartsInOrder, StreamCacheAssumption
      <4>2. StartOf(s) \in Nat /\ seekindex' = EndOf(Wanted)
        BY <2>1, <2>3, StartsInOrder DEF Brings
      <4> QED
        BY <1>3, <4>1, <4>2 DEF Known
    <3>4. section[Newest] \in Held'
      <4>1. b # Newest
        BY <2>1, <2>3 DEF Brings
      <4>2. blocks'[Newest] = blocks[Newest] /\ section'[Newest] = section[Newest]
        BY <1>4, <1>6, <2>1, <4>1 DEF Brings
      <4> QED
        BY <1>6, <4>2 DEF Held, Loaded
    <3> QED
      BY <1>3, <1>6, <2>3, <3>2, <3>3, <3>4 DEF Known
  <2> QED
    BY <2>2, <2>3
<1> QED
  BY <1>9, <1>10 DEF LoadStreamBlock

-----------------------------------------------------------------------------
(* The call after one of its bytes has been handed over.                   *)
LEMMA HandedOver ==
  ASSUME StreamInv, LoadStreamBlock
  PROVE  /\ call.left \in Nat /\ call.left > 0 /\ call.index \in Nat /\ call.skip \in Int
         /\ offset \in Nat /\ mark \in Nat /\ offset <= call.index /\ call.index < FileSize
         /\ call'.index = call.index + 1 /\ call'.left = call.left - 1
         /\ call'.skip = call.skip /\ call'.setcurrent = call.setcurrent
         /\ offset' = IF call.left = 1 THEN Target ELSE offset
         /\ phase' = phase /\ mark' = mark /\ fs' = fs
         /\ \/ Comparing /\ ~Moving /\ Target = offset
            \/ ~Comparing /\ Moving /\ Peeking /\ Target = offset
            \/ ~Comparing /\ Moving /\ Reading /\ Target \in Nat
<1> USE DEF StreamInv
<1>1. /\ call.left > 0 /\ call'.index = call.index + 1 /\ call'.left = call.left - 1
      /\ call'.skip = call.skip /\ call'.setcurrent = call.setcurrent
      /\ offset' = IF call.left = 1 THEN Target ELSE offset
      /\ phase' = phase /\ mark' = mark /\ fs' = fs
  <2>1. call.left > 0 /\ \E b, start, data : Hand(b, start, data)
    BY DEF LoadStreamBlock, UseCurrent, UseLoaded, FirstLoad, Replace
  <2>2. /\ call' = [call EXCEPT !.index = @ + 1, !.left = @ - 1]
        /\ offset' = IF call.left = 1 THEN offset + call.skip ELSE offset
        /\ UNCHANGED client
    BY <2>1 DEF Hand
  <2>3. call = [index |-> call.index, left |-> call.left, skip |-> call.skip,
                setcurrent |-> call.setcurrent]
    BY DEF CacheInv, CallInside
  <2>4. call' = [index |-> call.index + 1, left |-> call.left - 1, skip |-> call.skip,
                 setcurrent |-> call.setcurrent]
    BY <2>2, <2>3
  <2> QED
    BY <2>1, <2>2, <2>4 DEF client, Target
<1>2. /\ call.left \in Nat /\ call.index \in Nat /\ call.skip \in Int
      /\ offset \in Nat /\ mark \in Nat /\ offset + call.skip \in Nat
  BY <1>1 DEF CacheInv, CallInside, ClientTypes
<1>3. call.index < FileSize /\ offset <= call.index
  BY <1>1, WantedPlace DEF Calls
<1>4. \/ Comparing /\ ~Moving /\ call.skip = 0
      \/ ~Comparing /\ Moving /\ Peeking /\ call.skip = 0
      \/ ~Comparing /\ Moving /\ Reading
  BY <1>1 DEF Calls, Comparing, Moving, Peeking
<1> QED
  BY <1>1, <1>2, <1>3, <1>4 DEF Target

LEMMA LoadKeepsCalls ==
  ASSUME StreamInv, LoadStreamBlock, given'.index = call.index
  PROVE  Calls' /\ Answers'
<1> USE DEF StreamInv
<1>1. /\ call.left \in Nat /\ call.left > 0 /\ call.index \in Nat /\ call.skip \in Int
      /\ offset \in Nat /\ mark \in Nat /\ offset <= call.index
      /\ call'.index = call.index + 1 /\ call'.left = call.left - 1
      /\ call'.skip = call.skip /\ call'.setcurrent = call.setcurrent
      /\ offset' = IF call.left = 1 THEN Target ELSE offset
      /\ phase' = phase /\ mark' = mark
  BY HandedOver
<1>2. \/ Comparing /\ ~Moving /\ Target = offset
      \/ ~Comparing /\ Moving /\ Peeking /\ Target = offset
      \/ ~Comparing /\ Moving /\ Reading /\ Target \in Nat
  BY HandedOver
<1>3. BlockSize \in Nat /\ MaxText \in Nat
  BY StreamCacheAssumption
<1>4. CASE Comparing
  <2>1. /\ offset' = offset /\ Low' = Low /\ ~Moving'
        /\ phase \in {"ready", "cdata", "comment"} /\ call.skip = 0
        /\ call.index + call.left <= Low + BlockSize + 1
        /\ phase = "ready" => call.index + call.left <= offset + BlockSize
    BY <1>1, <1>2, <1>4 DEF Low, Calls, Moving
  <2>2. Low \in Nat /\ (phase = "cdata" => Low = mark)
    BY <1>1 DEF Low
  <2>3. call'.index + call'.left = call.index + call.left
    BY <1>1
  <2>4. Calls'
    BY <1>1, <1>3, <1>4, <2>1, <2>2, <2>3 DEF Calls, Comparing, Idle
  <2>5. Answers'
    BY <1>1, <1>3, <2>1, <2>2 DEF Answers
  <2> QED
    BY <2>4, <2>5
<1>5. CASE Moving /\ Peeking /\ Target = offset
  <2>1. offset' = offset /\ call'.left = 0 /\ phase \in {"found?", "ready", "token"}
        /\ call.index = offset
    BY <1>1, <1>5 DEF Peeking, Calls
  <2>2. Calls'
    BY <1>1, <2>1 DEF Calls, Comparing, Moving, Idle
  <2>3. Answers'
    BY <1>1, <2>1 DEF Answers
  <2> QED
    BY <2>2, <2>3
<1>6. CASE Moving /\ Reading
  <2>1. phase = "ready" /\ ~Comparing /\ offset = mark /\ Target >= call.index + call.left
        /\ Target \in Int
    BY <1>1, <1>6 DEF Reading, Comparing, Moving, Target
  <2>2. Answers'
    BY <1>1, <2>1 DEF Answers
  <2>3. call'.left > 0 => call.left > 1 /\ offset' = offset
    BY <1>1
  <2>4. call'.left > 0 => Target' = Target /\ call'.index + call'.left = call.index + call.left
    BY <1>1, <2>3 DEF Target
  <2>5. call'.left > 0 => Reading'
    BY <1>1, <2>1, <2>3, <2>4 DEF Reading
  <2>6. ~Comparing'
    BY <1>1, <1>6 DEF Comparing, Moving
  <2>7. Calls'
    BY <1>1, <2>1, <2>3, <2>5, <2>6 DEF Calls, Moving, Idle
  <2> QED
    BY <2>2, <2>7
<1> QED
  BY <1>2, <1>4, <1>5, <1>6

-----------------------------------------------------------------------------
(* The current block after a load.  A load for a peek or a read makes its   *)
(* block current.  One for a comparison touches the wanted section's block: *)
(* when the current block is not passed, that is the section behind it, and *)
(* two blocks are enough for both.                                         *)
LEMMA LoadMovesOn ==
  ASSUME StreamInv, LoadStreamBlock
  PROVE  /\ Low \in Nat /\ Low' \in Nat /\ Low <= Low' /\ Low <= offset
         /\ offset' \in Nat /\ offset <= offset'
         /\ Comparing => Low' = Low /\ offset' = offset
<1>1. /\ call.left \in Nat /\ call.left > 0 /\ call.index \in Nat
      /\ offset \in Nat /\ mark \in Nat /\ offset <= call.index
      /\ offset' = IF call.left = 1 THEN Target ELSE offset
      /\ phase' = phase /\ mark' = mark
  BY HandedOver
<1>2. \/ Comparing /\ ~Moving /\ Target = offset
      \/ ~Comparing /\ Moving /\ Peeking /\ Target = offset
      \/ ~Comparing /\ Moving /\ Reading /\ Target \in Nat
  BY HandedOver
<1>3. phase \in {"token", "cdata"} => mark <= offset
  BY DEF StreamInv, Calls
<1>4. offset' \in Nat /\ offset <= offset' /\ (Comparing => offset' = offset)
  BY <1>1, <1>2 DEF Reading
<1> QED
  BY <1>1, <1>3, <1>4 DEF Low

LEMMA LoadKeepsCurrent ==
  ASSUME StreamInv, FileFits, LoadStreamBlock, given'.index = call.index
  PROVE  CurrentRight'
<1> USE DEF StreamInv
<1>1. /\ call.left \in Nat /\ call.left > 0 /\ call.index \in Nat
      /\ offset \in Nat /\ offset <= call.index /\ call.index < FileSize
      /\ call'.left = call.left - 1 /\ call'.setcurrent = call.setcurrent
      /\ offset' = IF call.left = 1 THEN Target ELSE offset
      /\ phase' = phase
  BY HandedOver
<1>2. \/ Comparing /\ ~Moving /\ Target = offset
      \/ ~Comparing /\ Moving /\ Peeking /\ Target = offset
      \/ ~Comparing /\ Moving /\ Reading /\ Target \in Nat
  BY HandedOver
<1>3. /\ Low \in Nat /\ Low' \in Nat /\ Low <= Low' /\ Low <= offset
      /\ offset' \in Nat /\ offset <= offset'
      /\ Comparing => Low' = Low /\ offset' = offset
  BY LoadMovesOn
<1>4. /\ Wanted \in Sections /\ Wanted = Section(call.index)
      /\ StartOf(Wanted) <= call.index /\ call.index < EndOf(Wanted)
  BY <1>1, WantedPlace
<1>5. /\ Wanted \in Nat /\ StartOf(Wanted) \in Nat /\ EndOf(Wanted) \in Nat
      /\ StartOf(Wanted) < EndOf(Wanted)
      /\ EndOf(Wanted) <= StartOf(Wanted) + BlockSize /\ BlockSize \in Nat /\ BlockSize > 0
  BY <1>4, SectionBounds, StreamCacheAssumption
<1>6. /\ CurrentSection \in Sections /\ CurrentSection \in Nat
      /\ current.start = StartOf(CurrentSection) /\ current.end = EndOf(CurrentSection)
      /\ StartOf(CurrentSection) \in Nat /\ EndOf(CurrentSection) \in Nat
      /\ EndOf(CurrentSection) = IF StartOf(CurrentSection) + BlockSize > FileSize
                                 THEN FileSize ELSE StartOf(CurrentSection) + BlockSize
  BY SectionBounds DEF CurrentRight
<1>7. Section(given'.index) = Wanted
  BY <1>4
<1>8. section \in [Blocks -> Sections] /\ order \in [Blocks -> Blocks]
  BY DEF CacheInv, Tables
<1>9. ~Moving' /\ Moving => offset' = Target /\ call.index < offset' + 1
  <2>1. ~Moving' /\ Moving => call.left = 1
    BY <1>1 DEF Moving
  <2>2. Target >= call.index \/ ~Moving
    BY <1>1, <1>2 DEF Peeking, Reading
  <2> QED
    BY <1>1, <1>2, <2>1, <2>2
<1>10. CASE UseCurrent
  <2>1. CurrentSection = Wanted
    BY <1>10, QuickRight
  <2>2. UNCHANGED cache
    BY <1>10 DEF UseCurrent
  <2>3. /\ CurrentSection' = CurrentSection /\ current' = current /\ Newest' = Newest
        /\ Second' = Second /\ section' = section /\ blocks' = blocks
        /\ Searching' = Searching
    BY <1>1, <2>2 DEF cache, CurrentSection, Newest, Second, Searching
  <2>4. Fresh' = Fresh /\ (Passed => Passed') /\ (Loaded(Newest, section[Newest]))'
    BY <1>3, <1>6, <2>3 DEF Fresh, Loaded, Passed, CurrentRight
  <2>5. ~Moving' => current'.start <= offset'
    <3>1. CASE Moving
      BY <1>1, <1>3, <1>4, <1>5, <1>6, <1>9, <2>1, <2>3, <3>1
    <3>2. CASE ~Moving
      BY <1>1, <1>3, <1>6, <2>3, <3>2 DEF CurrentRight
    <3> QED
      BY <3>1, <3>2
  <2>6. \/ Passed'
        \/ Newest' = current'.block
        \/ /\ Second' = current'.block
           /\ StartOf(section'[Newest']) = current'.end
           /\ StartOf(section'[Newest']) <= Low' + BlockSize
    BY <1>3, <1>5, <1>6, <2>3, <2>4 DEF CurrentRight
  <2>7. Section(given'.index) = CurrentSection'
    BY <1>7, <2>1, <2>3
  <2> QED
    BY <2>3, <2>4, <2>5, <2>6, <2>7 DEF CurrentRight
<1>11. CASE UseLoaded \/ FirstLoad \/ Replace
  <2>1. PICK b \in Blocks : Brings(b)
    BY <1>11, LoadBrings
  <2>2. ~Quick
    BY <1>11 DEF UseLoaded, FirstLoad, Replace
  <2>3. /\ order' = Touched(b) /\ section' = [section EXCEPT ![b] = Wanted]
        /\ section'[b] = Wanted
        /\ blocks'[b].start = StartOf(Wanted) /\ blocks'[b].end = EndOf(Wanted)
        /\ \A c \in Blocks : c # b => section'[c] = section[c] /\ blocks'[c] = blocks[c]
    BY <1>8, <2>1 DEF Brings
  <2>4. Newest' = b /\ (b # Newest => Second' = Newest) /\ (b = Newest => Second' = Second)
    BY <1>8, <2>3, TouchedOrder DEF Newest, Second
  <2>5. /\ (Loaded(Newest, section[Newest]))' /\ section'[Newest'] = Wanted
    BY <2>3, <2>4 DEF Loaded
  <2>6. CASE Moving
    <3>1. current' = [block |-> b, start |-> StartOf(Wanted), end |-> EndOf(Wanted)]
      BY <2>1, <2>6 DEF Brings, MakeCurrent, Moving
    <3>2. CurrentSection' = Wanted
      BY <1>5, <3>1, SectionIs DEF CurrentSection
    <3>3. Fresh'
      BY <2>3, <3>1, <3>2 DEF Fresh, Loaded
    <3>4. ~Moving' => current'.start <= offset'
      BY <1>1, <1>3, <1>4, <1>5, <1>9, <2>6, <3>1
    <3> QED
      BY <1>4, <1>7, <2>4, <2>5, <3>1, <3>2, <3>3, <3>4 DEF CurrentRight
  <2>7. CASE Comparing /\ ~Moving
    <3>1. /\ current' = current /\ CurrentSection' = CurrentSection
          /\ Low' = Low /\ offset' = offset /\ ~Searching'
      BY <1>1, <1>3, <2>1, <2>7
         DEF Brings, MakeCurrent, Comparing, CurrentSection, Calls, Searching
    <3>2. Passed' = Passed /\ current.start <= offset
      BY <2>7, <3>1 DEF Passed, CurrentRight
    <3>3. CASE Passed
      BY <1>6, <1>7, <2>5, <3>1, <3>2, <3>3 DEF CurrentRight
    <3>4. CASE ~Passed
      <4>1. Fresh /\ Low < current.end
        BY <1>3, <1>6, <3>4 DEF CurrentRight, Passed
      <4>2. current.end <= call.index
        BY <1>1, <1>6, <2>2, <3>2 DEF Quick
      <4>3. call.index + call.left <= Low + BlockSize + 1
        BY <2>7 DEF Calls
      <4>4. call.index <= Low + BlockSize
        BY <1>1, <1>3, <1>5, <4>3
      <4>5. EndOf(CurrentSection) = StartOf(CurrentSection) + BlockSize
        BY <1>1, <1>5, <1>6, <4>2
      <4>6. CurrentSection + 1 \in Nat /\ StartOf(CurrentSection + 1) = current.end
        BY <1>6, <4>5, StartsInOrder
      <4>7. Wanted = CurrentSection + 1
        BY <1>1, <1>3, <1>4, <1>5, <1>6, <4>1, <4>2, <4>4, <4>6, SectionIs
      <4>8. StartOf(Wanted) = current.end /\ StartOf(Wanted) <= Low + BlockSize
        BY <1>1, <1>3, <1>4, <1>5, <4>4, <4>6, <4>7
      <4>9. current.block \in Blocks /\ section[current.block] = CurrentSection
        BY <4>1 DEF Fresh, CacheTypes
      <4>10. CASE Newest = current.block
        <5>1. b # Newest
          <6>1. section[Newest] # Wanted
            BY <1>6, <4>7, <4>9, <4>10
          <6> QED
            BY <2>1, <6>1 DEF Brings
        <5>2. Second' = current'.block /\ Fresh'
          BY <2>3, <2>4, <3>1, <4>1, <4>9, <4>10, <5>1 DEF Fresh, Loaded
        <5> QED
          BY <1>6, <1>7, <2>5, <3>1, <3>2, <4>8, <5>2 DEF CurrentRight
      <4>11. CASE Newest # current.block
        <5>1. /\ Second = current.block /\ StartOf(section[Newest]) = current.end
              /\ Loaded(Newest, section[Newest])
          BY <3>4, <4>11 DEF CurrentRight
        <5>2. Newest \in Blocks
          BY <1>8, BlockNumbers DEF Newest
        <5>3. section[Newest] = Wanted
          <6>1. section[Newest] \in Nat
            BY <1>8, <5>2, SectionBounds
          <6>2. ~(section[Newest] < Wanted) /\ ~(Wanted < section[Newest])
            BY <1>5, <4>8, <5>1, <6>1, StartsInOrder
          <6> QED
            BY <1>5, <6>1, <6>2
        <5>4. Wanted \in Held
          BY <1>4, <5>1, <5>2, <5>3 DEF Held
        <5>5. section[b] = Wanted /\ section' = section /\ blocks' = blocks
          BY <2>1, <5>4 DEF Brings
        <5>6. b = Newest
          BY <1>8, <5>2, <5>3, <5>5 DEF CacheInv, KnowEachOther
        <5>7. Second' = current'.block /\ Fresh'
          BY <2>4, <3>1, <4>1, <5>1, <5>5, <5>6 DEF Fresh, Loaded
        <5> QED
          BY <1>6, <1>7, <2>5, <3>1, <3>2, <4>8, <5>7 DEF CurrentRight
      <4> QED
        BY <4>10, <4>11
    <3> QED
      BY <3>3, <3>4
  <2> QED
    BY <1>2, <2>6, <2>7
<1> QED
  BY <1>10, <1>11 DEF LoadStreamBlock

-----------------------------------------------------------------------------
(* The places after a load.                                                *)
LEMMA LoadKeepsSearch ==
  ASSUME StreamInv, FileFits, LoadStreamBlock
  PROVE  SearchRight'
<1> USE DEF StreamInv
<1>1. /\ call.left \in Nat /\ call.left > 0 /\ call.index \in Nat /\ call.index < FileSize
      /\ call'.left = call.left - 1
      /\ phase' = phase /\ fs' = fs
  BY HandedOver
<1>2. \/ Comparing \/ Peeking \/ Reading
  BY HandedOver
<1> SUFFICES ASSUME Searching PROVE SearchRight'
  BY <1>1 DEF SearchRight, Searching
<1>3. phase = "found?" /\ call.index = fs - 1 /\ fs \in Nat
  BY <1>1 DEF Searching, Calls, Idle, SearchRight, CacheInv, ClientTypes
<1>4. Idle'
  BY <1>1, <1>2, <1>3 DEF Idle, Calls, Comparing, Peeking, Reading
<1>5. /\ Wanted \in Sections /\ Wanted = Section(call.index)
      /\ StartOf(Wanted) <= call.index /\ call.index < EndOf(Wanted)
  BY <1>1, WantedPlace
<1>6. StartOf(Wanted) \in Nat /\ EndOf(Wanted) \in Nat /\ seekindex \in Nat
  BY <1>5, SectionBounds DEF CacheTypes
<1>7. seekindex' >= fs'
  <2>1. CASE UNCHANGED seekindex /\ seekindex >= fs
    BY <1>1, <2>1
  <2>2. CASE seekindex' = EndOf(Wanted)
    BY <1>1, <1>3, <1>5, <1>6, <2>2
  <2>3. CASE Untouched /\ (UseCurrent \/ \E b \in Blocks : blocks[b].end = EndOf(Wanted))
    <3>1. StartOf(2) < FileSize /\ StartOf(2) = 2 * BlockSize
      <4>1. 2 \in Sections
        BY BlockNumbers DEF FileFits, Sections
      <4> QED
        BY <4>1, SectionBounds, StreamCacheAssumption DEF StartOf
    <3>2. call.index >= BlockSize
      BY <1>1, <1>3, <2>3, <3>1, StreamCacheAssumption DEF Untouched
    <3>3. ~UseCurrent
      <4>1. current.end \in Nat /\ current.start \in Nat
        BY DEF CacheTypes
      <4> QED
        BY <1>1, <2>3, <3>2, <4>1, StreamCacheAssumption DEF Untouched, UseCurrent, Quick
    <3>4. \A b \in Blocks : blocks[b].end # EndOf(Wanted)
      <4>1. BlockSize < EndOf(Wanted)
        BY <1>1, <1>5, <1>6, <3>2, StreamCacheAssumption
      <4> QED
        BY <1>6, <2>3, <4>1, StreamCacheAssumption DEF Untouched
    <3> QED
      BY <2>3, <3>3, <3>4
  <2>4. seekindex >= fs \/ Untouched
    BY <1>3 DEF SearchRight, Searching
  <2>5. CASE UseCurrent
    BY <2>1, <2>3, <2>4, <2>5 DEF UseCurrent, cache
  <2>6. CASE UseLoaded \/ FirstLoad \/ Replace
    <3>1. PICK b \in Blocks : Brings(b)
      BY <2>6, LoadBrings
    <3>2. CASE UNCHANGED <<blocks, section, seekindex, filepos>>
      BY <2>1, <2>3, <2>4, <3>1, <3>2 DEF Brings
    <3> QED
      BY <2>2, <3>1, <3>2 DEF Brings
  <2> QED
    BY <2>5, <2>6 DEF LoadStreamBlock
<1> QED
  BY <1>1, <1>3, <1>4, <1>7 DEF SearchRight, Searching, Idle

LEMMA LoadKeepsPlaces ==
  ASSUME StreamInv, FileFits, LoadStreamBlock, given'.index = call.index
  PROVE  PlacesSafe'
<1> USE DEF StreamInv
<1>1. /\ call.left \in Nat /\ call.left > 0 /\ call.index \in Nat
      /\ offset \in Nat /\ mark \in Nat /\ offset <= call.index
      /\ call'.index = call.index + 1 /\ call'.left = call.left - 1
      /\ call'.setcurrent = call.setcurrent
      /\ offset' = IF call.left = 1 THEN Target ELSE offset
      /\ phase' = phase /\ mark' = mark
  BY HandedOver
<1>2. \/ Comparing /\ ~Moving /\ Target = offset
      \/ ~Comparing /\ Moving /\ Peeking /\ Target = offset
      \/ ~Comparing /\ Moving /\ Reading /\ Target \in Nat
  BY HandedOver
<1>3. /\ Wanted \in Sections /\ Wanted = Section(call.index) /\ Wanted \in Nat
      /\ StartOf(Wanted) <= call.index
      /\ call.index < StartOf(Wanted) + BlockSize
  BY <1>1, WantedPlace, InSection
<1>4. /\ Wanted \in Known'
      /\ \A s \in Known : s <= Wanted \/ Wanted \in Held => s \in Known'
      /\ section[Newest] \in Known'
  BY LoadKeepsKnown
<1>5. ASSUME NEW i \in Nat, i <= call.index, i \in Safe PROVE i \in Safe'
  <2>1. Section(i) <= Wanted
    BY <1>1, <1>3, <1>5, SectionsInOrder
  <2> QED
    BY <1>4, <1>5, <2>1 DEF Safe
<1>6. Section(offset) <= Wanted /\ (Section(offset) \in Known => Section(offset) \in Known')
  BY <1>1, <1>3, <1>4, SectionsInOrder
<1>7. phase \in {"token", "cdata"} => mark \in Safe'
  BY <1>1, <1>5 DEF PlacesSafe, Calls
<1>8. CASE Comparing
  <2>1. /\ offset' = offset /\ ~Moving' /\ phase \in {"ready", "cdata", "comment"}
        /\ phase = "ready" => call.index + call.left <= offset + BlockSize
    BY <1>1, <1>2, <1>8 DEF Calls, Moving
  <2>2. offset \in Safe /\ offset \in Safe'
    BY <1>1, <1>5, <2>1 DEF PlacesSafe, Searching
  <2>3. phase = "ready" => Section(offset) \in Known'
    <3>1. CASE Section(offset) \in Known
      BY <1>6, <3>1
    <3>2. CASE StartOf(Section(offset)) = offset /\ phase = "ready"
      <4>1. call.index < offset + BlockSize
        BY <1>1, <2>1, <3>2, StreamCacheAssumption
      <4>2. Section(offset) \in Nat
        BY <1>1, InSection
      <4>3. Section(call.index) = Section(offset)
        BY <1>1, <3>2, <4>1, <4>2, SectionIs
      <4> QED
        BY <1>3, <1>4, <4>3
    <3> QED
      BY <2>2, <3>1, <3>2 DEF Safe
  <2>4. phase \in {"cdata", "comment"} => Section(offset) \in Known'
    BY <1>1, <1>3, <1>4, <1>6 DEF PlacesSafe
  <2> QED
    BY <1>1, <1>7, <2>1, <2>2, <2>3, <2>4 DEF PlacesSafe, Searching
<1>9. CASE Moving /\ Peeking /\ Target = offset
  <2>1. /\ offset' = offset /\ call.index = offset
        /\ phase \in {"found?", "ready", "token"}
    BY <1>1, <1>9 DEF Peeking, Calls
  <2>2. Section(offset) \in Known' /\ offset \in Safe'
    BY <1>1, <1>3, <1>4, <2>1 DEF Safe
  <2> QED
    BY <1>1, <1>7, <2>1, <2>2 DEF PlacesSafe
<1>10. CASE Moving /\ Reading /\ Target \in Nat
  <2>1. phase = "ready" /\ offset = mark /\ Target >= call.index + call.left
    BY <1>10 DEF Reading
  <2>2. CASE call.left > 1
    <3>1. offset' = offset /\ Moving'
      BY <1>1, <1>10, <2>2 DEF Moving
    <3>2. offset \in Safe'
      BY <1>1, <1>5, <2>1 DEF PlacesSafe, Searching
    <3> QED
      BY <1>1, <2>1, <3>1, <3>2 DEF PlacesSafe
  <2>3. CASE call.left = 1
    <3>1. offset' = Target
      BY <1>1, <2>3
    <3>2. CASE StartOf(Section(Target)) = Target /\ Target > call.index + call.left
      <4>1. ~(call.index >= Target - 1)
        BY <1>1, <1>10, <2>3, <3>2
      <4>2. Target \in Safe'
        BY <1>10, <3>2 DEF Safe
      <4> QED
        BY <1>1, <2>1, <3>1, <4>1, <4>2 DEF PlacesSafe
    <3>3. CASE Section(Target) \in Known'
      <4>1. Target \in Safe'
        BY <1>10, <3>3 DEF Safe
      <4> QED
        BY <1>1, <2>1, <3>1, <3>3, <4>1 DEF PlacesSafe
    <3>4. \/ StartOf(Section(Target)) = Target /\ Target > call.index + call.left
          \/ Section(Target) \in Known'
      <4>1. ASSUME Section(Target) \in Known, StartOf(Section(Target)) <= call.index
            PROVE  Section(Target) \in Known'
        <5>1. Section(Target) \in Nat /\ StartOf(Section(Target)) \in Nat
          BY <1>10, InSection, StartsInOrder
        <5>2. ~(Wanted < Section(Target))
          BY <1>3, <4>1, <5>1, StartsInOrder, StreamCacheAssumption, <1>1
        <5> QED
          BY <1>3, <1>4, <4>1, <5>1, <5>2
      <4> QED
        BY <1>3, <1>4, <1>10, <4>1 DEF TargetSafe
    <3> QED
      BY <3>2, <3>3, <3>4
  <2> QED
    BY <1>1, <2>2, <2>3
<1> QED
  BY <1>2, <1>8, <1>9, <1>10

LEMMA LoadKeepsTarget ==
  ASSUME StreamInv, FileFits, LoadStreamBlock
  PROVE  TargetSafe'
<1> USE DEF StreamInv
<1> SUFFICES ASSUME Moving', Reading' PROVE TargetSafe'
  BY DEF TargetSafe
<1>1. /\ call.left \in Nat /\ call.left > 0 /\ call.index \in Nat
      /\ offset \in Nat /\ mark \in Nat /\ offset <= call.index
      /\ call'.index = call.index + 1 /\ call'.left = call.left - 1
      /\ call'.skip = call.skip
      /\ call'.setcurrent = call.setcurrent
      /\ offset' = IF call.left = 1 THEN Target ELSE offset
      /\ phase' = phase /\ mark' = mark
  BY HandedOver
<1>2. /\ offset' = offset /\ Target' = Target /\ call'.index + call'.left = call.index + call.left
      /\ call.left > 1
  BY <1>1 DEF Moving, Target
<1>3. Moving /\ Reading /\ Target \in Nat /\ Target >= call.index + call.left
  BY <1>1, <1>2, HandedOver DEF Moving, Comparing, Peeking, Reading
<1>4. /\ Wanted \in Sections /\ Wanted = Section(call.index) /\ Wanted \in Nat
      /\ StartOf(Wanted) \in Nat /\ StartOf(Wanted) <= call.index
  BY <1>1, WantedPlace, InSection, StartsInOrder
<1>5. /\ Wanted \in Held' /\ Wanted \in Known'
      /\ \A s \in Known : s <= Wanted \/ Wanted \in Held => s \in Known'
      /\ section[Newest] \in Known'
  BY LoadKeepsKnown
<1>6. CASE StartOf(Section(Target)) = Target /\ Target > call.index + call.left
  BY <1>2, <1>6 DEF TargetSafe
<1>7. CASE /\ Section(Target) <= Section(mark) + 1
           /\ Section(Target) \in Known
           /\ \/ section[Newest] = Section(Target)
              \/ StartOf(Section(Target)) <= call.index
              \/ Section(call.index) \in Held
  <2>1. Section(Target) \in Nat /\ StartOf(Section(Target)) \in Nat
    BY <1>3, InSection, StartsInOrder
  <2>2. Section(Target) \in Known'
    <3>1. ASSUME StartOf(Section(Target)) <= call.index PROVE Section(Target) <= Wanted
      <4>1. call.index < StartOf(Wanted) + BlockSize
        BY <1>1, <1>4, InSection
      <4>2. ~(Wanted < Section(Target))
        BY <1>1, <1>4, <2>1, <3>1, <4>1, StartsInOrder, StreamCacheAssumption
      <4> QED
        BY <1>4, <2>1, <4>2
    <3> QED
      BY <1>4, <1>5, <1>7, <3>1
  <2>3. Section(mark) \in Nat /\ Section(mark) <= Wanted
    BY <1>1, <1>3, <1>4, InSection, SectionsInOrder DEF Reading
  <2>4. StartOf(Section(Target)) <= call'.index \/ Section(call'.index) \in Held'
    <3>1. \/ Section(call.index + 1) = Wanted
          \/ call.index + 1 = StartOf(Wanted) + BlockSize
      BY <1>1, <1>4, NextPlace
    <3>2. CASE Section(call.index + 1) = Wanted
      BY <1>1, <1>5, <3>2
    <3>3. CASE call.index + 1 = StartOf(Wanted) + BlockSize
      <4>1. Wanted + 1 \in Nat /\ StartOf(Wanted + 1) = StartOf(Wanted) + BlockSize
        BY <1>4, StartsInOrder
      <4>2. Section(Target) <= Wanted + 1
        BY <1>4, <1>7, <2>1, <2>3
      <4>3. StartOf(Section(Target)) <= StartOf(Wanted + 1)
        BY <2>1, <4>1, <4>2, StartsInOrder, StreamCacheAssumption, <1>4
      <4> QED
        BY <1>1, <3>3, <4>1, <4>3
    <3> QED
      BY <3>1, <3>2, <3>3
  <2> QED
    BY <1>1, <1>2, <1>7, <2>2, <2>4 DEF TargetSafe
<1> QED
  BY <1>3, <1>6, <1>7 DEF TargetSafe

-----------------------------------------------------------------------------
(* StreamLoad.  It leaves the cache alone; what counts is where it goes.    *)
LEMMA ClientKeepsTables ==
  ASSUME StreamInv, UNCHANGED cache, UNCHANGED given
  PROVE  /\ CacheTypes' /\ InOrder' /\ DataRight' /\ PositionKnown' /\ GivesTheFile'
         /\ Known' = Known /\ Safe' = Safe /\ Held' = Held
         /\ Newest' = Newest /\ section' = section /\ seekindex' = seekindex
<1>1. /\ UNCHANGED <<blocks, section, attached, order, current, seekindex, filepos>>
      /\ UNCHANGED given
  BY DEF cache
<1>2. Held' = Held
  BY <1>1 DEF Held, Loaded
<1>3. Known' = Known
  BY <1>1, <1>2 DEF Known
<1>4. Safe' = Safe
  BY <1>3 DEF Safe
<1>5. CacheTypes' /\ InOrder' /\ PositionKnown' /\ GivesTheFile'
  BY <1>1 DEF StreamInv, CacheTypes, InOrder, PositionKnown, GivesTheFile
<1>6. DataRight'
  BY <1>1 DEF StreamInv, DataRight, Loaded
<1> QED
  BY <1>1, <1>2, <1>3, <1>4, <1>5, <1>6 DEF Newest

LEMMA ClientKeepsCurrent ==
  ASSUME StreamInv, UNCHANGED cache, UNCHANGED given, Idle,
         Low \in Nat, Low' \in Nat, offset \in Nat, offset' \in Nat,
         Searching' => Searching, Searching \/ Low <= Low',
         Moving' \/ offset <= offset'
  PROVE  CurrentRight'
<1> USE DEF StreamInv
<1>1. /\ UNCHANGED <<blocks, section, attached, order, current, seekindex, filepos>>
      /\ UNCHANGED given
  BY DEF cache
<1>2. /\ CurrentSection' = CurrentSection /\ Newest' = Newest /\ Second' = Second
      /\ Fresh' = Fresh /\ (Loaded(Newest, section[Newest]))' = Loaded(Newest, section[Newest])
  BY <1>1 DEF CurrentSection, Newest, Second, Fresh, Loaded
<1>3. /\ CurrentSection \in Sections /\ current.end \in Nat /\ current.start \in Nat
      /\ current.start = StartOf(CurrentSection) /\ current.end = EndOf(CurrentSection)
      /\ Fresh \/ Passed
      /\ Searching => Fresh /\ Newest = current.block
      /\ Loaded(Newest, section[Newest])
      /\ Section(given.index) \in {section[Newest], CurrentSection}
      /\ current.start <= offset
  BY DEF CurrentRight, CacheTypes, Moving, Idle
<1>4. Moving' \/ current'.start <= offset'
  BY <1>1, <1>3
<1>5. CASE Searching
  BY <1>1, <1>2, <1>3, <1>4, <1>5 DEF CurrentRight
<1>6. CASE ~Searching
  <2>1. Low <= Low' /\ (Passed => Passed')
    BY <1>1, <1>3, <1>6 DEF Passed
  <2>2. \/ Passed
        \/ Newest = current.block
        \/ /\ Second = current.block
           /\ StartOf(section[Newest]) = current.end
           /\ StartOf(section[Newest]) <= Low + BlockSize
    BY DEF CurrentRight
  <2>3. \/ Passed'
        \/ Newest' = current'.block
        \/ /\ Second' = current'.block
           /\ StartOf(section'[Newest']) = current'.end
           /\ StartOf(section'[Newest']) <= Low' + BlockSize
    BY <1>1, <1>2, <1>3, <2>1, <2>2, StreamCacheAssumption
  <2> QED
    BY <1>1, <1>2, <1>3, <1>4, <1>6, <2>1, <2>3 DEF CurrentRight
<1> QED
  BY <1>5, <1>6

(* The section of the last byte it was given is one of two: the one touched *)
(* last, or the current one.                                               *)
LEMMA GivenSection ==
  ASSUME StreamInv
  PROVE  /\ given.index \in Nat /\ Section(given.index) \in Nat
         /\ \/ section[Newest] = Section(given.index) /\ Section(given.index) \in Known
            \/ Fresh /\ CurrentSection = Section(given.index) /\ Section(given.index) \in Known
            \/ Passed /\ CurrentSection = Section(given.index) /\ given.index < current.end
<1> USE DEF StreamInv
<1>1. /\ given.index \in Nat /\ given.index < FileSize
      /\ section \in [Blocks -> Sections] /\ order \in [Blocks -> Blocks]
  BY DEF CacheInv, ClientTypes, Tables
<1>2. Newest \in Blocks /\ section[Newest] \in Sections
  BY <1>1, BlockNumbers DEF Newest
<1>3. section[Newest] \in Held
  BY <1>2 DEF Held, CurrentRight
<1>4. Fresh => CurrentSection \in Held
  BY DEF Held, Fresh, CurrentRight, CacheTypes
<1>5. \A s \in Sections : s \in Held => s \in Known
  BY SectionBounds DEF Known
<1>6. Section(given.index) \in Sections /\ given.index < EndOf(Section(given.index))
      /\ Section(given.index) \in Nat
  BY <1>1, PlaceInFile, InSection
<1> QED
  BY <1>1, <1>2, <1>3, <1>4, <1>5, <1>6 DEF CurrentRight

LEMMA BehindGiven ==
  ASSUME StreamInv, Low \in Safe, Low \in Nat, given.index + 1 >= Low
  PROVE  given.index + 1 \in Safe
<1>1. CASE Section(given.index) \in Known
  <2>1. given.index \in Nat
    BY GivenSection
  <2> QED
    BY <1>1, <2>1, NextPlace DEF Safe
<1>2. CASE Passed /\ given.index < current.end
  <2>1. given.index \in Nat /\ current.end \in Nat
    BY GivenSection DEF StreamInv, CacheTypes
  <2>2. given.index + 1 = Low
    BY <1>2, <2>1 DEF Passed
  <2> QED
    BY <2>2
<1> QED
  BY <1>1, <1>2, GivenSection

(* A text that is gone back over: the section of its last byte.            *)
LEMMA TextInReach ==
  ASSUME StreamInv, Low = mark, mark \in Nat, Idle,
         given.index > mark, given.index <= mark + BlockSize
  PROVE  /\ Section(given.index) <= Section(mark) + 1
         /\ Section(given.index) \in Known
         /\ \/ section[Newest] = Section(given.index)
            \/ StartOf(Section(given.index)) <= mark
<1> USE DEF StreamInv
<1>1. given.index \in Nat /\ Section(given.index) \in Nat
  BY GivenSection
<1>2. Section(given.index) <= Section(mark) + 1
  BY <1>1, SectionsInOrder
<1>3. CASE section[Newest] = Section(given.index) /\ Section(given.index) \in Known
  BY <1>2, <1>3
<1>4. ASSUME CurrentSection = Section(given.index) PROVE ~Passed
  <2>1. current.end = EndOf(Section(given.index)) /\ given.index < FileSize
    BY <1>4 DEF CurrentRight, CacheInv, ClientTypes
  <2>2. given.index < current.end
    BY <1>1, <2>1, PlaceInFile
  <2>3. current.end \in Nat
    BY DEF CacheTypes
  <2> QED
    BY <1>1, <2>2, <2>3 DEF Passed
<1>5. CASE Fresh /\ CurrentSection = Section(given.index) /\ Section(given.index) \in Known
           /\ section[Newest] # Section(given.index)
  <2>1. /\ StartOf(section[Newest]) = current.end
        /\ StartOf(section[Newest]) <= mark + BlockSize
    BY <1>4, <1>5 DEF CurrentRight, Fresh
  <2>2. section[Newest] \in Sections
    BY BlockNumbers DEF Newest, CacheInv, Tables
  <2>3. /\ StartOf(section[Newest]) \in Nat /\ StartOf(section[Newest]) < FileSize
    BY <2>2, SectionBounds, StreamCacheAssumption
  <2>4. /\ CurrentSection \in Sections /\ current.end = EndOf(CurrentSection)
    BY DEF CurrentRight
  <2>5. /\ StartOf(CurrentSection) \in Nat
        /\ EndOf(CurrentSection) = IF StartOf(CurrentSection) + BlockSize > FileSize
                                   THEN FileSize ELSE StartOf(CurrentSection) + BlockSize
    BY <2>4, SectionBounds
  <2>6. StartOf(CurrentSection) <= mark
    BY <2>1, <2>3, <2>4, <2>5, StreamCacheAssumption
  <2> QED
    BY <1>2, <1>5, <2>6
<1> QED
  BY <1>3, <1>4, <1>5, GivenSection

-----------------------------------------------------------------------------
(* The steps of StreamLoad, one by one.  Asks is a call it makes, in full.  *)
ClientInv == Calls /\ Answers /\ CurrentRight /\ SearchRight /\ PlacesSafe /\ TargetSafe

Asks(index, left, skip, setcurrent) ==
  /\ call'.index = index /\ call'.left = left
  /\ call'.skip = skip /\ call'.setcurrent = setcurrent

LEMMA ClientTypesHold ==
  ASSUME StreamInv
  PROVE  /\ fs \in Nat /\ fs <= FileSize /\ offset \in Nat /\ mark \in Nat
         /\ given.index \in Nat /\ given.index < FileSize
         /\ Low \in Nat /\ Section(offset) \in Nat /\ Section(mark) \in Nat
         /\ FileSize \in Nat /\ BlockSize \in Nat /\ BlockSize > 0
         /\ MaxCmp \in Nat /\ MaxText \in Nat /\ MaxCmp > 0
<1>1. /\ fs \in Nat /\ fs <= FileSize /\ offset \in Nat /\ mark \in Nat
      /\ given.index \in Nat /\ given.index < FileSize
  BY DEF StreamInv, CacheInv, ClientTypes
<1> QED
  BY <1>1, InSection, StreamCacheAssumption DEF Low

LEMMA PeekAsks ==
  ASSUME NEW at, Peek(at) PROVE Asks(at, 1, 0, TRUE)
  BY DEF Peek, Asks

LEMMA CompareAsks ==
  ASSUME NEW at, NEW n, Compare(at, n) PROVE Asks(at, n, 0, FALSE)
  BY DEF Compare, Asks

(* The search for the last '>'.                                            *)
LEMMA PullBackKeepsInv ==
  ASSUME StreamInv, PullBack PROVE ClientInv'
<1> USE DEF StreamInv
<1>1. /\ phase = "end" /\ Idle /\ phase' = "found?" /\ mark' = mark /\ fs' = fs
      /\ offset' = fs - 1 /\ Asks(fs - 1, 1, 0, TRUE)
      /\ UNCHANGED cache /\ UNCHANGED given
  BY PeekAsks DEF PullBack, Go, Still
<1>2. /\ fs \in Nat /\ fs > 0 /\ offset \in Nat /\ mark \in Nat /\ Low \in Nat
      /\ fs - 1 \in Nat
  BY <1>1, ClientTypesHold DEF CacheInv, ClientTypes
<1>3. Calls' /\ Answers'
  <2>1. Moving' /\ ~Comparing' /\ Peeking' /\ ~Idle'
    BY <1>1 DEF Moving, Comparing, Peeking, Asks, Idle
  <2> QED
    BY <1>1, <1>2, <2>1 DEF Calls, Answers, Asks, Moving, Comparing
<1>4. CurrentRight'
  <2>1. Moving' /\ Searching /\ Low' \in Nat
    BY <1>1, <1>2 DEF Moving, Searching, Low, Asks
  <2> QED
    BY <1>1, <1>2, <2>1, ClientKeepsCurrent
<1>5. SearchRight'
  BY <1>1 DEF SearchRight, Searching, Asks, Idle, Untouched, cache
<1>6. PlacesSafe' /\ TargetSafe'
  BY <1>1 DEF PlacesSafe, TargetSafe, Searching, Reading
<1> QED
  BY <1>3, <1>4, <1>5, <1>6 DEF ClientInv

LEMMA FoundKeepsInv ==
  ASSUME StreamInv, FileFits, Found PROVE ClientInv'
<1> USE DEF StreamInv
<1>1. /\ phase = "found?" /\ Idle /\ mark' = mark
      /\ UNCHANGED cache /\ UNCHANGED given
      /\ fs' \in {fs, fs - 1} /\ Searching
  BY DEF Found, Still, Searching
<1>2. /\ fs \in Nat /\ fs > 0 /\ offset \in Nat /\ mark \in Nat /\ Low \in Nat
      /\ BlockSize \in Nat
  BY <1>1, ClientTypesHold DEF CacheInv, ClientTypes
<1>3. CASE phase' = "ready" /\ offset' = 0 /\ Asks(0, 1, 0, TRUE)
  <2>1. Moving' /\ ~Comparing' /\ Peeking' /\ ~Reading' /\ ~Searching' /\ Low' = 0 /\ ~Idle'
    BY <1>3 DEF Moving, Comparing, Peeking, Reading, Target, Searching, Low, Asks, Idle
  <2>2. Calls' /\ Answers'
    BY <1>1, <1>3, <2>1 DEF Calls, Answers, Asks, Moving, Comparing
  <2>3. CurrentRight'
    BY <1>1, <1>2, <1>3, <2>1, ClientKeepsCurrent
  <2>4. offset' \in Safe'
    <3>1. StartOf(Section(0)) = 0
      BY InSection, StartsInOrder
    <3> QED
      BY <1>3, <3>1 DEF Safe
  <2>5. SearchRight' /\ PlacesSafe' /\ TargetSafe'
    BY <1>3, <2>1, <2>4 DEF SearchRight, PlacesSafe, TargetSafe, Searching
  <2> QED
    BY <2>2, <2>3, <2>5 DEF ClientInv
<1>4. CASE phase' = "end" /\ UNCHANGED <<offset, call>> /\ fs' = fs - 1
  <2>1. Searching' /\ Idle' /\ ~Moving' /\ ~Comparing' /\ Low' \in Nat
    BY <1>1, <1>2, <1>4 DEF Searching, Idle, Moving, Comparing, Low
  <2>2. Calls' /\ Answers'
    BY <1>1, <1>4, <2>1 DEF Calls, Answers, Idle
  <2>3. CurrentRight'
    BY <1>1, <1>2, <1>4, <2>1, ClientKeepsCurrent
  <2>4. seekindex' >= fs'
    BY <1>1, <1>2, <1>4 DEF SearchRight, cache, CacheTypes
  <2>5. SearchRight' /\ PlacesSafe' /\ TargetSafe'
    BY <1>4, <2>1, <2>4 DEF SearchRight, PlacesSafe, TargetSafe, Searching
  <2> QED
    BY <2>2, <2>3, <2>5 DEF ClientInv
<1>5. \/ phase' = "ready" /\ offset' = 0 /\ Asks(0, 1, 0, TRUE)
      \/ phase' = "end" /\ UNCHANGED <<offset, call>> /\ fs' = fs - 1
  BY PeekAsks DEF Found, Go
<1> QED
  BY <1>3, <1>4, <1>5

(* A peek at a safe place that is not before the last one.                 *)
LEMMA PeekKeepsInv ==
  ASSUME StreamInv, Idle, ~Searching, UNCHANGED cache, UNCHANGED given,
         phase' \in {"ready", "token"}, phase' = "token" => phase = "token",
         phase' = "token" => offset' <= mark + MaxText,
         mark' = mark, fs' = fs,
         NEW next \in Nat, offset' = next, Asks(next, 1, 0, TRUE),
         offset <= next, next \in Safe,
         phase' = "ready" => phase \in {"ready", "comment"}
  PROVE  ClientInv'
<1> USE DEF StreamInv
<1>1. /\ offset \in Nat /\ mark \in Nat /\ Low \in Nat /\ MaxText \in Nat
      /\ phase = "token" => mark <= offset
  BY ClientTypesHold DEF Calls
<1>2. Moving' /\ ~Comparing' /\ Peeking' /\ ~Reading' /\ ~Searching' /\ ~Idle'
  BY DEF Moving, Comparing, Peeking, Reading, Target, Searching, Asks, Idle
<1>3. Low' \in Nat /\ Low <= Low'
  BY <1>1 DEF Low
<1>4. Calls' /\ Answers'
  BY <1>1, <1>2 DEF Calls, Answers, Asks, Moving, Comparing
<1>5. CurrentRight'
  BY <1>1, <1>2, <1>3, ClientKeepsCurrent
<1>6. Safe' = Safe
  BY ClientKeepsTables
<1>7. PlacesSafe'
  BY <1>2, <1>6 DEF PlacesSafe, Searching
<1>8. SearchRight' /\ TargetSafe'
  BY <1>2 DEF SearchRight, TargetSafe, Searching
<1> QED
  BY <1>4, <1>5, <1>7, <1>8 DEF ClientInv

LEMMA SafeStep ==
  ASSUME StreamInv, Section(offset) \in Known PROVE offset + 1 \in Safe
<1>1. offset \in Nat
  BY ClientTypesHold
<1> QED
  BY <1>1, NextPlace DEF Safe

LEMMA AdvanceKeepsInv ==
  ASSUME StreamInv, Advance PROVE ClientInv'
<1> USE DEF StreamInv
<1>1. /\ phase = "ready" /\ Idle /\ ~Searching /\ ~Moving /\ phase' = phase /\ mark' = mark /\ fs' = fs
      /\ UNCHANGED cache /\ UNCHANGED given /\ Low = offset
  BY DEF Advance, Still, client, Searching, Moving, Idle, Low
<1>2. PICK next \in {offset, offset + 1, given.index + 1} :
        /\ next \in offset .. fs - 1
        /\ next = offset + 1 => given.index >= offset - 1
        /\ offset' = next /\ Asks(next, 1, 0, TRUE)
  BY PeekAsks DEF Advance
<1>3. /\ offset \in Nat /\ fs \in Nat /\ given.index \in Nat /\ Low \in Nat
  BY ClientTypesHold
<1>4. next \in Nat /\ offset <= next
  BY <1>2, <1>3
<1>5. offset \in Safe
  BY <1>1 DEF PlacesSafe
<1>6. next \in Safe
  <2>1. CASE next = offset
    BY <1>5, <2>1
  <2>2. CASE next = offset + 1
    BY <1>1, <1>2, <2>2, SafeStep DEF PlacesSafe
  <2>3. CASE next = given.index + 1
    BY <1>1, <1>3, <1>4, <1>5, <2>3, BehindGiven
  <2> QED
    BY <1>2, <2>1, <2>2, <2>3
<1> QED
  BY <1>1, <1>2, <1>4, <1>6, PeekKeepsInv

LEMMA ScanKeepsInv ==
  ASSUME StreamInv, Scan PROVE ClientInv'
<1> USE DEF StreamInv
<1>1. /\ phase = "token" /\ Idle /\ ~Searching /\ phase' = phase /\ mark' = mark /\ fs' = fs
      /\ UNCHANGED cache /\ UNCHANGED given
      /\ offset - mark < MaxText /\ offset' = offset + 1 /\ Asks(offset + 1, 1, 0, TRUE)
  BY PeekAsks DEF Scan, Still, client, Searching
<1>2. offset \in Nat /\ mark \in Nat /\ MaxText \in Nat
  BY ClientTypesHold
<1>3. offset + 1 \in Nat /\ offset <= offset + 1 /\ offset' <= mark + MaxText
  BY <1>1, <1>2
<1>4. offset + 1 \in Safe
  BY <1>1, SafeStep DEF PlacesSafe
<1> QED
  BY <1>1, <1>3, <1>4, PeekKeepsInv

LEMMA EndCommentKeepsInv ==
  ASSUME StreamInv, EndComment PROVE ClientInv'
<1> USE DEF StreamInv
<1>1. /\ phase = "comment" /\ Idle /\ ~Searching /\ phase' = "ready" /\ mark' = mark /\ fs' = fs
      /\ UNCHANGED cache /\ UNCHANGED given /\ Low = offset
      /\ offset' = given.index + 1 /\ Asks(given.index + 1, 1, 0, TRUE)
  BY PeekAsks DEF EndComment, Still, Go, Searching, Low
<1>2. offset \in Nat /\ given.index \in Nat /\ Low \in Nat /\ given.index >= offset
  BY <1>1, ClientTypesHold DEF Answers
<1>3. given.index + 1 \in Nat /\ offset <= given.index + 1
  BY <1>2
<1>4. given.index + 1 \in Safe
  BY <1>1, <1>2, <1>3, BehindGiven DEF PlacesSafe
<1> QED
  BY <1>1, <1>3, <1>4, PeekKeepsInv

-----------------------------------------------------------------------------
(* A comparison from a safe place, no further than a block behind the place *)
(* StreamLoad may go back to.                                              *)
LEMMA CompareKeepsInv ==
  ASSUME StreamInv, Idle, ~Searching, UNCHANGED cache, UNCHANGED given, fs' = fs,
         phase' \in {"ready", "cdata", "comment"},
         NEW next \in Nat, NEW at \in Nat, NEW n \in Nat, n > 0,
         offset' = next, Asks(at, n, 0, FALSE), at >= next,
         mark' \in Nat, Low <= Low', offset <= next, next \in Safe,
         at + n <= Low' + BlockSize + 1,
         phase' = "ready" => at + n <= next + BlockSize,
         phase' = "ready" /\ given.index >= next - 1 => Section(next) \in Known,
         phase' # "ready" => at = next,
         phase' = "cdata" => /\ mark' <= next /\ mark' \in Safe
                             /\ given.index <= mark' + BlockSize
  PROVE  ClientInv'
<1> USE DEF StreamInv
<1>1. offset \in Nat /\ Low \in Nat /\ Low' \in Nat /\ given.index \in Nat
  BY ClientTypesHold DEF Low
<1>2. Comparing' /\ ~Moving' /\ ~Searching' /\ ~Idle'
  BY DEF Moving, Comparing, Searching, Asks, Idle
<1>3. Calls' /\ Answers'
  BY <1>1, <1>2 DEF Calls, Answers, Asks, Moving, Comparing
<1>4. CurrentRight'
  BY <1>1, <1>2, ClientKeepsCurrent
<1>5. Safe' = Safe /\ Known' = Known
  BY ClientKeepsTables
<1>6. PlacesSafe'
  BY <1>2, <1>5 DEF PlacesSafe, Searching, Asks
<1>7. SearchRight' /\ TargetSafe'
  BY <1>2 DEF SearchRight, TargetSafe, Searching
<1> QED
  BY <1>3, <1>4, <1>6, <1>7 DEF ClientInv

LEMMA LookAheadKeepsInv ==
  ASSUME StreamInv, FileFits, LookAhead PROVE ClientInv'
<1> USE DEF StreamInv
<1>1. /\ phase = "ready" /\ Idle /\ ~Searching /\ phase' = phase /\ mark' = mark /\ fs' = fs
      /\ UNCHANGED cache /\ UNCHANGED given /\ Low = offset /\ Low' = Low /\ offset' = offset
      /\ ~Moving
  BY DEF LookAhead, Still, client, Searching, Low, Moving, Idle
<1>2. PICK a \in 0 .. MaxCmp - 1 : \E n \in 1 .. MaxCmp - a : Compare(offset + a, n)
  BY DEF LookAhead
<1>3. PICK n \in 1 .. MaxCmp - a : Compare(offset + a, n)
  BY <1>2
<1>4. /\ offset \in Nat /\ mark \in Nat /\ MaxCmp \in Nat /\ BlockSize \in Nat
      /\ MaxCmp <= BlockSize
  BY ClientTypesHold DEF FileFits
<1>5. /\ offset + a \in Nat /\ n \in Nat /\ n > 0 /\ offset + a >= offset
      /\ offset + a + n <= offset + BlockSize
      /\ offset + a + n <= offset + BlockSize + 1
  BY <1>4
<1>6. Asks(offset + a, n, 0, FALSE)
  BY <1>3, CompareAsks
<1>7. offset \in Safe /\ (given.index >= offset - 1 => Section(offset) \in Known)
  BY <1>1 DEF PlacesSafe
<1>8. mark' \in Nat /\ Low <= Low' /\ offset <= offset
  BY <1>1, <1>4
<1> DEFINE at == offset + a
<1>9. at \in Nat /\ at + n <= Low' + BlockSize + 1
  BY <1>1, <1>5
<1> HIDE DEF at
<1> QED
  BY <1>1, <1>4, <1>5, <1>6, <1>7, <1>8, <1>9, CompareKeepsInv DEF at

LEMMA StartTokenKeepsInv ==
  ASSUME StreamInv, StartToken PROVE ClientInv'
<1> USE DEF StreamInv
<1>1. /\ phase = "ready" /\ Idle /\ given.index >= offset /\ ~Searching /\ ~Moving
      /\ phase' = "token" /\ mark' = offset /\ offset' = offset /\ fs' = fs /\ call' = call
      /\ UNCHANGED cache /\ UNCHANGED given /\ Low = offset /\ Low' = offset
  BY DEF StartToken, Seen, Still, Go, Searching, Low, Moving, Idle
<1>2. offset \in Nat /\ MaxText \in Nat /\ given.index \in Nat
  BY ClientTypesHold
<1>3. Idle' /\ ~Moving' /\ ~Comparing' /\ ~Searching'
  BY <1>1 DEF Idle, Moving, Comparing, Searching
<1>4. Calls' /\ Answers'
  BY <1>1, <1>2, <1>3 DEF Calls, Answers, Idle
<1>5. CurrentRight'
  BY <1>1, <1>2, <1>3, ClientKeepsCurrent
<1>6. Safe' = Safe /\ Known' = Known
  BY <1>1, ClientKeepsTables
<1>7. offset \in Safe /\ Section(offset) \in Known
  BY <1>1, <1>2 DEF PlacesSafe
<1>8. PlacesSafe'
  BY <1>1, <1>3, <1>6, <1>7 DEF PlacesSafe, Searching
<1>9. SearchRight' /\ TargetSafe'
  BY <1>1, <1>3 DEF SearchRight, TargetSafe, Searching
<1> QED
  BY <1>4, <1>5, <1>8, <1>9 DEF ClientInv

LEMMA StartTextKeepsInv ==
  ASSUME StreamInv, FileFits, StartText PROVE ClientInv'
<1> USE DEF StreamInv
<1>1. /\ phase = "ready" /\ Idle /\ given.index >= offset /\ ~Searching
      /\ phase' \in {"cdata", "comment"} /\ mark' = given.index + 1
      /\ offset' = given.index + 1 /\ fs' = fs
      /\ UNCHANGED cache /\ UNCHANGED given /\ Low = offset /\ Low' = given.index + 1
  BY DEF StartText, Seen, Still, Searching, Low
<1>2. PICK n \in 1 .. MaxCmp : Compare(given.index + 1, n)
  BY DEF StartText
<1>3. /\ offset \in Nat /\ given.index \in Nat /\ MaxCmp \in Nat /\ BlockSize \in Nat
      /\ MaxCmp <= BlockSize /\ Low \in Nat
  BY ClientTypesHold DEF FileFits
<1>4. Asks(given.index + 1, n, 0, FALSE)
  BY <1>2, CompareAsks
<1>5. given.index + 1 \in Safe
  BY <1>1, <1>3, BehindGiven DEF PlacesSafe
<1>6. PICK next \in Nat : next = given.index + 1
  BY <1>3
<1>7. /\ n \in Nat /\ n > 0 /\ next >= next /\ mark' \in Nat /\ Low <= Low' /\ offset <= next
      /\ next + n <= Low' + BlockSize + 1 /\ mark' <= next
      /\ given.index <= mark' + BlockSize
  BY <1>1, <1>3, <1>6
<1> QED
  BY <1>1, <1>4, <1>5, <1>6, <1>7, CompareKeepsInv

LEMMA SkipTextKeepsInv ==
  ASSUME StreamInv, FileFits, SkipText PROVE ClientInv'
<1> USE DEF StreamInv
<1>1. /\ phase \in {"cdata", "comment"} /\ Idle /\ ~Searching /\ phase' = phase
      /\ phase = "cdata" => offset - mark < MaxText
      /\ offset' = offset + 1 /\ mark' = mark /\ fs' = fs
      /\ UNCHANGED cache /\ UNCHANGED given
  BY DEF SkipText, Still, client, Searching
<1>2. PICK n \in 1 .. MaxCmp : Compare(offset + 1, n)
  BY DEF SkipText
<1>3. /\ offset \in Nat /\ mark \in Nat /\ given.index \in Nat
      /\ MaxCmp \in Nat /\ MaxText \in Nat /\ BlockSize \in Nat
      /\ MaxCmp <= BlockSize /\ MaxText + MaxCmp <= BlockSize + 1
  BY ClientTypesHold DEF FileFits
<1>4. Asks(offset + 1, n, 0, FALSE)
  BY <1>2, CompareAsks
<1>5. Section(offset) \in Known /\ (phase = "cdata" => mark \in Safe)
  BY <1>1 DEF PlacesSafe, Idle
<1>6. offset + 1 \in Safe
  BY <1>5, SafeStep
<1>7. /\ phase = "cdata" => mark <= offset /\ given.index <= mark + BlockSize
  BY <1>1 DEF Calls, Answers
<1>8. PICK next \in Nat : next = offset + 1
  BY <1>3
<1>9. next + n <= Low' + BlockSize + 1
  <2>1. CASE phase = "cdata"
    <3>1. Low' = mark
      BY <1>1, <2>1 DEF Low
    <3> QED
      BY <1>1, <1>3, <1>8, <2>1, <3>1
  <2>2. CASE phase = "comment"
    <3>1. Low' = next
      BY <1>1, <1>8, <2>2 DEF Low
    <3> QED
      BY <1>3, <1>8, <3>1
  <2> QED
    BY <1>1, <2>1, <2>2
<1>10. Low <= Low'
  BY <1>1, <1>3 DEF Low
<1>11. /\ n \in Nat /\ n > 0 /\ next >= next /\ mark' \in Nat /\ offset <= next
       /\ phase' = "cdata" => mark' <= next /\ given.index <= mark' + BlockSize
  BY <1>1, <1>3, <1>7, <1>8
<1> QED
  BY <1>1, <1>4, <1>5, <1>6, <1>8, <1>9, <1>10, <1>11, CompareKeepsInv

-----------------------------------------------------------------------------
(* It goes back to read a text it has seen the end of.                     *)
LEMMA GoBackKeepsInv ==
  ASSUME StreamInv, FileFits, GoBack PROVE ClientInv'
<1> USE DEF StreamInv
<1>1. /\ phase \in {"token", "cdata"} /\ Idle /\ offset > mark /\ ~Searching
      /\ phase' = "ready" /\ mark' = mark /\ offset' = mark /\ fs' = fs
      /\ UNCHANGED cache /\ UNCHANGED given /\ Low = mark /\ Low' = mark
  BY DEF GoBack, Go, Still, Searching, Low
<1>2. /\ offset \in Nat /\ mark \in Nat /\ given.index \in Nat
      /\ MaxCmp \in Nat /\ MaxCmp > 0 /\ MaxText \in Nat /\ BlockSize \in Nat
      /\ MaxText + MaxCmp <= BlockSize + 1
  BY ClientTypesHold DEF FileFits
<1>3. given.index >= offset /\ given.index <= mark + BlockSize
  <2>1. CASE phase = "token"
    <3>1. given.index = offset /\ offset <= mark + MaxText
      BY <1>1, <2>1 DEF Answers, Calls
    <3> QED
      BY <1>2, <3>1
  <2>2. CASE phase = "cdata"
    BY <1>1, <2>2 DEF Answers
  <2> QED
    BY <1>1, <2>1, <2>2
<1>4. PICK far \in Nat : /\ far \in {given.index, given.index + 1} /\ far >= offset
                         /\ phase = "cdata" => far = given.index + 1
                         /\ phase = "token" => far = offset
  <2>1. CASE phase = "token"
    <3>1. given.index = offset
      BY <1>1, <2>1 DEF Answers
    <3> QED
      BY <1>2, <2>1, <3>1
  <2>2. CASE phase = "cdata"
    BY <1>2, <1>3, <2>2
  <2> QED
    BY <1>1, <2>1, <2>2
<1>5. /\ call'.index = mark /\ call'.left = offset - mark
      /\ call'.skip = far - mark /\ call'.setcurrent = TRUE
  <2>1. CASE phase = "token"
    <3>1. Read(mark, offset - mark, 0)
      BY <2>1 DEF GoBack
    <3> QED
      BY <1>2, <1>4, <2>1, <3>1 DEF Read
  <2>2. CASE phase = "cdata"
    <3>1. Read(mark, offset - mark, given.index + 1 - offset)
      BY <2>2 DEF GoBack
    <3>2. (offset - mark) + (given.index + 1 - offset) = far - mark
      BY <1>2, <1>4, <2>2
    <3> QED
      BY <3>1, <3>2 DEF Read
  <2> QED
    BY <1>1, <2>1, <2>2
<1>6. /\ Target' = far /\ call'.index + call'.left = offset
  BY <1>1, <1>2, <1>5 DEF Target
<1>7. Moving' /\ ~Comparing' /\ Reading' /\ ~Searching' /\ ~Idle'
  BY <1>1, <1>2, <1>4, <1>5, <1>6 DEF Moving, Comparing, Reading, Searching, Idle
<1>8. Calls' /\ Answers'
  <2>1. call'.setcurrent \in BOOLEAN
    BY <1>5
  <2>2. call'.index >= offset'
    BY <1>1, <1>2, <1>5
  <2> QED
    BY <1>1, <1>7, <2>1, <2>2 DEF Calls, Answers
<1>9. CurrentRight'
  BY <1>1, <1>2, <1>7, ClientKeepsCurrent
<1>10. /\ Safe' = Safe /\ Known' = Known /\ Newest' = Newest /\ section' = section
  BY <1>1, ClientKeepsTables
<1>11. PlacesSafe'
  <2>1. mark \in Safe
    BY <1>1 DEF PlacesSafe
  <2> QED
    BY <1>1, <1>7, <1>10, <2>1 DEF PlacesSafe, Searching
<1>12. TargetSafe'
  <2>1. given.index > mark
    BY <1>1, <1>2, <1>3
  <2>2. /\ Section(given.index) <= Section(mark) + 1
        /\ Section(given.index) \in Known
        /\ \/ section[Newest] = Section(given.index)
           \/ StartOf(Section(given.index)) <= mark
    BY <1>1, <1>2, <1>3, <2>1, TextInReach
  <2>3. CASE Section(far) = Section(given.index)
    BY <1>1, <1>5, <1>6, <1>10, <2>2, <2>3 DEF TargetSafe
  <2>4. CASE far = given.index + 1 /\ StartOf(Section(far)) = far
    <3>1. far > offset
      BY <1>2, <1>3, <2>4
    <3> QED
      BY <1>6, <2>4, <3>1 DEF TargetSafe
  <2> QED
    BY <1>2, <1>4, <2>3, <2>4, NextPlace
<1>13. SearchRight'
  BY <1>7 DEF SearchRight, Searching
<1> QED
  BY <1>8, <1>9, <1>11, <1>12, <1>13 DEF ClientInv

LEMMA ClientKeepsInv ==
  ASSUME StreamInv, FileFits, StreamLoad PROVE StreamInv'
<1>1. UNCHANGED cache /\ UNCHANGED given
  BY DEF StreamLoad, PullBack, Found, Advance, LookAhead, StartToken, Scan,
         StartText, SkipText, EndComment, GoBack, Still
<1>2. CacheInv'
  BY StreamLoadKeepsInv DEF StreamInv
<1>3. CacheTypes' /\ InOrder' /\ DataRight' /\ PositionKnown' /\ GivesTheFile'
  BY <1>1, ClientKeepsTables
<1>4. ClientInv'
  BY PullBackKeepsInv, FoundKeepsInv, AdvanceKeepsInv, LookAheadKeepsInv,
     StartTokenKeepsInv, ScanKeepsInv, StartTextKeepsInv, SkipTextKeepsInv,
     EndCommentKeepsInv, GoBackKeepsInv DEF StreamLoad
<1> QED
  BY <1>2, <1>3, <1>4 DEF StreamInv, ClientInv

-----------------------------------------------------------------------------
(* The steps of the cache, and the start.                                  *)
LEMMA LoadKeepsStream ==
  ASSUME StreamInv, FileFits, LoadStreamBlock PROVE StreamInv'
<1>1. CacheInv'
  BY LoadKeepsInv DEF StreamInv
<1>2. /\ CacheTypes' /\ InOrder' /\ DataRight' /\ PositionKnown' /\ GivesTheFile'
      /\ given'.index = call.index
  BY LoadKeepsTables
<1>3. Calls' /\ Answers' /\ CurrentRight'
  BY <1>2, LoadKeepsCalls, LoadKeepsCurrent
<1>4. SearchRight' /\ PlacesSafe' /\ TargetSafe'
  BY <1>2, LoadKeepsSearch, LoadKeepsPlaces, LoadKeepsTarget
<1> QED
  BY <1>1, <1>2, <1>3, <1>4 DEF StreamInv

LEMMA InitStreamInv ==
  ASSUME Init, FileFits PROVE StreamInv
<1>1. CacheInv
  BY InitCacheInv
<1>2. /\ LastBlock \in Nat /\ LastBlock > 1 /\ LastBlock <= NumSections /\ NumSections \in Nat
      /\ Blocks = 1 .. LastBlock /\ 1 \in Blocks /\ LastBlock \in Blocks /\ LastBlock - 1 \in Blocks
  <2>1. LastBlock > 1
    BY BlockNumbers, StreamCacheAssumption DEF LastBlock, FileFits
  <2> QED
    BY <2>1, BlockNumbers
<1>3. 0 \in Sections /\ StartOf(0) = 0 /\ EndOf(0) \in Nat /\ EndOf(0) > 0
      /\ EndOf(0) <= BlockSize /\ EndOf(0) <= FileSize /\ Section(0) = 0
      /\ BlockSize \in Nat /\ FileSize \in Nat /\ FileSize > 0 /\ BlockSize > 0
  <2>1. 0 \in Sections /\ BlockSize \in Nat /\ FileSize \in Nat /\ FileSize > 0 /\ BlockSize > 0
    BY <1>2, StreamCacheAssumption DEF Sections
  <2>2. StartOf(0) = 0
    BY StreamCacheAssumption DEF StartOf
  <2>3. /\ EndOf(0) \in Nat /\ StartOf(0) < EndOf(0) /\ EndOf(0) <= FileSize
        /\ EndOf(0) = IF StartOf(0) + BlockSize > FileSize THEN FileSize
                      ELSE StartOf(0) + BlockSize
    BY <2>1, SectionBounds
  <2>4. Section(0) = 0
    BY <2>1, <2>2, SectionIs
  <2> QED
    BY <2>1, <2>2, <2>3, <2>4
<1>4. /\ phase = "end" /\ fs = FileSize /\ offset = 0 /\ mark = 0
      /\ call.index = 0 /\ call.left = 0 /\ call.skip = 0 /\ call.setcurrent = TRUE
      /\ given.index = 0 /\ given.byte = 0 /\ seekindex = EndOf(0) /\ filepos = EndOf(0)
      /\ current = [block |-> 1, start |-> 0, end |-> EndOf(0)]
  BY DEF Init
<1>5. /\ section = [b \in Blocks |-> b - 1]
      /\ order = [i \in Blocks |-> IF i = LastBlock THEN 1 ELSE i + 1]
  BY DEF Init
<1>6. \A b \in Blocks :
        /\ b = 1 => blocks[b].start = 0 /\ blocks[b].end = EndOf(0)
                    /\ \A i \in Slots : i < EndOf(0) => blocks[b].data[i] = i
        /\ b # 1 => blocks[b].start = 0 /\ blocks[b].end = 0
  BY DEF Init
<1>7. CacheTypes
  <2>1. blocks \in [Blocks -> [start : Nat, end : Nat, data : [Slots -> Int]]]
    <3>1. [i \in Slots |-> IF i < EndOf(0) THEN i ELSE Garbage] \in [Slots -> Int]
          /\ [i \in Slots |-> Garbage] \in [Slots -> Int]
      BY <1>3 DEF Slots, Garbage
    <3> QED
      BY <1>3, <3>1 DEF Init
  <2> QED
    BY <1>2, <1>3, <1>4, <2>1 DEF CacheTypes
<1>8. InOrder
  <2>1. ASSUME NEW i \in Blocks, NEW j \in Blocks, order[i] = order[j] PROVE i = j
    BY <1>2, <1>5, <2>1
  <2>2. ASSUME NEW b \in Blocks PROVE \E i \in Blocks : order[i] = b
    <3>1. CASE b = 1
      BY <1>2, <1>5, <3>1
    <3>2. CASE b # 1
      <4>1. b - 1 \in Blocks /\ b - 1 # LastBlock /\ (b - 1) + 1 = b
        BY <1>2, <3>2
      <4> QED
        BY <1>5, <4>1
    <3> QED
      BY <3>1, <3>2
  <2> QED
    BY <2>1, <2>2 DEF InOrder
<1>9. \A b \in Blocks : Loaded(b, section[b]) => b = 1
  <2> SUFFICES ASSUME NEW b \in Blocks, Loaded(b, section[b]), b # 1 PROVE FALSE
    OBVIOUS
  <2>1. blocks[b].end = 0 /\ blocks[b].end = EndOf(section[b])
    BY <1>6 DEF Loaded
  <2>2. section[b] \in Sections
    BY <1>2, <1>5 DEF Sections
  <2>3. StartOf(section[b]) \in Nat /\ StartOf(section[b]) < EndOf(section[b])
    BY <2>2, SectionBounds
  <2> QED
    BY <2>1, <2>3
<1>10. section[1] = 0 /\ Loaded(1, 0)
  BY <1>2, <1>3, <1>5, <1>6 DEF Loaded
<1>11. DataRight
  <2> SUFFICES ASSUME NEW i \in Slots, i < EndOf(0) - StartOf(0)
               PROVE  blocks[1].data[i] = StartOf(0) + i
    BY <1>9, <1>10 DEF DataRight
  <2>1. i \in Int /\ i < EndOf(0)
    BY <1>3 DEF Slots
  <2> QED
    BY <1>2, <1>3, <1>6, <2>1
<1>12. Idle /\ ~Moving /\ ~Comparing /\ Searching /\ Low = 0
  BY <1>4 DEF Idle, Moving, Comparing, Searching, Low
<1>13. Calls /\ Answers
  <2>1. call.setcurrent \in BOOLEAN
    BY <1>4
  <2>2. ~(call.left > 0)
    BY <1>4
  <2> QED
    BY <1>4, <1>12, <2>1, <2>2 DEF Calls, Answers
<1>14. CurrentRight
  <2>1. CurrentSection = 0 /\ Fresh
    BY <1>3, <1>4, <1>10 DEF CurrentSection, Fresh
  <2>2. Newest = 1
    BY <1>2, <1>5 DEF Newest
  <2>3. current.block = 1 /\ current.start = 0 /\ current.end = EndOf(0)
    BY <1>4
  <2> QED
    BY <1>3, <1>4, <1>10, <1>12, <2>1, <2>2, <2>3 DEF CurrentRight
<1>15. SearchRight
  <2>1. \A b \in Blocks : blocks[b].end <= BlockSize
    BY <1>3, <1>6
  <2> QED
    BY <1>3, <1>4, <2>1 DEF SearchRight, Untouched
<1>16. PlacesSafe /\ TargetSafe
  BY <1>4, <1>12 DEF PlacesSafe, TargetSafe
<1> QED
  BY <1>1, <1>4, <1>7, <1>8, <1>11, <1>13, <1>14, <1>15, <1>16
  DEF StreamInv, GivesTheFile, PositionKnown

LEMMA StreamInvHolds ==
  ASSUME FileFits PROVE Spec => []StreamInv
<1>1. Init => StreamInv
  BY InitStreamInv
<1>2. StreamInv /\ [Next]_vars => StreamInv'
  <2> SUFFICES ASSUME StreamInv, [Next]_vars PROVE StreamInv'
    OBVIOUS
  <2>1. CASE LoadStreamBlock
    BY <2>1, LoadKeepsStream
  <2>2. CASE StreamLoad
    BY <2>2, ClientKeepsInv
  <2>3. CASE UNCHANGED vars
    <3>1. UNCHANGED cache /\ UNCHANGED <<offset, call, given, phase, mark, fs>>
      BY <2>3 DEF vars, client
    <3>2. CacheInv'
      BY <2>3 DEF StreamInv, vars, cache, client, CacheInv, ClientTypes, CallInside, Tables,
         KnowEachOther
    <3>3. /\ CacheTypes' /\ InOrder' /\ DataRight' /\ PositionKnown' /\ GivesTheFile'
          /\ Known' = Known /\ Safe' = Safe /\ Held' = Held
          /\ Newest' = Newest /\ section' = section /\ seekindex' = seekindex
      BY <3>1, ClientKeepsTables
    <3>4. UNCHANGED <<blocks, section, attached, order, current, seekindex, filepos>>
      BY <3>1 DEF cache
    <3>5. Calls' /\ Answers'
      BY <3>1 DEF StreamInv, Calls, Answers, Idle, Comparing, Moving, Peeking, Reading,
         Target, Low
    <3>6. CurrentRight'
      BY <3>1, <3>4 DEF StreamInv, CurrentRight, CurrentSection, Fresh, Passed, Searching,
         Newest, Second, Loaded, Low, Moving
    <3>7. SearchRight'
      BY <3>1, <3>4 DEF StreamInv, SearchRight, Searching, Untouched, Idle
    <3>8. PlacesSafe' /\ TargetSafe'
      BY <3>1, <3>3 DEF StreamInv, PlacesSafe, TargetSafe, Searching, Moving, Reading,
         Target, Idle
    <3> QED
      BY <3>2, <3>3, <3>5, <3>6, <3>7, <3>8 DEF StreamInv
  <2> QED
    BY <2>1, <2>2, <2>3 DEF Next
<1> QED
  BY <1>1, <1>2, PTL DEF Spec

(* Every byte that StreamLoad is handed is the byte of the file at its     *)
(* index: the block LoadStreamBlock (datahandle.cpp) returns holds it,     *)
(* whichever of the three short cuts found it.                             *)
THEOREM GivesTheFileHolds ==
  ASSUME FileFits PROVE Spec => []GivesTheFile
<1>1. StreamInv => GivesTheFile
  BY DEF StreamInv
<1> QED
  BY <1>1, StreamInvHolds, PTL

(* m_currentseekindex is where the file is, so that a read without a seek   *)
(* (ReadStreamBlock, datahandle.cpp) starts at the right byte.             *)
THEOREM PositionKnownHolds ==
  ASSUME FileFits PROVE Spec => []PositionKnown
<1>1. StreamInv => PositionKnown
  BY DEF StreamInv
<1> QED
  BY <1>1, StreamInvHolds, PTL
=============================================================================
