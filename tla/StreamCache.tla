----------------------------- MODULE StreamCache -----------------------------
(***************************************************************************)
(* The read stream of a DataHandle (src/datahandle.cpp) and its one client, *)
(* kGUIXML::StreamLoad (src/kguixml.cpp), which reads an XML file that is   *)
(* too big for memory.                                                     *)
(*                                                                          *)
(* The file is cut into sections, and a few stream blocks hold the bytes of *)
(* as many sections.  The least recently used block is given to a section   *)
(* that needs one.  Three short cuts make it fast, and need the state they  *)
(* rely on to stay valid: the current block is used without looking it up   *)
(* while the index is in its range, a block that follows the last one read  *)
(* is read without a seek, and a comparison does not move the current block.*)
(*                                                                          *)
(* Byte i of the file is the number i, so that a wrong byte can be told.    *)
(***************************************************************************)
EXTENDS Integers

CONSTANTS
  FileSize,   (* m_filesize                                                 *)
  BlockSize,  (* m_streamblocksize                                          *)
  NumBlocks,  (* m_numstreamblocks                                          *)
  MaxCmp,     (* Bound: the bytes a StreamCmp compares, and looks ahead.    *)
  MaxText     (* Bound: the length of a token and of a CDATA text.          *)

ASSUME StreamCacheAssumption ==
  /\ FileSize \in Nat \ {0} /\ BlockSize \in Nat \ {0}
  /\ NumBlocks \in Nat \ {0}
  /\ MaxCmp \in Nat \ {0} /\ MaxText \in Nat

VARIABLES
  blocks,     (* the stream blocks: m_startindex, m_endindex and m_data     *)
  section,    (* m_datasection of each block                                *)
  attached,   (* m_streamblock of each section                              *)
  order,      (* the blocks by m_priority, the lowest first                 *)
  current,    (* m_currentstreamblock, with its start and end index         *)
  seekindex,  (* m_currentseekindex                                         *)
  filepos,    (* where the file really is                                   *)
  offset,     (* m_offset                                                   *)
  call,       (* the bytes the call in progress still has to get            *)
  given,      (* the last byte handed to the client, and its index          *)
  phase,      (* what StreamLoad is doing                                   *)
  mark,       (* where it will go back to                                   *)
  fs          (* its fs: one past the last '>' of the file                  *)

cache == <<blocks, section, attached, order, current, seekindex, filepos>>
client == <<phase, mark, fs>>
vars == <<cache, offset, call, given, client>>

Garbage == -1
NoBlock == 0
Bytes == 0 .. FileSize - 1
Slots == 0 .. BlockSize - 1
NumSections == (FileSize + (BlockSize - 1)) \div BlockSize
Sections == 0 .. NumSections - 1
Blocks == 1 .. (IF NumBlocks > NumSections THEN NumSections ELSE NumBlocks)
LastBlock == IF NumBlocks > NumSections THEN NumSections ELSE NumBlocks

StartOf(s) == s * BlockSize
EndOf(s) == IF (s + 1) * BlockSize > FileSize THEN FileSize ELSE (s + 1) * BlockSize

-----------------------------------------------------------------------------
(* ReadStreamBlock.  Read leaves bytes out when they would be past the end  *)
(* of the file, counted from m_offset; m_offset is the block's start only   *)
(* when it had to seek.                                                     *)
BugAlwaysMoved(start) == filepos
From(start) == IF start # seekindex THEN start ELSE filepos

NumRead(start, end) ==
  LET at == IF start # seekindex THEN start ELSE offset
  IN IF end - start + at > FileSize THEN FileSize - at ELSE end - start

Filled(data, start, end) ==
  [i \in Slots |-> IF i < NumRead(start, end) /\ From(start) + i \in Bytes
                     THEN From(start) + i ELSE data[i]]

Fill(b, s) ==
  /\ blocks' = [blocks EXCEPT ![b] =
                  [start |-> StartOf(s), end |-> EndOf(s),
                   data |-> Filled(@.data, StartOf(s), EndOf(s))]]
  /\ filepos' = IF From(StartOf(s)) + NumRead(StartOf(s), EndOf(s)) > FileSize
                THEN FileSize ELSE From(StartOf(s)) + NumRead(StartOf(s), EndOf(s))
  /\ seekindex' = EndOf(s)

(* InitReadStream: the first block is loaded, the others are attached to    *)
(* the next sections but not loaded; their priority is the lowest.          *)
Init ==
  /\ blocks = [b \in Blocks |->
                 IF b = 1 THEN [start |-> 0, end |-> EndOf(0),
                                data |-> [i \in Slots |->
                                            IF i < EndOf(0) THEN i ELSE Garbage]]
                 ELSE [start |-> 0, end |-> 0, data |-> [i \in Slots |-> Garbage]]]
  /\ section = [b \in Blocks |-> b - 1]
  /\ attached = [s \in Sections |-> IF s + 1 \in Blocks THEN s + 1 ELSE NoBlock]
  /\ order = [i \in Blocks |-> IF i = LastBlock THEN 1 ELSE i + 1]
  /\ current = [block |-> 1, start |-> 0, end |-> EndOf(0)]
  /\ seekindex = EndOf(0) /\ filepos = EndOf(0)
  /\ offset = 0
  /\ call = [index |-> 0, left |-> 0, skip |-> 0, setcurrent |-> TRUE]
  /\ given = [index |-> 0, byte |-> 0]
  /\ phase = "end" /\ mark = 0 /\ fs = FileSize

(* LoadStreamBlock gives the block it used the highest priority.           *)
Touched(b) ==
  [i \in Blocks |-> IF i = LastBlock THEN b
                    ELSE IF \E j \in 1 .. i : order[j] = b THEN order[i + 1]
                    ELSE order[i]]

-----------------------------------------------------------------------------
(* LoadStreamBlock, for the next byte of the call in progress, and what the *)
(* call does with it: the quick check, a section whose block is loaded, one *)
(* whose block has not been loaded yet, and one that must be given a block. *)
Wanted == call.index \div BlockSize
Quick == call.index \in current.start .. current.end - 1
Loaded(b, s) == blocks[b].start = StartOf(s) /\ blocks[b].end = EndOf(s)

Hand(b, start, data) ==
  /\ given' = [index |-> call.index, byte |-> data[call.index - start]]
  /\ call' = [call EXCEPT !.index = @ + 1, !.left = @ - 1]
  /\ offset' = IF call.left = 1 THEN offset + call.skip ELSE offset
  /\ UNCHANGED client

MakeCurrent(b, s) ==
  current' = IF call.setcurrent
             THEN [block |-> b, start |-> StartOf(s), end |-> EndOf(s)] ELSE current

UseCurrent ==
  /\ call.left > 0 /\ Quick
  /\ Hand(current.block, current.start, blocks[current.block].data)
  /\ UNCHANGED cache

UseLoaded ==
  LET b == attached[Wanted] IN
  /\ call.left > 0 /\ ~Quick
  /\ b # NoBlock /\ Loaded(b, Wanted)
  /\ order' = Touched(b)
  /\ MakeCurrent(b, Wanted)
  /\ Hand(b, StartOf(Wanted), blocks[b].data)
  /\ UNCHANGED <<blocks, section, attached, seekindex, filepos>>

FirstLoad ==
  LET b == attached[Wanted] IN
  /\ call.left > 0 /\ ~Quick
  /\ b # NoBlock /\ ~Loaded(b, Wanted)
  /\ Fill(b, Wanted)
  /\ order' = Touched(b)
  /\ MakeCurrent(b, Wanted)
  /\ Hand(b, StartOf(Wanted), blocks'[b].data)
  /\ UNCHANGED <<section, attached>>

BugStaysAttached(b, s) == [attached EXCEPT ![s] = b]
Moved(b, s) == [attached EXCEPT ![section[b]] = NoBlock, ![s] = b]

BugNewest == order[LastBlock]
Oldest == order[1]

Replace ==
  LET b == Oldest IN
  /\ call.left > 0 /\ ~Quick
  /\ attached[Wanted] = NoBlock
  /\ attached' = Moved(b, Wanted)
  /\ section' = [section EXCEPT ![b] = Wanted]
  /\ Fill(b, Wanted)
  /\ order' = Touched(b)
  /\ MakeCurrent(b, Wanted)
  /\ Hand(b, StartOf(Wanted), blocks'[b].data)

LoadStreamBlock == UseCurrent \/ UseLoaded \/ FirstLoad \/ Replace

-----------------------------------------------------------------------------
(* The calls: StreamPeekChar, StreamRead of n bytes (m_offset moves when it *)
(* is done, and past what the client skips then), and StreamCmp, which      *)
(* stops at the first difference and may compare less than it was asked to. *)
Idle == call.left = 0

Peek(at) == call' = [index |-> at, left |-> 1, skip |-> 0, setcurrent |-> TRUE]
Read(at, n, skipped) ==
  call' = [index |-> at, left |-> n, skip |-> n + skipped, setcurrent |-> TRUE]
Compare(at, n) ==
  /\ at + n <= FileSize
  /\ call' = [index |-> at, left |-> n, skip |-> 0, setcurrent |-> FALSE]

Go(p) == phase' = p
Still == UNCHANGED <<cache, given>>

(* StreamLoad looks for the last '>' from the end, and goes to the start.   *)
PullBack ==
  /\ phase = "end" /\ Idle
  /\ offset' = fs - 1
  /\ Peek(fs - 1)
  /\ Go("found?")
  /\ UNCHANGED <<mark, fs>> /\ Still

Found ==
  /\ phase = "found?" /\ Idle
  /\ \/ Go("ready") /\ offset' = 0 /\ Peek(0) /\ UNCHANGED fs
     \/ /\ fs' = fs - 1
        /\ IF fs' > 1 THEN Go("end") /\ UNCHANGED <<offset, call>>
                      ELSE Go("ready") /\ offset' = 0 /\ Peek(0)
  /\ UNCHANGED mark /\ Still

(* Between two tokens it compares what comes next, and peeks: at m_offset,  *)
(* behind the byte or the token it has just seen, or behind what has been   *)
(* compared.                                                               *)
Advance ==
  /\ phase = "ready" /\ Idle
  /\ \E next \in {offset, offset + 1, given.index + 1} :
       /\ next \in offset .. fs - 1
       /\ next = offset + 1 => given.index >= offset - 1
       /\ offset' = next
       /\ Peek(next)
  /\ UNCHANGED client /\ Still

LookAhead ==
  /\ phase = "ready" /\ Idle
  /\ \E a \in 0 .. MaxCmp - 1 : \E n \in 1 .. MaxCmp - a : Compare(offset + a, n)
  /\ UNCHANGED <<offset, client>> /\ Still

(* A token: skip and peek until its end, go back to its start, read it.     *)
Seen == Idle /\ given.index >= offset

StartToken ==
  /\ phase = "ready" /\ Seen
  /\ Go("token") /\ mark' = offset
  /\ UNCHANGED <<offset, call, fs>> /\ Still

Scan ==
  /\ phase = "token" /\ Idle
  /\ offset + 1 < fs /\ offset - mark < MaxText
  /\ offset' = offset + 1
  /\ Peek(offset + 1)
  /\ UNCHANGED client /\ Still

(* A CDATA text and a comment are scanned by comparing alone, from behind   *)
(* the mark that starts them to the mark that ends them.  The text is then  *)
(* read, and the mark behind it skipped; a comment is not read.            *)
StartText ==
  /\ phase = "ready" /\ Seen
  /\ phase' \in {"cdata", "comment"}
  /\ offset' = given.index + 1 /\ mark' = given.index + 1
  /\ \E n \in 1 .. MaxCmp : Compare(given.index + 1, n)
  /\ UNCHANGED fs /\ Still

SkipText ==
  /\ phase \in {"cdata", "comment"} /\ Idle
  /\ phase = "cdata" => offset - mark < MaxText
  /\ offset' = offset + 1
  /\ \E n \in 1 .. MaxCmp : Compare(offset + 1, n)
  /\ UNCHANGED client /\ Still

EndComment ==
  /\ phase = "comment" /\ Idle /\ given.index + 1 < fs
  /\ offset' = given.index + 1
  /\ Peek(given.index + 1)
  /\ Go("ready")
  /\ UNCHANGED <<mark, fs>> /\ Still

GoBack ==
  /\ Idle /\ offset > mark
  /\ \/ phase = "token" /\ Read(mark, offset - mark, 0)
     \/ phase = "cdata" /\ Read(mark, offset - mark, given.index + 1 - offset)
  /\ offset' = mark
  /\ Go("ready")
  /\ UNCHANGED <<mark, fs>> /\ Still

StreamLoad ==
  \/ PullBack \/ Found \/ Advance \/ LookAhead \/ StartToken \/ Scan
  \/ StartText \/ SkipText \/ EndComment \/ GoBack

Next == LoadStreamBlock \/ StreamLoad

Spec == Init /\ [][Next]_vars

-----------------------------------------------------------------------------
TypeOK ==
  /\ \A b \in Blocks :
       /\ blocks[b].start \in 0 .. FileSize /\ blocks[b].end \in 0 .. FileSize
       /\ \A i \in Slots : blocks[b].data[i] \in Bytes \cup {Garbage}
  /\ section \in [Blocks -> Sections]
  /\ attached \in [Sections -> Blocks \cup {NoBlock}]
  /\ order \in [Blocks -> Blocks]
  /\ {order[i] : i \in Blocks} = Blocks
  /\ seekindex \in 0 .. FileSize /\ filepos \in 0 .. FileSize
  /\ offset \in 0 .. FileSize /\ mark \in 0 .. FileSize /\ fs \in 0 .. FileSize
  /\ phase \in {"end", "found?", "ready", "token", "cdata", "comment"}

(* A block and the section it holds know each other: no section uses a      *)
(* block that was given to another one.                                    *)
KnowEachOther ==
  /\ \A b \in Blocks : attached[section[b]] = b
  /\ \A s \in Sections : attached[s] # NoBlock => section[attached[s]] = s

(* Every byte that is handed to the client is the byte of the file at its   *)
(* index.                                                                  *)
GivesTheFile == given.byte = given.index

(* m_currentseekindex is where the file is, which the missing seek needs.   *)
PositionKnown == seekindex = filepos
=============================================================================
