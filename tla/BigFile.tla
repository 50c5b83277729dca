------------------------------- MODULE BigFile -------------------------------
(***************************************************************************)
(* The bigfile of src/big.cpp, an archive that is updated in place, and     *)
(* kguibig (src/kguibig.cpp), the program that updates one: it loads the    *)
(* directory, adds the source files whose time differs from their entry's, *)
(* and writes the directory blocks that have changed.  The program can die  *)
(* between any two writes to the disk, and then runs again.                *)
(*                                                                          *)
(* A bigfile is a row of units.  The root header has unit 0, a directory    *)
(* block one unit, and a stored file as many as its size says.  Directory   *)
(* blocks are linked from unit 1; their body (the entries) and their header *)
(* (how many entries, and the next block) are written one after the other.  *)
(***************************************************************************)
EXTENDS Integers, Sequences, FiniteSets, FiniteSetsExt

CONSTANTS
  Names,     (* The source files.                                           *)
  Sizes,     (* The sizes they can have, in units.                          *)
  PerBlock,  (* The entries a directory block has room for.                 *)
  MaxTime,   (* Bound: a source file changes at most this often.            *)
  MaxUnits,  (* Bound: the units of the bigfile.                            *)
  Crashes,   (* The program can die.                                        *)
  MaxFails   (* Bound: the writes of file data that fail (disk full).       *)

ASSUME BigFileAssumption ==
  /\ Sizes \subseteq Nat
  /\ PerBlock \in Nat \ {0} /\ MaxTime \in Nat /\ MaxUnits \in Nat \ {0, 1}
  /\ Crashes \in BOOLEAN /\ MaxFails \in Nat

VARIABLES
  source,      (* the size and time of each source file                     *)
  cells,       (* the units on the disk                                     *)
  phase,       (* what kguibig is doing                                     *)
  todo,        (* the source files it has not looked at yet                 *)
  curend,      (* m_curend                                                  *)
  curwaste,    (* m_curwaste                                                *)
  dirs,        (* m_dirblocks, with their headers                           *)
  hash,        (* m_hash: block, place and m_time of each name's entry      *)
  dirchanged,  (* m_dirchanged                                              *)
  failures,    (* history: the writes of file data that have failed         *)
  torn         (* history: it died between the blocks of a directory        *)

memory == <<curend, curwaste, dirs, hash, dirchanged>>
vars == <<source, cells, phase, todo, memory, failures, torn>>

Units == 0 .. MaxUnits - 1
FirstDir == 1
NoRef == [block |-> 0, place |-> 0, time |-> 0]

(* The program's memory before it has loaded a bigfile, and after it ended. *)
NoMemory ==
  /\ todo' = {}
  /\ curend' = 0 /\ curwaste' = 0 /\ dirs' = <<>>
  /\ hash' = [n \in Names |-> NoRef]
  /\ dirchanged' = FALSE

Blank == [kind |-> "blank"]
Root(end, waste) == [kind |-> "root", curend |-> end, curwaste |-> waste]
Data(n, k) == [kind |-> "data", name |-> n, time |-> source[n].time, pos |-> k]

Init ==
  /\ source \in [Names -> [size : Sizes, time : {1}]]
  /\ cells = [u \in Units |-> Blank]
  /\ phase = "out" /\ todo = {}
  /\ curend = 0 /\ curwaste = 0 /\ dirs = <<>>
  /\ hash = [n \in Names |-> NoRef]
  /\ dirchanged = FALSE
  /\ failures = 0 /\ torn = FALSE

-----------------------------------------------------------------------------
(* The directory as it is on the disk: the blocks that can be reached ...   *)
Chain[u \in Units] ==
  IF cells[u].kind # "dir" \/ cells[u].next = 0 THEN <<u>>
  ELSE <<u>> \o Chain[cells[u].next]

DiskBlocks == IF cells[0].kind = "root" THEN Chain[FirstDir] ELSE <<>>
Readable(blocks) == \A b \in 1 .. Len(blocks) : cells[blocks[b]].kind = "dir"

(* ... and the entries of one: those of the body that the header counts.    *)
Visible(u) ==
  IF cells[u].kind = "dir" THEN SubSeq(cells[u].body, 1, cells[u].num) ELSE <<>>

DiskEntries ==
  UNION {{Visible(DiskBlocks[b])[i] : i \in 1 .. Len(Visible(DiskBlocks[b]))} :
         b \in 1 .. Len(DiskBlocks)}

(* Load's checks for corruption: "Data offset is past end of file!" and     *)
(* "Internal Error!".                                                      *)
InsideFile(e) == e.off <= cells[0].curend /\ e.off + e.size <= cells[0].curend

-----------------------------------------------------------------------------
(* Load(true): nothing is read when there is no file yet.  A failed check   *)
(* is fatal, and what reading a unit that holds no directory block as one   *)
(* would do cannot be said: both are the end of this bigfile.              *)
LoadedDirs ==
  [b \in 1 .. Len(DiskBlocks) |->
     [offset |-> DiskBlocks[b], next |-> cells[DiskBlocks[b]].next,
      entries |-> Visible(DiskBlocks[b]), changed |-> FALSE]]

Located(blocks, n) ==
  {r \in (1 .. Len(blocks)) \X (1 .. PerBlock) :
     r[2] <= Len(blocks[r[1]].entries) /\ blocks[r[1]].entries[r[2]].name = n}

BugHashEmpty == [n \in Names |-> NoRef]
LoadedHash ==
  [n \in Names |->
     IF Located(LoadedDirs, n) = {} THEN NoRef
     ELSE LET r == CHOOSE r \in Located(LoadedDirs, n) :
                     \A s \in Located(LoadedDirs, n) :
                       s[1] < r[1] \/ (s[1] = r[1] /\ s[2] <= r[2])
          IN [block |-> r[1], place |-> r[2],
              time |-> LoadedDirs[r[1]].entries[r[2]].time]]

LoadEmpty ==
  /\ phase = "out" /\ cells[0] = Blank
  /\ phase' = "empty" /\ todo' = Names
  /\ curend' = 0 /\ curwaste' = 0 /\ dirs' = <<>>
  /\ hash' = [n \in Names |-> NoRef]
  /\ dirchanged' = FALSE
  /\ UNCHANGED <<source, cells>>

Load ==
  /\ phase = "out" /\ cells[0] # Blank
  /\ IF Readable(DiskBlocks) /\ \A e \in DiskEntries : InsideFile(e)
       THEN /\ phase' = "add" /\ todo' = Names
            /\ curend' = cells[0].curend /\ curwaste' = cells[0].curwaste
            /\ dirs' = LoadedDirs /\ hash' = LoadedHash /\ dirchanged' = FALSE
       ELSE phase' = "dead" /\ UNCHANGED <<todo, memory>>
  /\ UNCHANGED <<source, cells>>

-----------------------------------------------------------------------------
(* AddFile on an empty bigfile first makes one: the root header, then the   *)
(* first directory block's.                                                *)
Write(u, content) == cells' = [cells EXCEPT ![u] = content]

MakeRoot ==
  /\ phase = "empty" /\ todo # {}
  /\ Write(0, Root(FirstDir + 1, 0))
  /\ phase' = "make"
  /\ curend' = FirstDir + 1 /\ curwaste' = 0
  /\ UNCHANGED <<source, todo, dirs, hash, dirchanged>>

MakeDir ==
  /\ phase = "make"
  /\ Write(FirstDir, [kind |-> "dir", body |-> <<>>, num |-> 0, next |-> 0])
  /\ phase' = "add"
  /\ dirs' = <<[offset |-> FirstDir, next |-> 0, entries |-> <<>>, changed |-> FALSE]>>
  /\ UNCHANGED <<source, todo, curend, curwaste, hash, dirchanged>>

(* The loop of kguibig: every source file once; one whose time is that of   *)
(* its entry is skipped.                                                   *)
Skip(n) ==
  /\ phase = "add" /\ n \in todo
  /\ hash[n].time = source[n].time
  /\ todo' = todo \ {n}
  /\ UNCHANGED <<source, cells, phase, memory>>

Wanted(n) == phase = "add" /\ n \in todo /\ hash[n].time # source[n].time

(* The data is written at off; a crash can leave only the first of it.      *)
Copy(n, off, units) ==
  cells' = [u \in Units |->
              IF u \in off .. off + units - 1 THEN Data(n, u - off) ELSE cells[u]]

(* What AddFile does to the end and the waste, and where the data goes.     *)
Placed(off, end, waste) == [off |-> off, curend |-> end, curwaste |-> waste]

BugMoveWastesNothing(old, size) ==
  IF old.off + old.size = curend
  THEN Placed(old.off, curend + size - old.size, curwaste)
  ELSE IF size <= old.size THEN Placed(old.off, curend, curwaste + old.size - size)
  ELSE Placed(curend, curend + size, curwaste)
BugGrowsInPlace(old, size) ==
  IF old.off + old.size = curend
  THEN Placed(old.off, curend + size - old.size, curwaste)
  ELSE Placed(old.off, curend, curwaste)
BugKeepsEnd(old, size) ==
  IF old.off + old.size = curend THEN Placed(old.off, curend, curwaste)
  ELSE IF size <= old.size THEN Placed(old.off, curend, curwaste + old.size - size)
  ELSE Placed(curend, curend + size, curwaste + old.size)
Replacement(old, size) ==
  IF old.off + old.size = curend
  THEN Placed(old.off, curend + size - old.size, curwaste)
  ELSE IF size <= old.size THEN Placed(old.off, curend, curwaste + old.size - size)
  ELSE Placed(curend, curend + size, curwaste + old.size)

(* The three ways to change a directory block in memory.                   *)
WithEntry(d, place, e) == [d EXCEPT !.entries[place] = e, !.changed = TRUE]
WithNewEntry(d, e) == [d EXCEPT !.entries = Append(@, e), !.changed = TRUE]
WithNext(d, next) == [d EXCEPT !.next = next, !.changed = TRUE]

Entry(n, off) == [name |-> n, off |-> off, size |-> source[n].size, time |-> source[n].time]

(* A file that has an entry: m_curend and m_curwaste are changed before the *)
(* data is written, the entry after it, and not at all when that fails.     *)
Old(n) == dirs[hash[n].block].entries[hash[n].place]

Replace(n) ==
  LET place == Replacement(Old(n), source[n].size) IN
  /\ Wanted(n) /\ hash[n] # NoRef
  /\ place.curend <= MaxUnits
  /\ todo' = todo \ {n}
  /\ curend' = place.curend /\ curwaste' = place.curwaste
  /\ Copy(n, place.off, source[n].size)
  /\ dirs' = [dirs EXCEPT ![hash[n].block] = WithEntry(@, hash[n].place, Entry(n, place.off))]
  /\ dirchanged' = TRUE
  /\ UNCHANGED <<source, phase, hash>>

ReplaceFails(n) ==
  LET place == Replacement(Old(n), source[n].size) IN
  /\ Wanted(n) /\ hash[n] # NoRef
  /\ place.curend <= MaxUnits
  /\ todo' = todo \ {n}
  /\ curend' = place.curend /\ curwaste' = place.curwaste
  /\ \E k \in 0 .. source[n].size : Copy(n, place.off, k)
  /\ UNCHANGED <<source, phase, dirs, hash, dirchanged>>

(* A new file goes to the end, and its entry to the last directory block or *)
(* to a new one, which takes a unit of its own.                            *)
Grown ==
  IF Len(dirs[Len(dirs)].entries) < PerBlock THEN dirs
  ELSE Append([dirs EXCEPT ![Len(dirs)] = WithNext(@, curend)],
              [offset |-> curend, next |-> 0, entries |-> <<>>, changed |-> TRUE])

DataEnd == IF Len(Grown) = Len(dirs) THEN curend ELSE curend + 1

Add(n) ==
  /\ Wanted(n) /\ hash[n] = NoRef
  /\ DataEnd + source[n].size <= MaxUnits
  /\ todo' = todo \ {n}
  /\ Copy(n, DataEnd, source[n].size)
  /\ dirs' = [Grown EXCEPT ![Len(Grown)] = WithNewEntry(@, Entry(n, DataEnd))]
  /\ curend' = DataEnd + source[n].size
  /\ dirchanged' = TRUE
  /\ UNCHANGED <<source, phase, curwaste, hash>>

AddFails(n) ==
  /\ Wanted(n) /\ hash[n] = NoRef
  /\ DataEnd + source[n].size <= MaxUnits
  /\ todo' = todo \ {n}
  /\ \E k \in 0 .. source[n].size : Copy(n, DataEnd, k)
  /\ dirs' = Grown
  /\ curend' = DataEnd
  /\ UNCHANGED <<source, phase, curwaste, hash, dirchanged>>

-----------------------------------------------------------------------------
(* UpdateDir, when all files have been looked at or the user has given up.  *)
StartUpdate ==
  /\ phase \in {"add", "empty"}
  /\ IF dirchanged THEN phase' = "update" /\ todo' = {} /\ UNCHANGED memory
                    ELSE phase' = "out" /\ NoMemory
  /\ UNCHANGED <<source, cells>>

Changed == {b \in 1 .. Len(dirs) : dirs[b].changed}
FirstChanged == CHOOSE b \in Changed : \A c \in Changed : b <= c

WriteBody ==
  LET d == dirs[FirstChanged] IN
  /\ phase = "update" /\ Changed # {}
  /\ Write(d.offset, IF cells[d.offset].kind = "dir"
                     THEN [cells[d.offset] EXCEPT !.body = d.entries]
                     ELSE [kind |-> "body", body |-> d.entries])
  /\ phase' = "header"
  /\ UNCHANGED <<source, todo, memory>>

WriteHeader ==
  LET d == dirs[FirstChanged] IN
  /\ phase = "header"
  /\ Write(d.offset, [kind |-> "dir", body |-> cells[d.offset].body,
                      num |-> Len(d.entries), next |-> d.next])
  /\ dirs' = [dirs EXCEPT ![FirstChanged].changed = FALSE]
  /\ phase' = "update"
  /\ UNCHANGED <<source, todo, curend, curwaste, hash, dirchanged>>

WriteRoot ==
  /\ phase = "update" /\ Changed = {}
  /\ Write(0, Root(curend, curwaste))
  /\ phase' = "out" /\ NoMemory
  /\ UNCHANGED source

-----------------------------------------------------------------------------
(* The program dies, between two writes or within the copying of a file.    *)
Crash ==
  /\ Crashes /\ phase \notin {"out", "dead"}
  /\ phase' = "out" /\ NoMemory
  /\ torn' = (torn \/ (phase \in {"update", "header"} /\ Len(dirs) > 1 /\ Changed # {}))
  /\ UNCHANGED <<source, cells>>

CrashInCopy(n) ==
  /\ Crashes /\ Wanted(n)
  /\ LET off == IF hash[n] = NoRef THEN DataEnd
                ELSE Replacement(Old(n), source[n].size).off
     IN /\ off + source[n].size <= MaxUnits
        /\ \E k \in 1 .. source[n].size : Copy(n, off, k)
  /\ phase' = "out" /\ NoMemory
  /\ UNCHANGED source

(* Between two runs of the program a source file can change.               *)
Edit(n) ==
  /\ phase = "out"
  /\ source[n].time < MaxTime
  /\ \E size \in Sizes : source' = [source EXCEPT ![n] = [size |-> size, time |-> @.time + 1]]
  /\ UNCHANGED <<cells, phase, todo, memory>>

Step ==
  \/ LoadEmpty \/ Load \/ MakeRoot \/ MakeDir
  \/ \E n \in Names : Skip(n) \/ Replace(n) \/ Add(n)
  \/ StartUpdate \/ WriteBody \/ WriteHeader \/ WriteRoot
  \/ \E n \in Names : CrashInCopy(n) \/ Edit(n)

Failure ==
  /\ failures < MaxFails /\ failures' = failures + 1
  /\ \E n \in Names : ReplaceFails(n) \/ AddFails(n)

Next ==
  \/ Failure /\ UNCHANGED torn
  \/ Crash /\ UNCHANGED failures
  \/ Step /\ UNCHANGED <<failures, torn>>

Spec == Init /\ [][Next]_vars

-----------------------------------------------------------------------------
TypeOK ==
  /\ \A u \in Units : cells[u].kind \in {"blank", "root", "data", "dir", "body"}
  /\ phase \in {"out", "empty", "make", "add", "update", "header", "dead"}
  /\ todo \subseteq Names
  /\ curend \in 0 .. MaxUnits /\ curwaste \in 0 .. MaxUnits
  /\ \A b \in 1 .. Len(dirs) :
       /\ dirs[b].offset \in Units
       /\ Len(dirs[b].entries) <= PerBlock
  /\ \A n \in Names : hash[n] # NoRef => Old(n).name = n

(* The stored data of an entry.                                            *)
Intact(e) ==
  \A k \in 0 .. e.size - 1 :
    cells[e.off + k] = [kind |-> "data", name |-> e.name, time |-> e.time, pos |-> k]

(* Nothing is lost by a crash: an entry on the disk whose time is that of   *)
(* its source file, which kguibig will not add again, has that file's data. *)
(* A failed write that the program survives does not keep this promise, nor *)
(* does dying between two directory blocks, see NoLossInCrash.             *)
UpToDateIsIntact ==
  failures = 0 /\ ~torn => \A e \in DiskEntries : e.time = source[e.name].time => Intact(e)

(* The same of every crash, which UpdateDir does not give: the entry of a   *)
(* file that has shrunk can still be the old one when that of another one   *)
(* already points to the space it gave up, and the next run takes both as   *)
(* they are.                                                               *)
NoLossInCrash ==
  failures = 0 => \A e \in DiskEntries : e.time = source[e.name].time => Intact(e)

(* No file is in the directory twice.                                      *)
NoDuplicates ==
  \A b, c \in 1 .. Len(DiskBlocks) :
    \A i \in 1 .. Len(Visible(DiskBlocks[b])), j \in 1 .. Len(Visible(DiskBlocks[c])) :
      Visible(DiskBlocks[b])[i].name = Visible(DiskBlocks[c])[j].name => b = c /\ i = j

(* What kguibig leaves behind can be loaded again: without crashes and      *)
(* failures, see EntriesInside.                                            *)
LoadsAgain ==
  phase = "out" /\ cells[0] # Blank =>
    Readable(DiskBlocks) /\ \A e \in DiskEntries : InsideFile(e)

(* assert(dataoffset<=m_curend) and "Internal Error!" of Load: no entry of  *)
(* a readable directory points past the end of the bigfile.                *)
EntriesInside ==
  phase = "out" /\ cells[0] # Blank /\ Readable(DiskBlocks) =>
    \A e \in DiskEntries : InsideFile(e)

(* m_curwaste is "the sum of gaps between files", as big.h says: headers,   *)
(* files and waste make up the bigfile.                                    *)
WasteIsGaps ==
  phase = "out" /\ cells[0] # Blank =>
    cells[0].curend = 1 + Len(DiskBlocks) + cells[0].curwaste
                        + MapThenSumSet(LAMBDA e : e.size, DiskEntries)
=============================================================================
