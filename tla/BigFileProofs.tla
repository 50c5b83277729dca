--------------------------- MODULE BigFileProofs ---------------------------
(***************************************************************************)
(* Proofs about BigFile: what an update in place of a bigfile never loses,  *)
(* wherever the program dies (but between two blocks of a directory).       *)
(*                                                                          *)
(* The invariant, BigFileInv, says in each phase of kguibig what is on the  *)
(* disk and how it relates to the memory:                                  *)
(*   - Layout: the blocks of a directory are linked upwards, every name has *)
(*     one entry, and no file shares a unit with another one or a block;    *)
(*   - Behind: a block on the disk has the link and the first entries of    *)
(*     the block in memory, except for entries that are out of date;        *)
(*   - Fresh, MemFresh: an entry that is up to date has its file's data;    *)
(*   - Fits, Witnessed, HashFits: the end of the bigfile is behind all of   *)
(*     it, and m_hash leads to the entries of the files that are left;      *)
(*   - DiskTidy: the directory on the disk has a layout of its own, which   *)
(*     the next Load can work with.                                         *)
(* The directory on the disk is a chain of links, defined by recursion on   *)
(* units: as links only go upwards it is a function, and it is the one path *)
(* from the first block (ChainIsThePath).  The sections below treat the     *)
(* links, the writes of data and of the directory, the three ways to change *)
(* the directory in memory, and then every action.                         *)
(* The last section counts units: UnitsCounted says that the end of the     *)
(* bigfile is the header, the blocks, the waste and the sum of the files,   *)
(* in memory while kguibig runs and on the disk when it does not.           *)
(***************************************************************************)
EXTENDS BigFile, WellFoundedInduction, SequenceTheorems, FiniteSetTheorems, TLAPS

(* A set of numbers has a least one.                                       *)
LEMMA Least ==
  ASSUME NEW T, T \subseteq Nat, T # {}
  PROVE  \E x \in T : \A y \in T : x <= y
<1> DEFINE R == {p \in Nat \X Nat : p[1] < p[2]}
<1>1. IsWellFoundedOn(R, Nat)
  BY NatLessThanWellFounded DEF OpToRel
<1>2. \A x \in Nat, y \in Nat : y < x => <<y, x>> \in R
  OBVIOUS
<1> HIDE DEF R
<1>3. PICK x \in T : \A y \in T : ~(<<y, x>> \in R)
  BY <1>1, WFMin
<1>4. ASSUME NEW y \in T PROVE x <= y
  <2>1. x \in Nat /\ y \in Nat
    OBVIOUS
  <2>2. ~(y < x)
    BY <1>2, <1>3, <2>1
  <2> QED
    BY <2>1, <2>2
<1> QED
  BY <1>3, <1>4

-----------------------------------------------------------------------------
Ends(c, u) == c[u].kind # "dir" \/ c[u].next = 0
FollowsIn(c, f, S) ==
  f = [u \in S |-> IF Ends(c, u) THEN <<u>> ELSE <<u>> \o f[c[u].next]]

LinksUp(c) ==
  \A u \in Units : ~Ends(c, u) => c[u].next \in Units /\ u < c[u].next

ChainOf(c) ==
  CHOOSE f : f = [u \in Units |->
    IF c[u].kind # "dir" \/ c[u].next = 0 THEN <<u>> ELSE <<u>> \o f[c[u].next]]

(* Chain as an operator of the units.                                      *)
LEMMA ChainNow == Chain = ChainOf(cells)
BY DEF Chain, ChainOf

(* The same after a step.                                                  *)
LEMMA ChainNext == Chain' = ChainOf(cells')
BY DEF Chain, ChainOf

(* A chain function of the upper units can be extended by one unit.        *)
LEMMA OneMoreUnit ==
  ASSUME NEW c, LinksUp(c), NEW k \in Nat, k > 0, k <= MaxUnits,
         NEW f, FollowsIn(c, f, k .. MaxUnits - 1)
  PROVE  \E g : FollowsIn(c, g, (k - 1) .. MaxUnits - 1)
<1> DEFINE j == k - 1
           S == j .. MaxUnits - 1
           g == [u \in S |-> IF u = j
                             THEN IF Ends(c, j) THEN <<j>> ELSE <<j>> \o f[c[j].next]
                             ELSE f[u]]
<1>0. MaxUnits \in Nat /\ j \in Nat
  BY BigFileAssumption
<1>1. ASSUME NEW u \in S, ~Ends(c, u)
      PROVE  c[u].next \in k .. MaxUnits - 1 /\ c[u].next \in S /\ c[u].next # j
  <2>1. u \in Units
    BY <1>0 DEF Units
  <2>2. c[u].next \in Units /\ u < c[u].next
    BY <1>1, <2>1 DEF LinksUp
  <2> QED BY <2>1, <2>2, <1>0 DEF Units
<1>2. ASSUME NEW u \in S
      PROVE  g[u] = IF Ends(c, u) THEN <<u>> ELSE <<u>> \o g[c[u].next]
  <2>1. CASE u = j
    <3>1. CASE Ends(c, u) BY <2>1, <3>1
    <3>2. CASE ~Ends(c, u)
      <4>1. g[c[u].next] = f[c[u].next] BY <1>1, <3>2
      <4> QED BY <2>1, <3>2, <4>1
    <3> QED BY <3>1, <3>2
  <2>2. CASE u # j
    <3>1. u \in k .. MaxUnits - 1 BY <2>2, <1>0
    <3>2. f[u] = IF Ends(c, u) THEN <<u>> ELSE <<u>> \o f[c[u].next]
      BY <3>1 DEF FollowsIn
    <3>3. g[u] = f[u] BY <2>2
    <3>4. CASE Ends(c, u) BY <3>2, <3>3, <3>4
    <3>5. CASE ~Ends(c, u)
      <4>1. g[c[u].next] = f[c[u].next] BY <1>1, <3>5
      <4> QED BY <3>2, <3>3, <3>5, <4>1
    <3> QED BY <3>4, <3>5
  <2> QED BY <2>1, <2>2
<1>3. FollowsIn(c, g, S)
  <2>1. g = [u \in S |-> g[u]] OBVIOUS
  <2> HIDE DEF g
  <2> QED BY <1>2, <2>1 DEF FollowsIn
<1> QED BY <1>3

(* The directory blocks are linked upwards, so the chain of each unit      *)
(* exists: it follows the links.                                           *)
LEMMA ChainFollows ==
  ASSUME NEW c, LinksUp(c)
  PROVE  FollowsIn(c, ChainOf(c), Units)
<1> DEFINE T == {k \in 0 .. MaxUnits : \E f : FollowsIn(c, f, k .. MaxUnits - 1)}
<1>0. MaxUnits \in Nat
  BY BigFileAssumption
<1>1. MaxUnits \in T
  <2> DEFINE f == [u \in {} |-> <<>>]
  <2>1. MaxUnits .. MaxUnits - 1 = {} BY <1>0
  <2>2. FollowsIn(c, f, {})
    BY DEF FollowsIn
  <2> QED BY <1>0, <2>1, <2>2
<1>2. T \subseteq Nat
  OBVIOUS
<1>3. PICK k \in T : \A y \in T : k <= y
  <2> HIDE DEF T
  <2> QED BY <1>1, <1>2, Least
<1>4. k = 0
  <2> SUFFICES ASSUME k > 0 PROVE FALSE
    BY <1>2
  <2>1. PICK f : FollowsIn(c, f, k .. MaxUnits - 1)
    OBVIOUS
  <2>2. k \in Nat /\ k <= MaxUnits
    BY <1>0
  <2>3. \E g : FollowsIn(c, g, (k - 1) .. MaxUnits - 1)
    BY <2>1, <2>2, OneMoreUnit
  <2>4. k - 1 \in T
    BY <2>3, <2>2, <1>0
  <2> QED BY <2>4, <2>2, <1>3
<1>5. \E f : FollowsIn(c, f, Units)
  BY <1>4 DEF Units
<1>6. \E f : f = [u \in Units |-> IF c[u].kind # "dir" \/ c[u].next = 0
                                   THEN <<u>> ELSE <<u>> \o f[c[u].next]]
  BY <1>5 DEF FollowsIn, Ends
<1> QED BY <1>6 DEF ChainOf, FollowsIn, Ends

(* What a chain from u is.                                                 *)
PathFrom(c, p, u) ==
  /\ p \in Seq(Units) /\ Len(p) >= 1 /\ p[1] = u
  /\ \A i \in 1 .. Len(p) - 1 : ~Ends(c, p[i]) /\ c[p[i]].next = p[i + 1]
  /\ Ends(c, p[Len(p)])

(* A unit without a link is a path.                                        *)
LEMMA PathEndsHere ==
  ASSUME NEW c, NEW u \in Units, Ends(c, u)
  PROVE  PathFrom(c, <<u>>, u)
BY DEF PathFrom

(* The path of a unit without a link is the unit.                          *)
LEMMA OnlyPathHere ==
  ASSUME NEW c, NEW u \in Units, Ends(c, u), NEW p, PathFrom(c, p, u)
  PROVE  p = <<u>>
<1>1. p \in Seq(Units) /\ Len(p) \in Nat /\ Len(p) >= 1 /\ p[1] = u
  BY DEF PathFrom
<1>2. \A i \in 1 .. Len(p) - 1 : ~Ends(c, p[i])
  BY DEF PathFrom
<1>3. Len(p) = 1
  <2> SUFFICES ASSUME Len(p) # 1 PROVE FALSE
    OBVIOUS
  <2>0. PICK l \in Nat : l = Len(p)
    BY <1>1
  <2>2. l >= 1 /\ l # 1
    BY <1>1, <2>0
  <2>3. 1 \in 1 .. l - 1
    BY <2>2
  <2>1. 1 \in 1 .. Len(p) - 1
    BY <2>0, <2>3
  <2> QED BY <1>1, <1>2, <2>1
<1> QED BY <1>1, <1>3

(* A path can be extended backwards along a link.                          *)
LEMMA PathGoesOn ==
  ASSUME NEW c, NEW u \in Units, ~Ends(c, u), NEW q, PathFrom(c, q, c[u].next)
  PROVE  PathFrom(c, <<u>> \o q, u)
<1> DEFINE p == <<u>> \o q
<1>1. q \in Seq(Units) /\ Len(q) \in Nat /\ Len(q) >= 1 /\ q[1] = c[u].next
  BY DEF PathFrom
<1>2. /\ p \in Seq(Units) /\ Len(p) = Len(q) + 1 /\ p[1] = u
      /\ \A i \in 1 .. Len(q) : p[i + 1] = q[i]
  BY <1>1
<1> HIDE DEF p
<1>3. ASSUME NEW i \in 1 .. Len(p) - 1
      PROVE  ~Ends(c, p[i]) /\ c[p[i]].next = p[i + 1]
  <2>1. CASE i = 1
    BY <2>1, <1>1, <1>2
  <2>2. CASE i # 1
    <3> DEFINE j == i - 1
    <3>1. j \in 1 .. Len(q) - 1 /\ j \in 1 .. Len(q) /\ j + 1 \in 1 .. Len(q) /\ i = j + 1
      BY <2>2, <1>1, <1>2
    <3> HIDE DEF j
    <3>2. p[i] = q[j] /\ p[i + 1] = q[j + 1]
      BY <3>1, <1>2
    <3> QED BY <3>1, <3>2 DEF PathFrom
  <2> QED BY <2>1, <2>2
<1>4. p[Len(p)] = q[Len(q)]
  BY <1>1, <1>2
<1> QED BY <1>1, <1>2, <1>3, <1>4 DEF PathFrom, p

(* A path begins with its unit, and goes on from the unit's link.          *)
LEMMA PathTail ==
  ASSUME NEW c, NEW u \in Units, ~Ends(c, u), NEW p, PathFrom(c, p, u)
  PROVE  p = <<u>> \o Tail(p) /\ PathFrom(c, Tail(p), c[u].next)
<1> DEFINE q == Tail(p)
<1>1. p \in Seq(Units) /\ Len(p) \in Nat /\ Len(p) >= 1 /\ p[1] = u
  BY DEF PathFrom
<1>2. Len(p) # 1
  BY <1>1 DEF PathFrom
<1>3. /\ q \in Seq(Units) /\ Len(q) = Len(p) - 1
      /\ \A i \in 1 .. Len(q) : q[i] = p[i + 1]
  BY <1>1, <1>2
<1>4. p = <<u>> \o q
  <2>1. <<u>> \o q \in Seq(Units) /\ Len(<<u>> \o q) = Len(p)
    BY <1>1, <1>2, <1>3
  <2>2. \A i \in 1 .. Len(p) : (<<u>> \o q)[i] = p[i]
    BY <1>1, <1>2, <1>3
  <2> QED BY <1>1, <2>1, <2>2, SeqEqual
<1> HIDE DEF q
<1>5. PathFrom(c, q, c[u].next)
  <2>1. Len(q) >= 1 BY <1>1, <1>2, <1>3
  <2>2. q[1] = p[2] /\ p[2] = c[u].next
    BY <1>1, <1>2, <1>3, <2>1 DEF PathFrom
  <2>3. ASSUME NEW i \in 1 .. Len(q) - 1
        PROVE ~Ends(c, q[i]) /\ c[q[i]].next = q[i + 1]
    <3>1. i + 1 \in 1 .. Len(p) - 1 /\ i \in 1 .. Len(q) /\ i + 1 \in 1 .. Len(q)
      BY <1>1, <1>3
    <3> QED BY <3>1, <1>3 DEF PathFrom
  <2>4. q[Len(q)] = p[Len(p)]
    BY <1>1, <1>3, <2>1
  <2> QED BY <1>3, <2>1, <2>2, <2>3, <2>4 DEF PathFrom
<1> QED BY <1>4, <1>5 DEF q

(* Of upward links a chain is the path from its first unit, the only one.  *)
LEMMA ChainIsThePath ==
  ASSUME NEW c, LinksUp(c)
  PROVE  \A u \in Units : /\ PathFrom(c, ChainOf(c)[u], u)
                          /\ \A p : PathFrom(c, p, u) => p = ChainOf(c)[u]
<1> DEFINE Good(u) == /\ PathFrom(c, ChainOf(c)[u], u)
                      /\ \A p : PathFrom(c, p, u) => p = ChainOf(c)[u]
           T == {k \in 0 .. MaxUnits : \A u \in Units : k <= u => Good(u)}
<1>0. MaxUnits \in Nat
  BY BigFileAssumption
<1>1. MaxUnits \in T
  BY <1>0 DEF Units
<1>2. T \subseteq Nat
  OBVIOUS
<1>3. PICK k \in T : \A y \in T : k <= y
  <2> HIDE DEF T
  <2> QED BY <1>1, <1>2, Least
<1>4. k = 0
  <2> SUFFICES ASSUME k > 0 PROVE FALSE
    BY <1>2
  <2>0. k \in Nat /\ k <= MaxUnits /\ \A u \in Units : k <= u => Good(u)
    BY <1>0
  <2> DEFINE j == k - 1
  <2>1. j \in Units /\ j \in Nat
    BY <2>0, <1>0 DEF Units
  <2>2. ChainOf(c)[j] = IF Ends(c, j) THEN <<j>> ELSE <<j>> \o ChainOf(c)[c[j].next]
    <3>1. FollowsIn(c, ChainOf(c), Units) BY ChainFollows
    <3>2. \A g : FollowsIn(c, g, Units) =>
            g[j] = IF Ends(c, j) THEN <<j>> ELSE <<j>> \o g[c[j].next]
      <4> HIDE DEF j
      <4> QED BY <2>1 DEF FollowsIn
    <3> QED BY <3>1, <3>2
  <2>3. ASSUME Ends(c, j) PROVE Good(j)
    <3>1. PathFrom(c, ChainOf(c)[j], j)
      BY <2>1, <2>2, <2>3, PathEndsHere
    <3>2. ASSUME NEW p, PathFrom(c, p, j) PROVE p = <<j>>
      <4> QED BY <3>2, <2>1, <2>3, OnlyPathHere
    <3>3. ChainOf(c)[j] = <<j>>
      BY <2>2, <2>3
    <3>4. \A p : PathFrom(c, p, j) => p = ChainOf(c)[j]
      BY <3>2, <3>3
    <3> QED BY <3>1, <3>4
  <2>4. ASSUME ~Ends(c, j) PROVE Good(j)
    <3> DEFINE n == c[j].next
    <3>1. n \in Units /\ j < n
      BY <2>1, <2>4 DEF LinksUp
    <3>2. Good(n)
      <4>1. k <= n BY <3>1, <2>0, <2>1 DEF Units
      <4> QED BY <4>1, <3>1, <2>0
    <3>3. PathFrom(c, ChainOf(c)[j], j)
      <4>1. PathFrom(c, ChainOf(c)[n], n) BY <3>2
      <4> QED BY <4>1, <2>1, <2>2, <2>4, PathGoesOn
    <3>4. ASSUME NEW p, PathFrom(c, p, j) PROVE p = ChainOf(c)[j]
      <4>1. p = <<j>> \o Tail(p) /\ PathFrom(c, Tail(p), n)
        BY <3>4, <2>1, <2>4, PathTail
      <4>2. Tail(p) = ChainOf(c)[n] BY <4>1, <3>2
      <4> HIDE DEF j
      <4> QED BY <4>1, <4>2, <2>2, <2>4
    <3>5. \A p : PathFrom(c, p, j) => p = ChainOf(c)[j]
      BY <3>4
    <3> QED BY <3>3, <3>5
  <2>5. Good(j) BY <2>3, <2>4
  <2>6. \A u \in Units : j <= u => Good(u)
    <3>1. \A u \in Units : j <= u => u = j \/ k <= u
      BY <2>0 DEF Units
    <3> HIDE DEF Good, j
    <3> QED BY <3>1, <2>5, <2>0
  <2>7. j \in T
    <3> HIDE DEF Good
    <3> QED BY <2>6, <2>1, <2>0, <1>0
  <2> QED BY <2>7, <2>0, <1>3
<1>5. \A u \in Units : Good(u)
  <2>1. \A u \in Units : 0 <= u BY <1>0 DEF Units
  <2> QED BY <1>4, <2>1
<1> QED BY <1>5

-----------------------------------------------------------------------------
(* Types.                                                                  *)
Stored == [name : Names, off : Nat, size : Nat, time : Nat]
Block == [offset : Nat, next : Nat, entries : Seq(Stored), changed : BOOLEAN]
DirCell == [kind : {"dir"}, body : Seq(Stored), num : Nat, next : Nat]
SourceFiles == [Names -> [size : Nat, time : Nat]]
Refs == [Names -> [block : Nat, place : Nat, time : Nat]]

CellTypes(c) ==
  /\ c = [u \in Units |-> c[u]]
  /\ \A u \in Units : c[u].kind = "dir" => c[u] \in DirCell /\ c[u].num <= Len(c[u].body)
  /\ \/ c[0] = Blank
     \/ c[0].kind = "root" /\ c[0].curend \in Nat /\ FirstDir < c[0].curend /\ c[0].curend <= MaxUnits

(* A directory whose blocks are linked upwards, and whose files share no    *)
(* unit with one another or with a block.                                  *)
Apart(e, f) ==
  e.size = 0 \/ f.size = 0 \/ e.off + e.size <= f.off \/ f.off + f.size <= e.off
Clear(e, o) == e.size = 0 \/ o < e.off \/ e.off + e.size <= o

Linked(ds) ==
  /\ ds \in Seq(Block) /\ Len(ds) >= 1 /\ ds[1].offset = FirstDir
  /\ \A b, d \in 1 .. Len(ds) : b < d => ds[b].offset < ds[d].offset
  /\ \A b \in 1 .. Len(ds) - 1 : ds[b].next = ds[b + 1].offset
  /\ ds[Len(ds)].next = 0
  /\ \A b \in 1 .. Len(ds) : Len(ds[b].entries) <= PerBlock

ClearOfDirs(ds) ==
  \A b, d \in 1 .. Len(ds) : \A i \in 1 .. Len(ds[b].entries) :
    FirstDir < ds[b].entries[i].off /\ Clear(ds[b].entries[i], ds[d].offset)

ApartFiles(ds) ==
  \A b, d \in 1 .. Len(ds) :
    \A i \in 1 .. Len(ds[b].entries), j \in 1 .. Len(ds[d].entries) :
      b # d \/ i # j =>
        /\ ds[b].entries[i].name # ds[d].entries[j].name
        /\ Apart(ds[b].entries[i], ds[d].entries[j])

Layout(ds) == Linked(ds) /\ ClearOfDirs(ds) /\ ApartFiles(ds)

(* The disk and a directory.                                               *)
Seen(c, u) == IF c[u].kind = "dir" THEN SubSeq(c[u].body, 1, c[u].num) ELSE <<>>
IntactIn(c, e) ==
  \A k \in 0 .. e.size - 1 :
    c[e.off + k] = [kind |-> "data", name |-> e.name, time |-> e.time, pos |-> k]
FreshEntry(c, s, e) ==
  e.time <= s[e.name].time /\ (e.time = s[e.name].time => IntactIn(c, e))
Fresh(c, s) ==
  \A u \in Units : \A i \in 1 .. Len(Seen(c, u)) : FreshEntry(c, s, Seen(c, u)[i])

NoDirs(c) == \A u \in Units : c[u].kind # "dir"
OnlyDirs(c, ds) ==
  \A u \in Units : c[u].kind = "dir" => \E b \in 1 .. Len(ds) : u = ds[b].offset
Written(c, d) ==
  c[d.offset].kind = "dir" /\ c[d.offset].next = d.next /\ Seen(c, d.offset) = d.entries
Begun(c, d) ==
  d.offset < c[0].curend \/ \E i \in 1 .. Len(d.entries) : d.offset < d.entries[i].off

DirOf(c, ds) ==
  /\ Layout(ds) /\ OnlyDirs(c, ds)
  /\ \A b \in 1 .. Len(ds) :
       ds[b].offset \in Units /\ Written(c, ds[b]) /\ ~ds[b].changed /\ Begun(c, ds[b])

DiskTidy(c) == NoDirs(c) \/ (c[0].kind = "root" /\ \E ds : DirOf(c, ds))

(* The memory of the program and the disk it is about to change.           *)
NotAhead(c, s, d) ==
  /\ d.offset \in Units
  /\ d.changed \/ Written(c, d)
  /\ c[d.offset].kind = "dir" => c[d.offset].next \in {d.next, 0}
  /\ Len(Seen(c, d.offset)) <= Len(d.entries)
  /\ \A i \in 1 .. Len(Seen(c, d.offset)) :
       /\ Seen(c, d.offset)[i].name = d.entries[i].name
       /\ Seen(c, d.offset)[i].time = s[d.entries[i].name].time =>
            Seen(c, d.offset)[i] = d.entries[i]
Behind(c, s, ds) ==
  /\ OnlyDirs(c, ds) /\ c[FirstDir].kind = "dir"
  /\ \A b \in 1 .. Len(ds) : NotAhead(c, s, ds[b])

Fits(ds, end) ==
  /\ end \in Nat /\ FirstDir < end /\ end <= MaxUnits
  /\ \A b \in 1 .. Len(ds) : ds[b].offset < end
  /\ \A b \in 1 .. Len(ds) : \A i \in 1 .. Len(ds[b].entries) :
       ds[b].entries[i].size = 0 \/ ds[b].entries[i].off + ds[b].entries[i].size <= end
MemFresh(c, s, ds) ==
  \A b \in 1 .. Len(ds) : \A i \in 1 .. Len(ds[b].entries) : FreshEntry(c, s, ds[b].entries[i])
Witnessed(c, ds, left) ==
  \A b \in 1 .. Len(ds) :
    \/ ds[b].offset < c[0].curend
    \/ \E i \in 1 .. Len(ds[b].entries) :
         ds[b].offset < ds[b].entries[i].off /\ ds[b].entries[i].name \notin left

Unlisted(ds, n) ==
  \A b \in 1 .. Len(ds) : \A i \in 1 .. Len(ds[b].entries) : ds[b].entries[i].name # n
ListedAt(ds, n, r) ==
  /\ r.block \in 1 .. Len(ds) /\ r.place \in 1 .. Len(ds[r.block].entries)
  /\ ds[r.block].entries[r.place].name = n
  /\ ds[r.block].entries[r.place].time = r.time
HashFits(ds, h, left) ==
  \A n \in left : IF h[n] = NoRef THEN Unlisted(ds, n) ELSE ListedAt(ds, n, h[n])

AllWritten(ds) == \A b \in 1 .. Len(ds) : ~ds[b].changed
HalfWritten(c, ds) ==
  /\ Changed # {}
  /\ c[ds[FirstChanged].offset].kind \in {"dir", "body"}
  /\ c[ds[FirstChanged].offset].body = ds[FirstChanged].entries

RunInv ==
  /\ cells[0].kind = "root"
  /\ Layout(dirs)
  /\ Behind(cells, source, dirs)
  /\ Fits(dirs, curend)
  /\ MemFresh(cells, source, dirs)
  /\ Witnessed(cells, dirs, todo)
  /\ HashFits(dirs, hash, todo)
  /\ phase = "add" \/ Len(dirs) = 1 \/ (phase = "update" /\ AllWritten(dirs)) =>
       DiskTidy(cells)
  /\ phase = "header" => HalfWritten(cells, dirs)

PhaseInv ==
  /\ phase \in {"out", "empty", "make", "add", "update", "header", "dead"}
  /\ phase \in {"out", "dead"} => DiskTidy(cells)
  /\ phase = "empty" => NoDirs(cells) /\ cells[0] = Blank /\ dirchanged = FALSE
  /\ phase = "make" => /\ NoDirs(cells) /\ cells[0].kind = "root"
                       /\ cells[0].curend = FirstDir + 1 /\ curend = FirstDir + 1
  /\ phase \in {"empty", "make"} => hash = [n \in Names |-> NoRef]
  /\ phase \in {"add", "update", "header"} => RunInv

TypeInv == source \in SourceFiles /\ CellTypes(cells) /\ todo \subseteq Names
KeepsFiles == TypeInv /\ Fresh(cells, source) /\ PhaseInv
BigFileInv == failures \in Nat /\ torn \in BOOLEAN /\ (failures = 0 /\ ~torn => KeepsFiles)

-----------------------------------------------------------------------------
(* A path never comes back.                                                *)
LEMMA PathRises ==
  ASSUME NEW c, LinksUp(c), NEW u, NEW p, PathFrom(c, p, u)
  PROVE  \A i, j \in 1 .. Len(p) : i < j => p[i] < p[j]
<1>1. p \in Seq(Units) /\ Len(p) \in Nat /\ MaxUnits \in Nat
  BY BigFileAssumption DEF PathFrom
<1>2. \A i \in 1 .. Len(p) : p[i] \in Nat /\ p[i] \in Units
  BY <1>1 DEF Units
<1>3. \A i \in 1 .. Len(p) - 1 : p[i] < p[i + 1]
  <2> SUFFICES ASSUME NEW i \in 1 .. Len(p) - 1 PROVE p[i] < p[i + 1]
    OBVIOUS
  <2>1. ~Ends(c, p[i]) /\ c[p[i]].next = p[i + 1]
    BY DEF PathFrom
  <2>2. p[i] \in Units BY <1>1, <1>2
  <2> QED BY <2>1, <2>2 DEF LinksUp
<1> DEFINE T == {j \in 1 .. Len(p) : \E i \in 1 .. Len(p) : i < j /\ ~(p[i] < p[j])}
<1>4. T = {}
  <2> SUFFICES ASSUME T # {} PROVE FALSE
    OBVIOUS
  <2>1. PICK j \in T : \A y \in T : j <= y
    <3>1. T \subseteq Nat BY <1>1
    <3> HIDE DEF T
    <3> QED BY <3>1, Least
  <2>2. PICK i \in 1 .. Len(p) : i < j /\ ~(p[i] < p[j])
    OBVIOUS
  <2>3. j - 1 \in 1 .. Len(p) - 1 /\ j \in 1 .. Len(p) /\ j - 1 \in 1 .. Len(p)
    BY <1>1, <2>2
  <2>4. p[j - 1] < p[j]
    BY <2>3, <1>1, <1>3
  <2>5. i = j - 1 \/ p[i] < p[j - 1]
    <3> SUFFICES ASSUME i # j - 1, ~(p[i] < p[j - 1]) PROVE FALSE
      OBVIOUS
    <3>1. i < j - 1 BY <1>1, <2>2, <2>3
    <3>2. j - 1 \in T BY <3>1, <2>3
    <3> QED BY <3>2, <2>1, <2>3, <1>1
  <2> HIDE DEF T
  <2> QED BY <2>2, <2>3, <2>4, <2>5, <1>2
<1> SUFFICES ASSUME NEW i \in 1 .. Len(p), NEW j \in 1 .. Len(p), i < j, ~(p[i] < p[j])
             PROVE  FALSE
  OBVIOUS
<1>5. j \in T
  OBVIOUS
<1> QED BY <1>4, <1>5

(* Without directory blocks there are no links.                            *)
LEMMA NoDirsLinkUp ==
  ASSUME NEW c, NoDirs(c)
  PROVE  LinksUp(c)
BY DEF NoDirs, LinksUp, Ends

(* A directory whose disk blocks have no other links than it has.          *)
LEMMA DirsLinkUp ==
  ASSUME NEW c, NEW ds, Linked(ds), OnlyDirs(c, ds),
         \A b \in 1 .. Len(ds) : /\ ds[b].offset \in Units
                                 /\ c[ds[b].offset].kind = "dir" =>
                                      c[ds[b].offset].next \in {ds[b].next, 0}
  PROVE  LinksUp(c)
<1> SUFFICES ASSUME NEW u \in Units, ~Ends(c, u)
             PROVE  c[u].next \in Units /\ u < c[u].next
  BY DEF LinksUp
<1>1. c[u].kind = "dir" /\ c[u].next # 0
  BY DEF Ends
<1>2. PICK b \in 1 .. Len(ds) : u = ds[b].offset
  BY <1>1 DEF OnlyDirs
<1>3. c[u].next = ds[b].next
  BY <1>1, <1>2
<1>4. Len(ds) \in Nat /\ b # Len(ds)
  BY <1>1, <1>3 DEF Linked
<1>5. b \in 1 .. Len(ds) - 1 /\ b + 1 \in 1 .. Len(ds) /\ b < b + 1
  BY <1>4
<1>6. ds[b].next = ds[b + 1].offset /\ ds[b].offset < ds[b + 1].offset
  BY <1>4, <1>5 DEF Linked
<1> QED BY <1>2, <1>3, <1>5, <1>6

Offsets(ds) == [b \in 1 .. Len(ds) |-> ds[b].offset]

(* A directory on the disk is linked upwards.                              *)
LEMMA DirOfLinksUp ==
  ASSUME NEW c, NEW ds, DirOf(c, ds)
  PROVE  LinksUp(c)
<1>1. Linked(ds) /\ OnlyDirs(c, ds)
  BY DEF DirOf, Layout
<1>2. \A b \in 1 .. Len(ds) : /\ ds[b].offset \in Units
                              /\ c[ds[b].offset].kind = "dir" =>
                                   c[ds[b].offset].next \in {ds[b].next, 0}
  BY DEF DirOf, Written
<1> QED BY <1>1, <1>2, DirsLinkUp

(* The blocks of a directory on the disk are the path from the first one.  *)
LEMMA DirOfPath ==
  ASSUME NEW c, NEW ds, DirOf(c, ds)
  PROVE  PathFrom(c, Offsets(ds), FirstDir)
<1> DEFINE p == Offsets(ds)
<1>1. Linked(ds) /\ ds \in Seq(Block) /\ Len(ds) \in Nat /\ Len(ds) >= 1
  BY DEF DirOf, Layout, Linked
<1>2. \A b \in 1 .. Len(ds) : ds[b].offset \in Units
  BY DEF DirOf
<1>3. p \in Seq(Units) /\ Len(p) = Len(ds)
  BY <1>1, <1>2 DEF Offsets
<1>4. \A b \in 1 .. Len(ds) : p[b] = ds[b].offset
  BY DEF Offsets
<1>5. p[1] = FirstDir
  BY <1>1, <1>4 DEF Linked
<1>6. ASSUME NEW i \in 1 .. Len(p) - 1
      PROVE  ~Ends(c, p[i]) /\ c[p[i]].next = p[i + 1]
  <2>1. i \in 1 .. Len(ds) - 1 /\ i \in 1 .. Len(ds) /\ i + 1 \in 1 .. Len(ds) /\ i < i + 1
    BY <1>1, <1>3
  <2>2. p[i] = ds[i].offset /\ p[i + 1] = ds[i + 1].offset
    BY <2>1, <1>4
  <2>3. ds[i].next = ds[i + 1].offset
    BY <2>1, <1>1 DEF Linked
  <2>4. c[ds[i].offset].kind = "dir" /\ c[ds[i].offset].next = ds[i].next
    BY <2>1 DEF DirOf, Written
  <2>5. ds[1].offset = 1 /\ ds[1].offset < ds[i + 1].offset
    BY <2>1, <1>1 DEF Linked, FirstDir
  <2>6. ds[i + 1].offset # 0
    BY <2>5, <2>1, <1>2 DEF Units
  <2> QED BY <2>2, <2>3, <2>4, <2>6 DEF Ends
<1>7. Ends(c, p[Len(p)])
  <2>1. Len(ds) \in 1 .. Len(ds) BY <1>1
  <2>2. c[ds[Len(ds)].offset].next = ds[Len(ds)].next
    BY <2>1 DEF DirOf, Written
  <2>3. ds[Len(ds)].next = 0 BY <1>1 DEF Linked
  <2>4. p[Len(p)] = ds[Len(ds)].offset BY <2>1, <1>3, <1>4
  <2> QED BY <2>2, <2>3, <2>4 DEF Ends
<1> HIDE DEF p
<1> QED BY <1>1, <1>3, <1>5, <1>6, <1>7 DEF PathFrom, p
-----------------------------------------------------------------------------
BlocksOf(c) == IF c[0].kind = "root" THEN ChainOf(c)[FirstDir] ELSE <<>>
LoadedOf(c) ==
  [b \in 1 .. Len(BlocksOf(c)) |->
     [offset |-> BlocksOf(c)[b], next |-> c[BlocksOf(c)[b]].next,
      entries |-> Seen(c, BlocksOf(c)[b]), changed |-> FALSE]]

(* What the module calls the disk's directory, as operators of the units.  *)
LEMMA OnTheDisk ==
  /\ DiskBlocks = BlocksOf(cells) /\ LoadedDirs = LoadedOf(cells)
  /\ \A u : Visible(u) = Seen(cells, u)
<1>1. DiskBlocks = BlocksOf(cells)
  BY ChainNow DEF DiskBlocks, BlocksOf
<1>2. \A u : Visible(u) = Seen(cells, u)
  BY DEF Visible, Seen
<1>3. LoadedDirs = LoadedOf(cells)
  BY <1>1, <1>2 DEF LoadedDirs, LoadedOf
<1> QED BY <1>1, <1>2, <1>3

(* The root header and the first directory block have units.               *)
LEMMA UnitOne == FirstDir \in Units /\ 0 \in Units
BY BigFileAssumption DEF FirstDir, Units

(* The blocks that Load finds are those of the directory.                  *)
LEMMA DirOfLoads ==
  ASSUME NEW c, NEW ds, c[0].kind = "root", DirOf(c, ds)
  PROVE  BlocksOf(c) = Offsets(ds) /\ LoadedOf(c) = ds
<1>1. BlocksOf(c) = Offsets(ds)
  BY DirOfLinksUp, DirOfPath, ChainIsThePath, UnitOne DEF BlocksOf
<1>2. ds \in Seq(Block) /\ Len(ds) \in Nat
  BY DEF DirOf, Layout, Linked
<1>3. /\ Len(Offsets(ds)) = Len(ds)
      /\ \A b \in 1 .. Len(ds) : Offsets(ds)[b] = ds[b].offset
  BY <1>2 DEF Offsets
<1>4. ASSUME NEW b \in 1 .. Len(ds)
      PROVE  ds[b] = [offset |-> Offsets(ds)[b], next |-> c[Offsets(ds)[b]].next,
                      entries |-> Seen(c, Offsets(ds)[b]), changed |-> FALSE]
  <2>1. ds[b] \in Block BY <1>2
  <2>2. ds[b] = [offset |-> ds[b].offset, next |-> ds[b].next,
                 entries |-> ds[b].entries, changed |-> ds[b].changed]
    BY <2>1 DEF Block
  <2>3. c[ds[b].offset].next = ds[b].next /\ Seen(c, ds[b].offset) = ds[b].entries
    BY DEF DirOf, Written
  <2>4. ds[b].changed \in BOOLEAN
    BY <2>1 DEF Block
  <2>5. ds[b].changed = FALSE
    BY <2>4 DEF DirOf
  <2>6. Offsets(ds)[b] = ds[b].offset
    BY <1>3
  <2> QED BY <2>2, <2>3, <2>5, <2>6
<1>5. ds = [b \in 1 .. Len(ds) |-> ds[b]]
  BY <1>2
<1>6. LoadedOf(c) = [b \in 1 .. Len(ds) |-> ds[b]]
  BY <1>1, <1>3, <1>4 DEF LoadedOf
<1> QED BY <1>1, <1>5, <1>6

(* Links go upwards on a tidy disk.                                        *)
LEMMA TidyLinksUp ==
  ASSUME NEW c, DiskTidy(c)
  PROVE  LinksUp(c)
BY NoDirsLinkUp, DirOfLinksUp DEF DiskTidy

(* So do they when the disk is behind the memory.                          *)
LEMMA BehindLinksUp ==
  ASSUME NEW c, NEW s, NEW ds, Linked(ds), Behind(c, s, ds)
  PROVE  LinksUp(c)
<1>1. \A b \in 1 .. Len(ds) : /\ ds[b].offset \in Units
                              /\ c[ds[b].offset].kind = "dir" =>
                                   c[ds[b].offset].next \in {ds[b].next, 0}
  BY DEF Behind, NotAhead
<1> QED BY <1>1, DirsLinkUp DEF Behind

-----------------------------------------------------------------------------
(* What the properties say, of cells that are linked upwards.              *)
LEMMA BlocksAreUnits ==
  ASSUME NEW c, LinksUp(c)
  PROVE  /\ BlocksOf(c) \in Seq(Units)
         /\ \A i, j \in 1 .. Len(BlocksOf(c)) : i < j => BlocksOf(c)[i] < BlocksOf(c)[j]
<1>1. CASE c[0].kind = "root"
  <2>1. PathFrom(c, ChainOf(c)[FirstDir], FirstDir)
    BY ChainIsThePath, UnitOne
  <2>2. BlocksOf(c) = ChainOf(c)[FirstDir]
    BY <1>1 DEF BlocksOf
  <2>3. BlocksOf(c) \in Seq(Units)
    BY <2>1, <2>2 DEF PathFrom
  <2> QED BY <2>1, <2>2, <2>3, PathRises
<1>2. CASE c[0].kind # "root"
  <2>1. BlocksOf(c) = <<>> BY <1>2 DEF BlocksOf
  <2> QED BY <2>1
<1> QED BY <1>1, <1>2

(* UpToDateIsIntact follows from what is said of the single units.         *)
LEMMA FreshIsIntact ==
  LinksUp(cells) /\ Fresh(cells, source) =>
    \A e \in DiskEntries : e.time = source[e.name].time => Intact(e)
<1> SUFFICES ASSUME LinksUp(cells), Fresh(cells, source),
                    NEW e \in DiskEntries, e.time = source[e.name].time
             PROVE  Intact(e)
  OBVIOUS
<1>1. PICK b \in 1 .. Len(DiskBlocks) : \E i \in 1 .. Len(Visible(DiskBlocks[b])) :
        e = Visible(DiskBlocks[b])[i]
  BY DEF DiskEntries
<1>2. PICK i \in 1 .. Len(Visible(DiskBlocks[b])) : e = Visible(DiskBlocks[b])[i]
  BY <1>1
<1>3. DiskBlocks \in Seq(Units)
  BY BlocksAreUnits, OnTheDisk
<1>4. DiskBlocks[b] \in Units
  BY <1>3
<1>5. FreshEntry(cells, source, e)
  BY <1>2, <1>4, OnTheDisk DEF Fresh
<1> QED BY <1>5 DEF FreshEntry, IntactIn, Intact

NamesAgree(c, ds) ==
  \A b \in 1 .. Len(ds) :
    /\ Len(Seen(c, ds[b].offset)) <= Len(ds[b].entries)
    /\ \A i \in 1 .. Len(Seen(c, ds[b].offset)) :
         Seen(c, ds[b].offset)[i].name = ds[b].entries[i].name

(* The entries that can be seen are the first ones of the body.            *)
LEMMA SeenIsSeq ==
  ASSUME NEW c, CellTypes(c), NEW u \in Units
  PROVE  /\ Seen(c, u) \in Seq(Stored)
         /\ c[u].kind = "dir" =>
              /\ Len(Seen(c, u)) = c[u].num
              /\ \A i \in 1 .. c[u].num : Seen(c, u)[i] = c[u].body[i]
         /\ c[u].kind # "dir" => Seen(c, u) = <<>>
<1>1. CASE c[u].kind = "dir"
  <2>1. c[u] \in DirCell /\ c[u].num <= Len(c[u].body)
    BY <1>1 DEF CellTypes
  <2>2. c[u].body \in Seq(Stored) /\ c[u].num \in Nat /\ Len(c[u].body) \in Nat
    BY <2>1 DEF DirCell
  <2>3. PICK p \in Seq(Stored) : p = c[u].body
    BY <2>2
  <2>4. PICK k \in Nat : k = c[u].num
    BY <2>2
  <2>5. k <= Len(p) /\ Len(p) \in Nat
    BY <2>1, <2>3, <2>4
  <2>6. /\ SubSeq(p, 1, k) \in Seq(Stored) /\ Len(SubSeq(p, 1, k)) = k
        /\ \A i \in 1 .. k : SubSeq(p, 1, k)[i] = p[i]
    BY <2>5
  <2>7. Seen(c, u) = SubSeq(p, 1, k)
    BY <1>1, <2>3, <2>4 DEF Seen
  <2> QED BY <1>1, <2>3, <2>4, <2>6, <2>7
<1>2. CASE c[u].kind # "dir"
  BY <1>2 DEF Seen
<1> QED BY <1>1, <1>2

(* A number of a range is one of a wider range.                            *)
LEMMA WiderRange ==
  \A m, n \in Nat : m <= n => \A k \in 1 .. m : k \in 1 .. n
OBVIOUS

(* NoDuplicates follows when the directory on the disk has the names of    *)
(* one in memory.                                                          *)
LEMMA NoNameTwice ==
  ASSUME LinksUp(cells), CellTypes(cells), NEW ds, ds \in Seq(Block),
         OnlyDirs(cells, ds), NamesAgree(cells, ds), ApartFiles(ds)
  PROVE  NoDuplicates
<1> SUFFICES ASSUME NEW b \in 1 .. Len(DiskBlocks), NEW d \in 1 .. Len(DiskBlocks),
                    NEW i \in 1 .. Len(Visible(DiskBlocks[b])),
                    NEW j \in 1 .. Len(Visible(DiskBlocks[d])),
                    Visible(DiskBlocks[b])[i].name = Visible(DiskBlocks[d])[j].name
             PROVE  b = d /\ i = j
  BY DEF NoDuplicates
<1>1. /\ DiskBlocks \in Seq(Units)
      /\ \A x, y \in 1 .. Len(DiskBlocks) : x < y => DiskBlocks[x] < DiskBlocks[y]
  BY BlocksAreUnits, OnTheDisk
<1>2. PICK u \in Units : u = DiskBlocks[b]
  BY <1>1
<1>3. PICK v \in Units : v = DiskBlocks[d]
  BY <1>1
<1>4. /\ i \in 1 .. Len(Seen(cells, u)) /\ j \in 1 .. Len(Seen(cells, v))
      /\ Seen(cells, u)[i].name = Seen(cells, v)[j].name
  BY <1>2, <1>3, OnTheDisk
<1>5. cells[u].kind = "dir" /\ cells[v].kind = "dir"
  BY <1>4 DEF Seen
<1>6. PICK x \in 1 .. Len(ds) : u = ds[x].offset
  BY <1>5 DEF OnlyDirs
<1>7. PICK y \in 1 .. Len(ds) : v = ds[y].offset
  BY <1>5 DEF OnlyDirs
<1>8. Len(ds[x].entries) \in Nat /\ Len(ds[y].entries) \in Nat
  <2>1. ds[x] \in Block /\ ds[y] \in Block
    OBVIOUS
  <2>2. ds[x].entries \in Seq(Stored) /\ ds[y].entries \in Seq(Stored)
    BY <2>1 DEF Block
  <2> QED BY <2>2, LenProperties
<1>9. Len(Seen(cells, u)) \in Nat /\ Len(Seen(cells, v)) \in Nat
  BY SeenIsSeq
<1>10. i \in 1 .. Len(ds[x].entries) /\ j \in 1 .. Len(ds[y].entries)
  <2>1. Len(Seen(cells, u)) <= Len(ds[x].entries) /\ Len(Seen(cells, v)) <= Len(ds[y].entries)
    BY <1>6, <1>7 DEF NamesAgree
  <2> QED BY <1>4, <1>8, <1>9, <2>1, WiderRange
<1>11. ds[x].entries[i].name = ds[y].entries[j].name
  BY <1>4, <1>6, <1>7 DEF NamesAgree
<1>12. x = y /\ i = j
  BY <1>10, <1>11 DEF ApartFiles
<1>13. u = v
  BY <1>6, <1>7, <1>12
<1>14. b = d
  <2>1. b \in Nat /\ d \in Nat /\ u \in Nat
    BY <1>1 DEF Units
  <2>2. ~(DiskBlocks[b] < DiskBlocks[d]) /\ ~(DiskBlocks[d] < DiskBlocks[b])
    BY <1>2, <1>3, <1>13, <2>1
  <2>3. ~(b < d)
    BY <1>1, <2>2
  <2>4. ~(d < b)
    BY <1>1, <2>2
  <2> QED BY <2>1, <2>3, <2>4
<1> QED BY <1>12, <1>14
-----------------------------------------------------------------------------
(* Writes that leave the directory on the disk alone.                      *)
SameDirs(c, c2) ==
  /\ c2[0] = c[0]
  /\ \A u \in Units : c[u].kind = "dir" \/ c2[u].kind = "dir" => c2[u] = c[u]

(* A write that leaves the directory alone keeps what can be seen of it.   *)
LEMMA SameSeen ==
  ASSUME NEW c, NEW c2, SameDirs(c, c2), NEW u \in Units
  PROVE  (c2[u].kind = "dir" <=> c[u].kind = "dir") /\ Seen(c2, u) = Seen(c, u)
<1>1. CASE c[u].kind = "dir" \/ c2[u].kind = "dir"
  <2>1. c2[u] = c[u] BY <1>1 DEF SameDirs
  <2> QED BY <2>1 DEF Seen
<1>2. CASE c[u].kind # "dir" /\ c2[u].kind # "dir"
  BY <1>2 DEF Seen
<1> QED BY <1>1, <1>2

(* A block that is written stays written.                                  *)
LEMMA SameWritten ==
  ASSUME NEW c, NEW c2, SameDirs(c, c2), NEW d, d.offset \in Units, Written(c, d)
  PROVE  Written(c2, d)
BY SameSeen DEF Written, SameDirs

(* A directory on the disk stays one, and a tidy disk tidy.                *)
LEMMA SameDirOf ==
  ASSUME NEW c, NEW c2, SameDirs(c, c2), NEW ds, DirOf(c, ds)
  PROVE  DirOf(c2, ds)
<1>1. c2[0] = c[0]
  BY DEF SameDirs
<1>2. OnlyDirs(c2, ds)
  BY SameSeen DEF OnlyDirs, DirOf
<1>3. ASSUME NEW b \in 1 .. Len(ds)
      PROVE  /\ ds[b].offset \in Units /\ Written(c2, ds[b])
             /\ ~ds[b].changed /\ Begun(c2, ds[b])
  <2>1. ds[b].offset \in Units /\ Written(c, ds[b]) /\ ~ds[b].changed /\ Begun(c, ds[b])
    BY DEF DirOf
  <2>2. Written(c2, ds[b])
    BY <2>1, SameWritten
  <2> QED BY <2>1, <2>2, <1>1 DEF Begun
<1> QED BY <1>2, <1>3 DEF DirOf

(* A tidy disk stays tidy.                                                 *)
LEMMA SameTidy ==
  ASSUME NEW c, NEW c2, SameDirs(c, c2), DiskTidy(c)
  PROVE  DiskTidy(c2)
<1>1. CASE NoDirs(c)
  BY <1>1, SameSeen DEF NoDirs, DiskTidy
<1>2. CASE c[0].kind = "root" /\ \E ds : DirOf(c, ds)
  BY <1>2, SameDirOf DEF DiskTidy, SameDirs
<1> QED BY <1>1, <1>2 DEF DiskTidy

(* A block stays behind the memory.                                        *)
LEMMA SameNotAhead ==
  ASSUME NEW c, NEW c2, SameDirs(c, c2), NEW s, NEW d, NotAhead(c, s, d)
  PROVE  NotAhead(c2, s, d)
<1>1. d.offset \in Units
  BY DEF NotAhead
<1>2. Seen(c2, d.offset) = Seen(c, d.offset) /\ (c2[d.offset].kind = "dir" <=> c[d.offset].kind = "dir")
  BY <1>1, SameSeen
<1>3. d.changed \/ Written(c2, d)
  BY <1>1, SameWritten DEF NotAhead
<1>4. c2[d.offset].kind = "dir" => c2[d.offset].next \in {d.next, 0}
  BY <1>1, <1>2 DEF NotAhead, SameDirs
<1> QED BY <1>1, <1>2, <1>3, <1>4 DEF NotAhead

(* The disk stays behind the memory.                                       *)
LEMMA SameBehind ==
  ASSUME NEW c, NEW c2, SameDirs(c, c2), NEW s, NEW ds, Behind(c, s, ds)
  PROVE  Behind(c2, s, ds)
<1>1. OnlyDirs(c2, ds)
  BY SameSeen DEF OnlyDirs, Behind
<1>2. c2[FirstDir].kind = "dir"
  BY SameSeen, UnitOne DEF Behind
<1>3. \A b \in 1 .. Len(ds) : NotAhead(c2, s, ds[b])
  BY SameNotAhead DEF Behind
<1> QED BY <1>1, <1>2, <1>3 DEF Behind

(* Copying (a part of) a file.                                             *)
Copied(c, s, n, off, k) ==
  [u \in Units |-> IF u \in off .. off + k - 1
                   THEN [kind |-> "data", name |-> n, time |-> s[n].time, pos |-> u - off]
                   ELSE c[u]]

(* Copying the data of a file, as an operator of the units.                *)
LEMMA CopyIsCopied ==
  \A n, off, k : Copy(n, off, k) <=> cells' = Copied(cells, source, n, off, k)
BY DEF Copy, Data, Copied

(* Data written where there is no directory block leaves the directory     *)
(* alone.                                                                  *)
LEMMA CopyKeepsDirs ==
  ASSUME NEW c, CellTypes(c), NEW s, NEW n, NEW off \in Nat, NEW k \in Nat, FirstDir < off,
         \A u \in Units : c[u].kind = "dir" => u \notin off .. off + k - 1
  PROVE  CellTypes(Copied(c, s, n, off, k)) /\ SameDirs(c, Copied(c, s, n, off, k))
<1> DEFINE c2 == Copied(c, s, n, off, k)
<1>1. \A u \in Units : u \notin off .. off + k - 1 => c2[u] = c[u]
  BY DEF Copied
<1>2. \A u \in Units : u \in off .. off + k - 1 => c2[u].kind = "data"
  BY DEF Copied
<1>3. c2[0] = c[0]
  <2>1. 0 \notin off .. off + k - 1 BY DEF FirstDir
  <2> QED BY <2>1, <1>1, UnitOne
<1>4. \A u \in Units : c[u].kind = "dir" \/ c2[u].kind = "dir" => c2[u] = c[u]
  BY <1>1, <1>2
<1>5. c2 = [u \in Units |-> c2[u]]
  BY DEF Copied
<1> HIDE DEF c2
<1>6. SameDirs(c, c2)
  BY <1>3, <1>4 DEF SameDirs
<1>7. CellTypes(c2)
  BY <1>3, <1>4, <1>5 DEF CellTypes
<1> QED BY <1>6, <1>7 DEF c2

(* Data written elsewhere leaves a stored file alone.                      *)
LEMMA CopyKeepsFile ==
  ASSUME NEW c, NEW s, NEW n, NEW off \in Nat, NEW k \in Nat,
         NEW f \in Stored, IntactIn(c, f),
         f.size = 0 \/ f.off + f.size <= MaxUnits,
         f.size = 0 \/ k = 0 \/ off + k <= f.off \/ f.off + f.size <= off
  PROVE  IntactIn(Copied(c, s, n, off, k), f)
<1> DEFINE c2 == Copied(c, s, n, off, k)
<1>1. f.off \in Nat /\ f.size \in Nat /\ MaxUnits \in Nat
  BY BigFileAssumption DEF Stored
<1> SUFFICES ASSUME NEW j \in 0 .. f.size - 1
             PROVE  c2[f.off + j] = [kind |-> "data", name |-> f.name, time |-> f.time, pos |-> j]
  BY DEF IntactIn
<1>2. f.off + j \in Units /\ f.off + j \notin off .. off + k - 1
  BY <1>1 DEF Units
<1>3. c2[f.off + j] = c[f.off + j]
  BY <1>2 DEF Copied
<1> QED BY <1>3 DEF IntactIn

(* All of the data of a file makes its entry intact.                       *)
LEMMA CopyWrites ==
  ASSUME NEW c, NEW s, NEW off \in Nat, NEW e, e.off = off, e.size \in Nat,
         e.time = s[e.name].time, e.size = 0 \/ off + e.size <= MaxUnits
  PROVE  IntactIn(Copied(c, s, e.name, off, e.size), e)
<1> DEFINE c2 == Copied(c, s, e.name, off, e.size)
<1> SUFFICES ASSUME NEW j \in 0 .. e.size - 1
             PROVE  c2[e.off + j] = [kind |-> "data", name |-> e.name, time |-> e.time, pos |-> j]
  BY DEF IntactIn
<1>1. MaxUnits \in Nat
  BY BigFileAssumption
<1>2. off + j \in Units /\ off + j \in off .. off + e.size - 1 /\ (off + j) - off = j
  BY <1>1 DEF Units
<1> QED BY <1>2 DEF Copied

-----------------------------------------------------------------------------
(* The types of the fields of an entry.                                    *)
LEMMA StoredTypes ==
  \A e \in Stored : e.name \in Names /\ e.off \in Nat /\ e.size \in Nat /\ e.time \in Nat
BY DEF Stored

(* The types of a block's fields.                                          *)
LEMMA BlockTypes ==
  ASSUME NEW ds, ds \in Seq(Block), NEW b \in 1 .. Len(ds)
  PROVE  /\ ds[b] \in Block /\ ds[b].offset \in Nat /\ ds[b].next \in Nat
         /\ ds[b].changed \in BOOLEAN
         /\ ds[b].entries \in Seq(Stored) /\ Len(ds[b].entries) \in Nat
         /\ \A i \in 1 .. Len(ds[b].entries) : ds[b].entries[i] \in Stored
<1>1. ds[b] \in Block
  OBVIOUS
<1>2. /\ ds[b].offset \in Nat /\ ds[b].next \in Nat /\ ds[b].changed \in BOOLEAN
      /\ ds[b].entries \in Seq(Stored)
  BY <1>1 DEF Block
<1>3. PICK p \in Seq(Stored) : p = ds[b].entries
  BY <1>2
<1>4. Len(p) \in Nat /\ \A i \in 1 .. Len(p) : p[i] \in Stored
  BY LenProperties
<1> QED BY <1>1, <1>2, <1>3, <1>4

(* The types of an entry's fields.                                         *)
LEMMA EntryTypes ==
  ASSUME NEW ds, ds \in Seq(Block), NEW b \in 1 .. Len(ds), NEW i \in 1 .. Len(ds[b].entries)
  PROVE  /\ ds[b].entries[i] \in Stored /\ ds[b].entries[i].name \in Names
         /\ ds[b].entries[i].off \in Nat /\ ds[b].entries[i].size \in Nat
         /\ ds[b].entries[i].time \in Nat
BY BlockTypes, StoredTypes

(* One entry is replaced.                                                  *)
ReplacedIn(ds, b0, i0, e) == [ds EXCEPT ![b0] = WithEntry(@, i0, e)]

(* What replacing an entry changes.                                        *)
IsReplaced(ds, ds2, b0, i0, e) ==
  /\ ds2 \in Seq(Block) /\ Len(ds2) = Len(ds)
  /\ \A b \in 1 .. Len(ds) :
       /\ ds2[b].offset = ds[b].offset /\ ds2[b].next = ds[b].next
       /\ Len(ds2[b].entries) = Len(ds[b].entries)
       /\ b # b0 => ds2[b] = ds[b]
       /\ \A i \in 1 .. Len(ds[b].entries) :
            b # b0 \/ i # i0 => ds2[b].entries[i] = ds[b].entries[i]
  /\ ds2[b0].changed = TRUE /\ ds2[b0].entries[i0] = e

(* WithEntry, as a record.                                                 *)
LEMMA WithEntryIs ==
  ASSUME NEW r \in Block, NEW place, NEW e, NEW y,
         y = [offset |-> r.offset, next |-> r.next,
              entries |-> [r.entries EXCEPT ![place] = e], changed |-> TRUE]
  PROVE  WithEntry(r, place, e) = y
<1> DEFINE x == WithEntry(r, place, e)
<1>1. DOMAIN x = {"offset", "next", "entries", "changed"} /\ DOMAIN y = DOMAIN x
  BY DEF Block, WithEntry
<1>2. x.offset = y.offset /\ x.next = y.next /\ x.entries = y.entries /\ x.changed = y.changed
  BY DEF Block, WithEntry
<1> QED BY <1>1, <1>2 DEF WithEntry

(* Replacing an entry changes that entry and nothing else.                 *)
LEMMA ReplacedFacts ==
  ASSUME NEW ds, ds \in Seq(Block), NEW b0 \in 1 .. Len(ds),
         NEW i0 \in 1 .. Len(ds[b0].entries), NEW e \in Stored
  PROVE  IsReplaced(ds, ReplacedIn(ds, b0, i0, e), b0, i0, e)
<1> DEFINE p == [ds[b0].entries EXCEPT ![i0] = e]
           d == WithEntry(ds[b0], i0, e)
           ds2 == ReplacedIn(ds, b0, i0, e)
<1>1. /\ ds[b0] \in Block /\ ds[b0].entries \in Seq(Stored)
      /\ Len(ds[b0].entries) \in Nat /\ Len(ds) \in Nat
  BY BlockTypes
<1>2. /\ p \in Seq(Stored) /\ Len(p) = Len(ds[b0].entries) /\ p[i0] = e
      /\ \A i \in 1 .. Len(ds[b0].entries) : i # i0 => p[i] = ds[b0].entries[i]
  <2>1. PICK q \in Seq(Stored) : q = ds[b0].entries
    BY <1>1
  <2>2. i0 \in 1 .. Len(q) BY <2>1
  <2>3. /\ [q EXCEPT ![i0] = e] \in Seq(Stored) /\ Len([q EXCEPT ![i0] = e]) = Len(q)
        /\ [q EXCEPT ![i0] = e][i0] = e
        /\ \A i \in 1 .. Len(q) : i # i0 => [q EXCEPT ![i0] = e][i] = q[i]
    BY <2>2, ExceptSeq
  <2> QED BY <2>1, <2>3
<1>3. /\ d \in Block /\ d.offset = ds[b0].offset /\ d.next = ds[b0].next
      /\ d.entries = p /\ d.changed = TRUE
  <2>1. d = [offset |-> ds[b0].offset, next |-> ds[b0].next, entries |-> p, changed |-> TRUE]
    BY <1>1, WithEntryIs
  <2>2. ds[b0].offset \in Nat /\ ds[b0].next \in Nat
    BY BlockTypes
  <2> HIDE DEF d, p
  <2> QED BY <1>2, <2>1, <2>2 DEF Block
<1>4. ds2 = [ds EXCEPT ![b0] = d]
  BY DEF ReplacedIn
<1> HIDE DEF d, ds2, p
<1>5. /\ ds2 \in Seq(Block) /\ Len(ds2) = Len(ds) /\ ds2[b0] = d
      /\ \A b \in 1 .. Len(ds) : b # b0 => ds2[b] = ds[b]
  BY <1>3, <1>4, ExceptSeq
<1>6. \A b \in 1 .. Len(ds) :
        /\ ds2[b].offset = ds[b].offset /\ ds2[b].next = ds[b].next
        /\ Len(ds2[b].entries) = Len(ds[b].entries)
        /\ b # b0 => ds2[b] = ds[b]
        /\ \A i \in 1 .. Len(ds[b].entries) : b # b0 \/ i # i0 => ds2[b].entries[i] = ds[b].entries[i]
  BY <1>2, <1>3, <1>5
<1>7. ds2[b0].changed = TRUE /\ ds2[b0].entries[i0] = e
  BY <1>2, <1>3, <1>5
<1> QED BY <1>5, <1>6, <1>7 DEF ds2, IsReplaced

(* A place that is free for an entry, in a bigfile that then ends at end.   *)
FreeFor(ds, b0, i0, off, size) ==
  /\ \A d \in 1 .. Len(ds) : size = 0 \/ ds[d].offset < off \/ off + size <= ds[d].offset
  /\ \A d \in 1 .. Len(ds) : \A j \in 1 .. Len(ds[d].entries) :
       d # b0 \/ j # i0 =>
         \/ size = 0 \/ ds[d].entries[j].size = 0
         \/ off + size <= ds[d].entries[j].off
         \/ ds[d].entries[j].off + ds[d].entries[j].size <= off
EndsBy(ds, b0, i0, end) ==
  /\ end \in Nat /\ FirstDir < end /\ end <= MaxUnits
  /\ \A d \in 1 .. Len(ds) : ds[d].offset < end
  /\ \A d \in 1 .. Len(ds) : \A j \in 1 .. Len(ds[d].entries) :
       d # b0 \/ j # i0 =>
         ds[d].entries[j].size = 0 \/ ds[d].entries[j].off + ds[d].entries[j].size <= end

(* A replaced entry whose data has free space keeps the layout.            *)
LEMMA ReplacedLayout ==
  ASSUME NEW ds, Layout(ds), NEW b0 \in 1 .. Len(ds),
         NEW i0 \in 1 .. Len(ds[b0].entries), NEW e \in Stored,
         e.name = ds[b0].entries[i0].name, FirstDir < e.off,
         FreeFor(ds, b0, i0, e.off, e.size), NEW ds2, IsReplaced(ds, ds2, b0, i0, e)
  PROVE  Layout(ds2)
<1>1. ds \in Seq(Block) /\ Len(ds) \in Nat /\ Len(ds) >= 1
  BY DEF Layout, Linked
<1>2. /\ ds2 \in Seq(Block) /\ Len(ds2) = Len(ds)
      /\ \A b \in 1 .. Len(ds) :
           /\ ds2[b].offset = ds[b].offset /\ ds2[b].next = ds[b].next
           /\ Len(ds2[b].entries) = Len(ds[b].entries)
           /\ \A i \in 1 .. Len(ds[b].entries) :
                b # b0 \/ i # i0 => ds2[b].entries[i] = ds[b].entries[i]
      /\ ds2[b0].entries[i0] = e
  BY DEF IsReplaced
<1>3. Linked(ds2)
  <2>1. 1 \in 1 .. Len(ds) /\ Len(ds) \in 1 .. Len(ds)
    BY <1>1
  <2>2. \A b \in 1 .. Len(ds) - 1 : b \in 1 .. Len(ds) /\ b + 1 \in 1 .. Len(ds)
    BY <1>1
  <2>3. ds2[1].offset = FirstDir /\ ds2[Len(ds2)].next = 0
    BY <1>2, <2>1 DEF Layout, Linked
  <2>4. \A b, d \in 1 .. Len(ds2) : b < d => ds2[b].offset < ds2[d].offset
    BY <1>2 DEF Layout, Linked
  <2>5. \A b \in 1 .. Len(ds2) - 1 : ds2[b].next = ds2[b + 1].offset
    BY <1>2, <2>2 DEF Layout, Linked
  <2>6. \A b \in 1 .. Len(ds2) : Len(ds2[b].entries) <= PerBlock
    BY <1>2 DEF Layout, Linked
  <2> QED BY <1>1, <1>2, <2>3, <2>4, <2>5, <2>6 DEF Linked
<1>4. e.off \in Nat /\ e.size \in Nat
  BY StoredTypes
<1>5. ClearOfDirs(ds2)
  <2> SUFFICES ASSUME NEW b \in 1 .. Len(ds), NEW d \in 1 .. Len(ds),
                      NEW i \in 1 .. Len(ds[b].entries)
               PROVE  FirstDir < ds2[b].entries[i].off /\ Clear(ds2[b].entries[i], ds2[d].offset)
    BY <1>2 DEF ClearOfDirs
  <2>1. CASE b = b0 /\ i = i0
    <3>1. ds2[b].entries[i] = e /\ ds2[d].offset = ds[d].offset BY <2>1, <1>2
    <3>2. Clear(e, ds[d].offset)
      BY DEF FreeFor, Clear
    <3> QED BY <3>1, <3>2
  <2>2. CASE ~(b = b0 /\ i = i0)
    <3>1. ds2[b].entries[i] = ds[b].entries[i] /\ ds2[d].offset = ds[d].offset BY <2>2, <1>2
    <3>2. FirstDir < ds[b].entries[i].off /\ Clear(ds[b].entries[i], ds[d].offset)
      BY DEF Layout, ClearOfDirs
    <3> QED BY <3>1, <3>2
  <2> QED BY <2>1, <2>2
<1>6. \A d \in 1 .. Len(ds) : \A j \in 1 .. Len(ds[d].entries) :
        d # b0 \/ j # i0 => /\ e.name # ds[d].entries[j].name
                            /\ Apart(e, ds[d].entries[j]) /\ Apart(ds[d].entries[j], e)
  <2> SUFFICES ASSUME NEW d \in 1 .. Len(ds), NEW j \in 1 .. Len(ds[d].entries),
                      d # b0 \/ j # i0
               PROVE  /\ e.name # ds[d].entries[j].name
                      /\ Apart(e, ds[d].entries[j]) /\ Apart(ds[d].entries[j], e)
    OBVIOUS
  <2>1. e.name # ds[d].entries[j].name
    BY DEF Layout, ApartFiles
  <2>2. Apart(e, ds[d].entries[j]) /\ Apart(ds[d].entries[j], e)
    BY DEF FreeFor, Apart
  <2> QED BY <2>1, <2>2
<1>7. ApartFiles(ds2)
  <2> SUFFICES ASSUME NEW b \in 1 .. Len(ds2), NEW d \in 1 .. Len(ds2),
                      NEW i \in 1 .. Len(ds2[b].entries), NEW j \in 1 .. Len(ds2[d].entries),
                      b # d \/ i # j
               PROVE  /\ ds2[b].entries[i].name # ds2[d].entries[j].name
                      /\ Apart(ds2[b].entries[i], ds2[d].entries[j])
    BY DEF ApartFiles
  <2>0. /\ b \in 1 .. Len(ds) /\ d \in 1 .. Len(ds)
        /\ i \in 1 .. Len(ds[b].entries) /\ j \in 1 .. Len(ds[d].entries)
    BY <1>2
  <2>1. CASE b = b0 /\ i = i0
    <3>1. ds2[b].entries[i] = e /\ ds2[d].entries[j] = ds[d].entries[j] BY <2>0, <2>1, <1>2
    <3> QED BY <2>0, <3>1, <2>1, <1>6
  <2>2. CASE d = b0 /\ j = i0
    <3>1. ds2[d].entries[j] = e /\ ds2[b].entries[i] = ds[b].entries[i] BY <2>0, <2>2, <1>2
    <3> QED BY <2>0, <3>1, <2>2, <1>6
  <2>3. CASE ~(b = b0 /\ i = i0) /\ ~(d = b0 /\ j = i0)
    <3>1. ds2[d].entries[j] = ds[d].entries[j] /\ ds2[b].entries[i] = ds[b].entries[i]
      BY <2>0, <2>3, <1>2
    <3> QED BY <2>0, <3>1 DEF Layout, ApartFiles
  <2> QED BY <2>1, <2>2, <2>3
<1> QED BY <1>3, <1>5, <1>7 DEF Layout

-----------------------------------------------------------------------------
(* The disk stays behind the memory: the old entry is not up to date any   *)
(* more.                                                                   *)
LEMMA ReplacedBehind ==
  ASSUME NEW c, NEW s, NEW ds, Behind(c, s, ds), NEW b0 \in 1 .. Len(ds),
         NEW i0 \in 1 .. Len(ds[b0].entries), NEW e,
         e.name = ds[b0].entries[i0].name, ds[b0].entries[i0].time # s[e.name].time,
         Len(Seen(c, ds[b0].offset)) \in Nat, Len(ds[b0].entries) \in Nat,
         NEW ds2, IsReplaced(ds, ds2, b0, i0, e)
  PROVE  Behind(c, s, ds2)
<1>1. OnlyDirs(c, ds2)
  BY DEF OnlyDirs, IsReplaced, Behind
<1>2. ASSUME NEW b \in 1 .. Len(ds2) PROVE NotAhead(c, s, ds2[b])
  <2>0. b \in 1 .. Len(ds) BY DEF IsReplaced
  <2>1. CASE b # b0
    <3>1. ds2[b] = ds[b] BY <2>0, <2>1 DEF IsReplaced
    <3> QED BY <2>0, <3>1 DEF Behind
  <2>2. CASE b = b0
    <3> DEFINE u == ds[b0].offset
    <3>1. NotAhead(c, s, ds[b0]) BY DEF Behind
    <3>2. /\ ds2[b].offset = u /\ ds2[b].next = ds[b0].next /\ ds2[b].changed = TRUE
          /\ Len(ds2[b].entries) = Len(ds[b0].entries) /\ ds2[b].entries[i0] = e
          /\ \A i \in 1 .. Len(ds[b0].entries) : i # i0 => ds2[b].entries[i] = ds[b0].entries[i]
      BY <2>2 DEF IsReplaced
    <3>3. ASSUME NEW i \in 1 .. Len(Seen(c, u))
          PROVE  /\ Seen(c, u)[i].name = ds2[b].entries[i].name
                 /\ Seen(c, u)[i].time = s[ds2[b].entries[i].name].time =>
                      Seen(c, u)[i] = ds2[b].entries[i]
      <4>1. i \in 1 .. Len(ds[b0].entries)
        BY <3>1, WiderRange DEF NotAhead
      <4>2. /\ Seen(c, u)[i].name = ds[b0].entries[i].name
            /\ Seen(c, u)[i].time = s[ds[b0].entries[i].name].time => Seen(c, u)[i] = ds[b0].entries[i]
        BY <3>1 DEF NotAhead
      <4>3. CASE i = i0
        <5>1. ds2[b].entries[i] = e BY <4>3, <3>2
        <5> QED BY <5>1, <4>2, <4>3
      <4>4. CASE i # i0
        <5>1. ds2[b].entries[i] = ds[b0].entries[i] BY <4>1, <4>4, <3>2
        <5> QED BY <5>1, <4>2
      <4> QED BY <4>3, <4>4
    <3>4. /\ u \in Units
          /\ c[u].kind = "dir" => c[u].next \in {ds2[b].next, 0}
          /\ Len(Seen(c, u)) <= Len(ds2[b].entries)
      BY <3>1, <3>2 DEF NotAhead
    <3> HIDE DEF u
    <3> QED BY <3>2, <3>3, <3>4 DEF NotAhead
  <2> QED BY <2>1, <2>2
<1> QED BY <1>1, <1>2 DEF Behind

(* The files end by the new end of the bigfile.                            *)
LEMMA ReplacedFits ==
  ASSUME NEW ds, NEW b0 \in 1 .. Len(ds), NEW i0 \in 1 .. Len(ds[b0].entries), NEW e,
         NEW end, EndsBy(ds, b0, i0, end), e.size = 0 \/ e.off + e.size <= end,
         NEW ds2, IsReplaced(ds, ds2, b0, i0, e)
  PROVE  Fits(ds2, end)
<1>1. \A b \in 1 .. Len(ds2) : ds2[b].offset < end
  BY DEF IsReplaced, EndsBy
<1>2. ASSUME NEW b \in 1 .. Len(ds2), NEW i \in 1 .. Len(ds2[b].entries)
      PROVE  ds2[b].entries[i].size = 0 \/ ds2[b].entries[i].off + ds2[b].entries[i].size <= end
  <2>0. b \in 1 .. Len(ds) /\ i \in 1 .. Len(ds[b].entries) BY DEF IsReplaced
  <2>1. CASE b = b0 /\ i = i0
    <3>1. ds2[b].entries[i] = e BY <2>1 DEF IsReplaced
    <3> QED BY <3>1
  <2>2. CASE ~(b = b0 /\ i = i0)
    <3>1. ds2[b].entries[i] = ds[b].entries[i] BY <2>0, <2>2 DEF IsReplaced
    <3> QED BY <2>0, <2>2, <3>1 DEF EndsBy
  <2> QED BY <2>1, <2>2
<1> QED BY <1>1, <1>2 DEF Fits, EndsBy

(* The other entries stay as fresh as they were.                           *)
LEMMA ReplacedMemFresh ==
  ASSUME NEW c, NEW s, NEW ds, NEW b0 \in 1 .. Len(ds),
         NEW i0 \in 1 .. Len(ds[b0].entries), NEW e,
         MemFresh(c, s, ds), FreshEntry(c, s, e),
         NEW ds2, IsReplaced(ds, ds2, b0, i0, e)
  PROVE  MemFresh(c, s, ds2)
<1> SUFFICES ASSUME NEW b \in 1 .. Len(ds2), NEW i \in 1 .. Len(ds2[b].entries)
             PROVE  FreshEntry(c, s, ds2[b].entries[i])
  BY DEF MemFresh
<1>0. b \in 1 .. Len(ds) /\ i \in 1 .. Len(ds[b].entries) BY DEF IsReplaced
<1>1. CASE b = b0 /\ i = i0
  <2>1. ds2[b].entries[i] = e BY <1>1 DEF IsReplaced
  <2> QED BY <2>1
<1>2. CASE ~(b = b0 /\ i = i0)
  <2>1. ds2[b].entries[i] = ds[b].entries[i] BY <1>0, <1>2 DEF IsReplaced
  <2> QED BY <1>0, <2>1 DEF MemFresh
<1> QED BY <1>1, <1>2

(* Behind each block there is a file or the old end.                       *)
LEMMA ReplacedWitness ==
  ASSUME NEW c, NEW ds, NEW b0 \in 1 .. Len(ds),
         NEW i0 \in 1 .. Len(ds[b0].entries), NEW e, NEW left,
         Witnessed(c, ds, left), ds[b0].entries[i0].name \in left,
         NEW ds2, IsReplaced(ds, ds2, b0, i0, e)
  PROVE  Witnessed(c, ds2, left \ {e.name})
<1> SUFFICES ASSUME NEW b \in 1 .. Len(ds2), ~(ds2[b].offset < c[0].curend)
             PROVE  \E i \in 1 .. Len(ds2[b].entries) :
                      /\ ds2[b].offset < ds2[b].entries[i].off
                      /\ ds2[b].entries[i].name \notin left \ {e.name}
  BY DEF Witnessed
<1>1. b \in 1 .. Len(ds) /\ ds2[b].offset = ds[b].offset
  BY DEF IsReplaced
<1>2. PICK i \in 1 .. Len(ds[b].entries) :
        ds[b].offset < ds[b].entries[i].off /\ ds[b].entries[i].name \notin left
  BY <1>1 DEF Witnessed
<1>3. b # b0 \/ i # i0
  BY <1>2
<1>4. ds2[b].entries[i] = ds[b].entries[i] /\ i \in 1 .. Len(ds2[b].entries)
  BY <1>1, <1>3 DEF IsReplaced
<1> QED BY <1>1, <1>2, <1>4

(* What m_hash says of the files that are left.                            *)
LEMMA ReplacedHash ==
  ASSUME NEW ds, NEW b0 \in 1 .. Len(ds), NEW i0 \in 1 .. Len(ds[b0].entries), NEW e,
         e.name = ds[b0].entries[i0].name, NEW h, NEW left, HashFits(ds, h, left),
         NEW ds2, IsReplaced(ds, ds2, b0, i0, e)
  PROVE  HashFits(ds2, h, left \ {e.name})
<1> SUFFICES ASSUME NEW m \in left, m # e.name
             PROVE  IF h[m] = NoRef THEN Unlisted(ds2, m) ELSE ListedAt(ds2, m, h[m])
  BY DEF HashFits
<1>1. \A b \in 1 .. Len(ds) : \A i \in 1 .. Len(ds[b].entries) :
        ds2[b].entries[i].name = ds[b].entries[i].name
  <2> SUFFICES ASSUME NEW b \in 1 .. Len(ds), NEW i \in 1 .. Len(ds[b].entries)
               PROVE  ds2[b].entries[i].name = ds[b].entries[i].name
    OBVIOUS
  <2>1. CASE b = b0 /\ i = i0
    BY <2>1 DEF IsReplaced
  <2>2. CASE ~(b = b0 /\ i = i0)
    BY <2>2 DEF IsReplaced
  <2> QED BY <2>1, <2>2
<1>2. CASE h[m] = NoRef
  <2>1. Unlisted(ds, m) BY <1>2 DEF HashFits
  <2>2. Unlisted(ds2, m)
    <3> SUFFICES ASSUME NEW b \in 1 .. Len(ds2), NEW i \in 1 .. Len(ds2[b].entries)
                 PROVE  ds2[b].entries[i].name # m
      BY DEF Unlisted
    <3>1. b \in 1 .. Len(ds) /\ i \in 1 .. Len(ds[b].entries) BY DEF IsReplaced
    <3>2. ds[b].entries[i].name # m BY <2>1, <3>1 DEF Unlisted
    <3> QED BY <1>1, <3>1, <3>2
  <2> QED BY <1>2, <2>2
<1>3. CASE h[m] # NoRef
  <2> DEFINE b == h[m].block
             i == h[m].place
  <2>1. ListedAt(ds, m, h[m]) BY <1>3 DEF HashFits
  <2>2. /\ b \in 1 .. Len(ds) /\ i \in 1 .. Len(ds[b].entries)
        /\ ds[b].entries[i].name = m /\ ds[b].entries[i].time = h[m].time
    BY <2>1 DEF ListedAt
  <2>3. b # b0 \/ i # i0
    BY <2>2
  <2> HIDE DEF b, i
  <2>4. /\ ds2[b].entries[i] = ds[b].entries[i]
        /\ b \in 1 .. Len(ds2) /\ i \in 1 .. Len(ds2[b].entries)
    BY <2>2, <2>3 DEF IsReplaced
  <2>5. ListedAt(ds2, m, h[m])
    BY <2>2, <2>4 DEF ListedAt, b, i
  <2> QED BY <1>3, <2>5
<1> QED BY <1>2, <1>3
-----------------------------------------------------------------------------
NumbersFit(oo, os, end, size, off, end2) ==
  /\ off \in Nat /\ end2 \in Nat /\ 1 < off /\ 1 < end2
  /\ size = 0 \/ off + size <= end2
  /\ \A o \in Nat : o < end /\ (os = 0 \/ o < oo \/ oo + os <= o) =>
       (size = 0 \/ o < off \/ off + size <= o) /\ o < end2
  /\ \A o, z \in Nat :
       (z = 0 \/ o + z <= end) /\ (os = 0 \/ z = 0 \/ oo + os <= o \/ o + z <= oo) =>
       (size = 0 \/ z = 0 \/ off + size <= o \/ o + z <= off) /\ (z = 0 \/ o + z <= end2)

(* The arithmetic of the three ways to place a file: in the space it had,  *)
(* grown at the end, or behind the end.                                    *)
LEMMA PlaceNumbers ==
  ASSUME NEW oo \in Nat, NEW os \in Nat, NEW end \in Nat, NEW size \in Nat, NEW off, NEW end2,
         1 < oo, 1 < end, os = 0 \/ oo + os <= end,
         \/ oo + os = end /\ off = oo /\ end2 = (end + size) - os
         \/ size <= os /\ off = oo /\ end2 = end
         \/ off = end /\ end2 = end + size
  PROVE  NumbersFit(oo, os, end, size, off, end2)
<1>1. CASE oo + os = end /\ off = oo /\ end2 = (end + size) - os
  BY <1>1 DEF NumbersFit
<1>2. CASE size <= os /\ off = oo /\ end2 = end
  BY <1>2 DEF NumbersFit
<1>3. CASE off = end /\ end2 = end + size
  BY <1>3 DEF NumbersFit
<1> QED BY <1>1, <1>2, <1>3

PlacedAt(old, end, size, off, end2) ==
  \/ old.off + old.size = end /\ off = old.off /\ end2 = (end + size) - old.size
  \/ size <= old.size /\ off = old.off /\ end2 = end
  \/ off = end /\ end2 = end + size

(* A replaced file goes where it was, grows over the end, or goes behind it.*)
LEMMA PlacedWell ==
  ASSUME NEW ds, Layout(ds), NEW end, Fits(ds, end), NEW b0 \in 1 .. Len(ds),
         NEW i0 \in 1 .. Len(ds[b0].entries),
         NEW size \in Nat, NEW off, NEW end2, end2 <= MaxUnits,
         PlacedAt(ds[b0].entries[i0], end, size, off, end2)
  PROVE  /\ off \in Nat /\ end2 \in Nat /\ FirstDir < off
         /\ FreeFor(ds, b0, i0, off, size)
         /\ EndsBy(ds, b0, i0, end2)
         /\ size = 0 \/ off + size <= end2
<1>0. ds \in Seq(Block) BY DEF Layout, Linked
<1>o. PICK old : old = ds[b0].entries[i0]
  OBVIOUS
<1>1. old.off \in Nat /\ old.size \in Nat /\ end \in Nat /\ MaxUnits \in Nat
      /\ FirstDir < old.off /\ FirstDir < end /\ FirstDir = 1
      /\ (old.size = 0 \/ old.off + old.size <= end)
  <2>1. old.off \in Nat /\ old.size \in Nat BY <1>0, <1>o, EntryTypes
  <2>2. FirstDir < old.off BY <1>o DEF Layout, ClearOfDirs
  <2>3. old.size = 0 \/ old.off + old.size <= end BY <1>o DEF Fits
  <2> QED BY <2>1, <2>2, <2>3, BigFileAssumption DEF Fits, FirstDir
<1>2. \A d \in 1 .. Len(ds) :
        /\ ds[d].offset \in Nat /\ ds[d].offset < end
        /\ old.size = 0 \/ ds[d].offset < old.off \/ old.off + old.size <= ds[d].offset
  <2> TAKE d \in 1 .. Len(ds)
  <2>1. ds[d].offset \in Nat BY <1>0, BlockTypes
  <2>2. ds[d].offset < end BY DEF Fits
  <2>3. Clear(old, ds[d].offset) BY <1>o DEF Layout, ClearOfDirs
  <2> QED BY <2>1, <2>2, <2>3 DEF Clear
<1>3. \A d \in 1 .. Len(ds) : \A j \in 1 .. Len(ds[d].entries) :
        d # b0 \/ j # i0 =>
          /\ ds[d].entries[j].off \in Nat /\ ds[d].entries[j].size \in Nat
          /\ ds[d].entries[j].size = 0 \/ ds[d].entries[j].off + ds[d].entries[j].size <= end
          /\ \/ old.size = 0 \/ ds[d].entries[j].size = 0
             \/ old.off + old.size <= ds[d].entries[j].off
             \/ ds[d].entries[j].off + ds[d].entries[j].size <= old.off
  <2> SUFFICES ASSUME NEW d \in 1 .. Len(ds), NEW j \in 1 .. Len(ds[d].entries),
                      d # b0 \/ j # i0
               PROVE  /\ ds[d].entries[j].off \in Nat /\ ds[d].entries[j].size \in Nat
                      /\ ds[d].entries[j].size = 0
                           \/ ds[d].entries[j].off + ds[d].entries[j].size <= end
                      /\ \/ old.size = 0 \/ ds[d].entries[j].size = 0
                         \/ old.off + old.size <= ds[d].entries[j].off
                         \/ ds[d].entries[j].off + ds[d].entries[j].size <= old.off
    OBVIOUS
  <2>1. ds[d].entries[j].off \in Nat /\ ds[d].entries[j].size \in Nat BY <1>0, EntryTypes
  <2>2. ds[d].entries[j].size = 0 \/ ds[d].entries[j].off + ds[d].entries[j].size <= end
    BY DEF Fits
  <2>3. Apart(old, ds[d].entries[j]) BY <1>o DEF Layout, ApartFiles
  <2> QED BY <2>1, <2>2, <2>3 DEF Apart
<1>p. PICK oo \in Nat : oo = old.off BY <1>1
<1>q. PICK os \in Nat : os = old.size BY <1>1
<1>r. /\ 1 < oo /\ 1 < end /\ (os = 0 \/ oo + os <= end)
      /\ \/ oo + os = end /\ off = oo /\ end2 = (end + size) - os
         \/ size <= os /\ off = oo /\ end2 = end
         \/ off = end /\ end2 = end + size
  BY <1>1, <1>o, <1>p, <1>q DEF PlacedAt
<1>n. NumbersFit(oo, os, end, size, off, end2)
  BY <1>r, <1>1, PlaceNumbers
<1>4. off \in Nat /\ end2 \in Nat /\ FirstDir < off /\ FirstDir < end2
      /\ (size = 0 \/ off + size <= end2)
  BY <1>1, <1>n DEF NumbersFit
<1>5. \A d \in 1 .. Len(ds) : /\ size = 0 \/ ds[d].offset < off \/ off + size <= ds[d].offset
                              /\ ds[d].offset < end2
  <2> TAKE d \in 1 .. Len(ds)
  <2>1. PICK o \in Nat : o = ds[d].offset BY <1>2
  <2>2. o < end /\ (os = 0 \/ o < oo \/ oo + os <= o)
    BY <1>2, <2>1, <1>p, <1>q
  <2>3. (size = 0 \/ o < off \/ off + size <= o) /\ o < end2
    BY <1>n, <2>2 DEF NumbersFit
  <2> QED BY <2>1, <2>3
<1>6. \A d \in 1 .. Len(ds) : \A j \in 1 .. Len(ds[d].entries) :
        d # b0 \/ j # i0 =>
          /\ \/ size = 0 \/ ds[d].entries[j].size = 0
             \/ off + size <= ds[d].entries[j].off
             \/ ds[d].entries[j].off + ds[d].entries[j].size <= off
          /\ ds[d].entries[j].size = 0 \/ ds[d].entries[j].off + ds[d].entries[j].size <= end2
  <2> SUFFICES ASSUME NEW d \in 1 .. Len(ds), NEW j \in 1 .. Len(ds[d].entries),
                      d # b0 \/ j # i0
               PROVE  /\ \/ size = 0 \/ ds[d].entries[j].size = 0
                         \/ off + size <= ds[d].entries[j].off
                         \/ ds[d].entries[j].off + ds[d].entries[j].size <= off
                      /\ ds[d].entries[j].size = 0
                           \/ ds[d].entries[j].off + ds[d].entries[j].size <= end2
    OBVIOUS
  <2>1. PICK o \in Nat : o = ds[d].entries[j].off BY <1>3
  <2>2. PICK z \in Nat : z = ds[d].entries[j].size BY <1>3
  <2>3. (z = 0 \/ o + z <= end) /\ (os = 0 \/ z = 0 \/ oo + os <= o \/ o + z <= oo)
    BY <1>3, <2>1, <2>2, <1>p, <1>q
  <2>4. (size = 0 \/ z = 0 \/ off + size <= o \/ o + z <= off) /\ (z = 0 \/ o + z <= end2)
    BY <1>n, <2>3 DEF NumbersFit
  <2> QED BY <2>1, <2>2, <2>4
<1> QED BY <1>4, <1>5, <1>6 DEF FreeFor, EndsBy

-----------------------------------------------------------------------------
(* The space a file may be copied to: no directory block, no file that is   *)
(* up to date.                                                             *)
SpaceFor(s, ds, off, k) ==
  /\ off \in Nat /\ FirstDir < off /\ k \in Nat
  /\ \A b \in 1 .. Len(ds) : k = 0 \/ ds[b].offset < off \/ off + k <= ds[b].offset
  /\ \A b \in 1 .. Len(ds) : \A i \in 1 .. Len(ds[b].entries) :
       ds[b].entries[i].time = s[ds[b].entries[i].name].time =>
         \/ k = 0 \/ ds[b].entries[i].size = 0
         \/ off + k <= ds[b].entries[i].off
         \/ ds[b].entries[i].off + ds[b].entries[i].size <= off

(* Data written to free space keeps the types, the directory and every     *)
(* up-to-date file.                                                        *)
LEMMA CopyInMemory ==
  ASSUME NEW c, CellTypes(c), NEW s, NEW ds, Layout(ds), Behind(c, s, ds),
         NEW end, Fits(ds, end), MemFresh(c, s, ds), Fresh(c, s),
         NEW n, NEW off, NEW k, SpaceFor(s, ds, off, k)
  PROVE  /\ CellTypes(Copied(c, s, n, off, k)) /\ SameDirs(c, Copied(c, s, n, off, k))
         /\ MemFresh(Copied(c, s, n, off, k), s, ds) /\ Fresh(Copied(c, s, n, off, k), s)
<1> DEFINE c2 == Copied(c, s, n, off, k)
<1>0. ds \in Seq(Block) /\ off \in Nat /\ k \in Nat /\ FirstDir < off
  BY DEF Layout, Linked, SpaceFor
<1>1. CellTypes(c2) /\ SameDirs(c, c2)
  <2>1. ASSUME NEW u \in Units, c[u].kind = "dir"
        PROVE  u \notin off .. off + k - 1
    <3>1. PICK b \in 1 .. Len(ds) : u = ds[b].offset
      BY <2>1 DEF Behind, OnlyDirs
    <3>2. k = 0 \/ u < off \/ off + k <= u
      BY <3>1 DEF SpaceFor
    <3>3. u \in Nat BY DEF Units
    <3> QED BY <3>2, <3>3, <1>0
  <2> QED BY <2>1, <1>0, CopyKeepsDirs
<1>2. MemFresh(c2, s, ds)
  <2> SUFFICES ASSUME NEW b \in 1 .. Len(ds), NEW i \in 1 .. Len(ds[b].entries)
               PROVE  FreshEntry(c2, s, ds[b].entries[i])
    BY DEF MemFresh
  <2>1. PICK f \in Stored : f = ds[b].entries[i]
    BY <1>0, EntryTypes
  <2>2. FreshEntry(c, s, f)
    BY <2>1 DEF MemFresh
  <2>3. ASSUME f.time = s[f.name].time PROVE IntactIn(c2, f)
    <3>1. IntactIn(c, f)
      BY <2>2, <2>3 DEF FreshEntry
    <3>2. f.size = 0 \/ k = 0 \/ off + k <= f.off \/ f.off + f.size <= off
      BY <2>1, <2>3 DEF SpaceFor
    <3>3. f.size = 0 \/ f.off + f.size <= end
      BY <2>1 DEF Fits
    <3>4. end \in Nat /\ end <= MaxUnits /\ MaxUnits \in Nat
      BY BigFileAssumption DEF Fits
    <3>5. f.size = 0 \/ f.off + f.size <= MaxUnits
      BY <3>3, <3>4, StoredTypes
    <3> QED BY <3>1, <3>2, <3>5, <1>0, CopyKeepsFile
  <2> QED BY <2>1, <2>2, <2>3 DEF FreshEntry
<1>3. Fresh(c2, s)
  <2> SUFFICES ASSUME NEW u \in Units, NEW i \in 1 .. Len(Seen(c2, u))
               PROVE  FreshEntry(c2, s, Seen(c2, u)[i])
    BY DEF Fresh
  <2>1. Seen(c2, u) = Seen(c, u)
    BY <1>1, SameSeen
  <2>2. PICK f : f = Seen(c, u)[i]
    OBVIOUS
  <2>3. FreshEntry(c, s, f)
    BY <2>1, <2>2 DEF Fresh
  <2>4. ASSUME f.time = s[f.name].time PROVE IntactIn(c2, f)
    <3>1. c[u].kind = "dir"
      <4>1. i \in 1 .. Len(Seen(c, u)) BY <2>1
      <4> QED BY <4>1 DEF Seen
    <3>2. PICK b \in 1 .. Len(ds) : u = ds[b].offset
      BY <3>1 DEF Behind, OnlyDirs
    <3>3. NotAhead(c, s, ds[b])
      BY DEF Behind
    <3>4. f.name = ds[b].entries[i].name /\ f = ds[b].entries[i]
      BY <2>1, <2>2, <2>4, <3>2, <3>3 DEF NotAhead
    <3>5. i \in 1 .. Len(ds[b].entries)
      <4>1. Len(Seen(c, u)) <= Len(ds[b].entries)
        BY <3>2, <3>3 DEF NotAhead
      <4>2. Len(Seen(c, u)) \in Nat /\ Len(ds[b].entries) \in Nat
        BY <1>0, SeenIsSeq, BlockTypes
      <4> QED BY <2>1, <4>1, <4>2, WiderRange
    <3>6. FreshEntry(c2, s, f)
      BY <1>2, <3>4, <3>5 DEF MemFresh
    <3> QED BY <2>4, <3>6 DEF FreshEntry
  <2> QED BY <2>1, <2>2, <2>3, <2>4 DEF FreshEntry
<1> QED BY <1>1, <1>2, <1>3

-----------------------------------------------------------------------------
(* WithNewEntry, as a record.                                              *)
LEMMA WithNewEntryIs ==
  ASSUME NEW r \in Block, NEW e, NEW y,
         y = [offset |-> r.offset, next |-> r.next,
              entries |-> Append(r.entries, e), changed |-> TRUE]
  PROVE  WithNewEntry(r, e) = y
<1> DEFINE x == WithNewEntry(r, e)
<1>1. DOMAIN x = {"offset", "next", "entries", "changed"} /\ DOMAIN y = DOMAIN x
  BY DEF Block, WithNewEntry
<1>2. x.offset = y.offset /\ x.next = y.next /\ x.entries = y.entries /\ x.changed = y.changed
  BY DEF Block, WithNewEntry
<1> QED BY <1>1, <1>2 DEF WithNewEntry

(* WithNext, as a record.                                                  *)
LEMMA WithNextIs ==
  ASSUME NEW r \in Block, NEW off, NEW y,
         y = [offset |-> r.offset, next |-> off, entries |-> r.entries, changed |-> TRUE]
  PROVE  WithNext(r, off) = y
<1> DEFINE x == WithNext(r, off)
<1>1. DOMAIN x = {"offset", "next", "entries", "changed"} /\ DOMAIN y = DOMAIN x
  BY DEF Block, WithNext
<1>2. x.offset = y.offset /\ x.next = y.next /\ x.entries = y.entries /\ x.changed = y.changed
  BY DEF Block, WithNext
<1> QED BY <1>1, <1>2 DEF WithNext

(* One entry is added to the last block.                                   *)
AddedTo(ds, e) == [ds EXCEPT ![Len(ds)] = WithNewEntry(@, e)]
IsAdded(ds, ds2, e) ==
  /\ ds2 \in Seq(Block) /\ Len(ds2) = Len(ds)
  /\ \A b \in 1 .. Len(ds) :
       /\ ds2[b].offset = ds[b].offset /\ ds2[b].next = ds[b].next
       /\ b # Len(ds) => ds2[b] = ds[b]
       /\ \A i \in 1 .. Len(ds[b].entries) : ds2[b].entries[i] = ds[b].entries[i]
  /\ Len(ds2[Len(ds)].entries) = Len(ds[Len(ds)].entries) + 1
  /\ ds2[Len(ds)].entries[Len(ds[Len(ds)].entries) + 1] = e
  /\ ds2[Len(ds)].changed = TRUE

(* Appending an entry to the last block changes nothing else.              *)
LEMMA AddedFacts ==
  ASSUME NEW ds, ds \in Seq(Block), Len(ds) >= 1, NEW e \in Stored
  PROVE  IsAdded(ds, AddedTo(ds, e), e)
<1> DEFINE m == Len(ds)
           p == Append(ds[m].entries, e)
           d == WithNewEntry(ds[m], e)
           ds2 == AddedTo(ds, e)
<1>0. m \in 1 .. Len(ds) /\ Len(ds) \in Nat
  OBVIOUS
<1>1. /\ ds[m] \in Block /\ ds[m].entries \in Seq(Stored)
      /\ Len(ds[m].entries) \in Nat /\ ds[m].offset \in Nat /\ ds[m].next \in Nat
  BY <1>0, BlockTypes
<1>2. /\ p \in Seq(Stored) /\ Len(p) = Len(ds[m].entries) + 1 /\ p[Len(ds[m].entries) + 1] = e
      /\ \A i \in 1 .. Len(ds[m].entries) : p[i] = ds[m].entries[i]
  <2>1. PICK q \in Seq(Stored) : q = ds[m].entries
    BY <1>1
  <2>2. /\ Append(q, e) \in Seq(Stored) /\ Len(Append(q, e)) = Len(q) + 1
        /\ Append(q, e)[Len(q) + 1] = e
        /\ \A i \in 1 .. Len(q) : Append(q, e)[i] = q[i]
    BY AppendProperties
  <2> QED BY <2>1, <2>2
<1>3. /\ d \in Block /\ d.offset = ds[m].offset /\ d.next = ds[m].next
      /\ d.entries = p /\ d.changed = TRUE
  <2>1. d = [offset |-> ds[m].offset, next |-> ds[m].next, entries |-> p, changed |-> TRUE]
    BY <1>1, WithNewEntryIs
  <2> HIDE DEF d, p, m
  <2> QED BY <1>1, <1>2, <2>1 DEF Block
<1>4. ds2 = [ds EXCEPT ![m] = d]
  BY DEF AddedTo
<1> HIDE DEF d, ds2, p, m
<1>5. /\ ds2 \in Seq(Block) /\ Len(ds2) = Len(ds) /\ ds2[m] = d
      /\ \A b \in 1 .. Len(ds) : b # m => ds2[b] = ds[b]
  BY <1>0, <1>3, <1>4, ExceptSeq
<1>6. \A b \in 1 .. Len(ds) :
        /\ ds2[b].offset = ds[b].offset /\ ds2[b].next = ds[b].next
        /\ b # m => ds2[b] = ds[b]
        /\ \A i \in 1 .. Len(ds[b].entries) : ds2[b].entries[i] = ds[b].entries[i]
  BY <1>2, <1>3, <1>5
<1>7. /\ Len(ds2[m].entries) = Len(ds[m].entries) + 1 /\ ds2[m].changed = TRUE
      /\ ds2[m].entries[Len(ds[m].entries) + 1] = e
  BY <1>2, <1>3, <1>5
<1> QED BY <1>5, <1>6, <1>7 DEF ds2, m, IsAdded

(* A block is added behind the last one.                                   *)
NewBlock(off) == [offset |-> off, next |-> 0, entries |-> <<>>, changed |-> TRUE]
GrownTo(ds, off) == Append([ds EXCEPT ![Len(ds)] = WithNext(@, off)], NewBlock(off))
IsGrown(ds, ds2, off) ==
  /\ ds2 \in Seq(Block) /\ Len(ds2) = Len(ds) + 1
  /\ \A b \in 1 .. Len(ds) :
       /\ ds2[b].offset = ds[b].offset /\ ds2[b].entries = ds[b].entries
       /\ b # Len(ds) => ds2[b] = ds[b]
  /\ ds2[Len(ds)].next = off /\ ds2[Len(ds)].changed = TRUE
  /\ ds2[Len(ds) + 1] = NewBlock(off)

(* Appending a block changes the link of the last one and nothing else.    *)
LEMMA GrownFacts ==
  ASSUME NEW ds, ds \in Seq(Block), Len(ds) >= 1, NEW off \in Nat
  PROVE  IsGrown(ds, GrownTo(ds, off), off)
<1> DEFINE m == Len(ds)
           d == WithNext(ds[m], off)
           ds1 == [ds EXCEPT ![m] = d]
           ds2 == GrownTo(ds, off)
<1>0. m \in 1 .. Len(ds) /\ Len(ds) \in Nat
  OBVIOUS
<1>1. /\ ds[m] \in Block /\ ds[m].entries \in Seq(Stored)
      /\ ds[m].offset \in Nat /\ ds[m].next \in Nat
  BY <1>0, BlockTypes
<1>3. /\ d \in Block /\ d.offset = ds[m].offset /\ d.next = off
      /\ d.entries = ds[m].entries /\ d.changed = TRUE
  <2>1. d = [offset |-> ds[m].offset, next |-> off, entries |-> ds[m].entries, changed |-> TRUE]
    BY <1>1, WithNextIs
  <2> HIDE DEF d, m
  <2> QED BY <1>1, <2>1 DEF Block
<1>4. ds2 = Append(ds1, NewBlock(off))
  BY DEF GrownTo
<1>5. NewBlock(off) \in Block
  BY DEF NewBlock, Block
<1> HIDE DEF d, ds2, m
<1>6. /\ ds1 \in Seq(Block) /\ Len(ds1) = Len(ds) /\ ds1[m] = d
      /\ \A b \in 1 .. Len(ds) : b # m => ds1[b] = ds[b]
  BY <1>0, <1>3, ExceptSeq
<1> HIDE DEF ds1
<1>7. /\ ds2 \in Seq(Block) /\ Len(ds2) = Len(ds) + 1 /\ ds2[Len(ds) + 1] = NewBlock(off)
      /\ \A b \in 1 .. Len(ds) : ds2[b] = ds1[b]
  BY <1>4, <1>5, <1>6, AppendProperties
<1>8. \A b \in 1 .. Len(ds) :
        /\ ds2[b].offset = ds[b].offset /\ ds2[b].entries = ds[b].entries
        /\ b # m => ds2[b] = ds[b]
  BY <1>3, <1>6, <1>7
<1>9. ds2[m].next = off /\ ds2[m].changed = TRUE
  BY <1>0, <1>3, <1>6, <1>7
<1> QED BY <1>7, <1>8, <1>9 DEF ds2, m, IsGrown

-----------------------------------------------------------------------------
(* A new block at the end of the bigfile keeps the layout.                 *)
LEMMA GrownLayout ==
  ASSUME NEW ds, Layout(ds), NEW end, Fits(ds, end), NEW ds2, IsGrown(ds, ds2, end)
  PROVE  Layout(ds2)
<1> DEFINE m == Len(ds)
<1>0. /\ ds \in Seq(Block) /\ m \in Nat /\ m >= 1 /\ end \in Nat /\ FirstDir < end
      /\ \A b \in 1 .. m : ds[b].offset < end /\ Len(ds[b].entries) <= PerBlock
      /\ ds[1].offset = FirstDir /\ PerBlock \in Nat
  BY BigFileAssumption DEF Layout, Linked, Fits
<1>1. /\ ds2 \in Seq(Block) /\ Len(ds2) = m + 1
      /\ \A b \in 1 .. m : /\ ds2[b].offset = ds[b].offset /\ ds2[b].entries = ds[b].entries
                           /\ b # m => ds2[b] = ds[b]
      /\ ds2[m].next = end
  BY DEF IsGrown
<1>2. /\ ds2[m + 1].offset = end /\ ds2[m + 1].next = 0 /\ ds2[m + 1].entries = <<>>
      /\ Len(ds2[m + 1].entries) = 0
  BY DEF IsGrown, NewBlock
<1> HIDE DEF m
<1>3. \A b \in 1 .. Len(ds2) : b \in 1 .. m \/ b = m + 1
  BY <1>0, <1>1
<1>4. Linked(ds2)
  <2>1. ds2[1].offset = FirstDir
    <3>1. 1 \in 1 .. m BY <1>0
    <3> QED BY <3>1, <1>0, <1>1
  <2>2. ASSUME NEW b \in 1 .. Len(ds2), NEW d \in 1 .. Len(ds2), b < d
        PROVE  ds2[b].offset < ds2[d].offset
    <3>1. b \in 1 .. m BY <2>2, <1>0, <1>1
    <3>2. CASE d \in 1 .. m
      <4>1. ds[b].offset < ds[d].offset BY <2>2, <3>1, <3>2 DEF Layout, Linked, m
      <4> QED BY <4>1, <3>1, <3>2, <1>1
    <3>3. CASE d = m + 1
      <4>1. ds[b].offset < end BY <3>1, <1>0
      <4> QED BY <4>1, <3>1, <3>3, <1>1, <1>2
    <3> QED BY <3>2, <3>3, <1>3
  <2>3. ASSUME NEW b \in 1 .. Len(ds2) - 1 PROVE ds2[b].next = ds2[b + 1].offset
    <3>1. b \in 1 .. m BY <1>0, <1>1
    <3>2. CASE b = m
      BY <3>2, <1>1, <1>2
    <3>3. CASE b # m
      <4>1. b \in 1 .. m - 1 /\ b + 1 \in 1 .. m BY <3>1, <3>3, <1>0
      <4>2. ds[b].next = ds[b + 1].offset BY <4>1 DEF Layout, Linked, m
      <4>3. ds2[b] = ds[b] /\ ds2[b + 1].offset = ds[b + 1].offset
        BY <4>1, <3>1, <3>3, <1>1
      <4> QED BY <4>2, <4>3
    <3> QED BY <3>2, <3>3
  <2>4. \A b \in 1 .. Len(ds2) : Len(ds2[b].entries) <= PerBlock
    BY <1>0, <1>1, <1>2, <1>3
  <2>5. ds2[Len(ds2)].next = 0 /\ Len(ds2) >= 1
    BY <1>0, <1>1, <1>2
  <2> QED BY <1>1, <2>1, <2>2, <2>3, <2>4, <2>5 DEF Linked
<1>5. \A b \in 1 .. Len(ds2) : \A i \in 1 .. Len(ds2[b].entries) :
        b \in 1 .. m /\ i \in 1 .. Len(ds[b].entries) /\ ds2[b].entries[i] = ds[b].entries[i]
  <2> SUFFICES ASSUME NEW b \in 1 .. Len(ds2), NEW i \in 1 .. Len(ds2[b].entries)
               PROVE  b \in 1 .. m /\ i \in 1 .. Len(ds[b].entries)
                      /\ ds2[b].entries[i] = ds[b].entries[i]
    OBVIOUS
  <2>1. b # m + 1 BY <1>2
  <2> QED BY <2>1, <1>1, <1>3
<1>6. ClearOfDirs(ds2)
  <2> SUFFICES ASSUME NEW b \in 1 .. Len(ds2), NEW d \in 1 .. Len(ds2),
                      NEW i \in 1 .. Len(ds2[b].entries)
               PROVE  FirstDir < ds2[b].entries[i].off /\ Clear(ds2[b].entries[i], ds2[d].offset)
    BY DEF ClearOfDirs
  <2>1. b \in 1 .. m /\ i \in 1 .. Len(ds[b].entries) /\ ds2[b].entries[i] = ds[b].entries[i]
    BY <1>5
  <2>2. FirstDir < ds[b].entries[i].off BY <2>1 DEF Layout, ClearOfDirs, m
  <2>3. CASE d \in 1 .. m
    <3>1. Clear(ds[b].entries[i], ds[d].offset) BY <2>1, <2>3 DEF Layout, ClearOfDirs, m
    <3>2. ds2[d].offset = ds[d].offset BY <2>3, <1>1
    <3> QED BY <2>1, <2>2, <3>1, <3>2
  <2>4. CASE d = m + 1
    <3>1. ds[b].entries[i].size = 0 \/ ds[b].entries[i].off + ds[b].entries[i].size <= end
      BY <2>1 DEF Fits, m
    <3>2. ds2[d].offset = end BY <2>4, <1>2
    <3>3. Clear(ds[b].entries[i], end) BY <3>1 DEF Clear
    <3> QED BY <2>1, <2>2, <3>2, <3>3
  <2> QED BY <2>3, <2>4, <1>3
<1>7. ApartFiles(ds2)
  <2> SUFFICES ASSUME NEW b \in 1 .. Len(ds2), NEW d \in 1 .. Len(ds2),
                      NEW i \in 1 .. Len(ds2[b].entries), NEW j \in 1 .. Len(ds2[d].entries),
                      b # d \/ i # j
               PROVE  /\ ds2[b].entries[i].name # ds2[d].entries[j].name
                      /\ Apart(ds2[b].entries[i], ds2[d].entries[j])
    BY DEF ApartFiles
  <2>1. b \in 1 .. m /\ i \in 1 .. Len(ds[b].entries) /\ ds2[b].entries[i] = ds[b].entries[i]
    BY <1>5
  <2>2. d \in 1 .. m /\ j \in 1 .. Len(ds[d].entries) /\ ds2[d].entries[j] = ds[d].entries[j]
    BY <1>5
  <2>3. ApartFiles(ds) BY DEF Layout
  <2>4. /\ ds[b].entries[i].name # ds[d].entries[j].name
        /\ Apart(ds[b].entries[i], ds[d].entries[j])
    BY <2>1, <2>2, <2>3 DEF ApartFiles, m
  <2> QED BY <2>1, <2>2, <2>4
<1> QED BY <1>4, <1>6, <1>7 DEF Layout

(* A new block needs one unit, holds no files, and the disk has not got it *)
(* yet.                                                                    *)
LEMMA GrownRest ==
  ASSUME NEW c, CellTypes(c), NEW s, NEW ds, Layout(ds), NEW end, Fits(ds, end), end + 1 <= MaxUnits,
         Behind(c, s, ds), MemFresh(c, s, ds), NEW n, Unlisted(ds, n),
         NEW ds2, IsGrown(ds, ds2, end)
  PROVE  /\ Fits(ds2, end + 1) /\ MemFresh(c, s, ds2) /\ Unlisted(ds2, n)
         /\ Behind(c, s, ds2)
<1> DEFINE m == Len(ds)
<1>0. /\ ds \in Seq(Block) /\ m \in Nat /\ m >= 1 /\ end \in Nat /\ FirstDir < end
      /\ MaxUnits \in Nat /\ \A b \in 1 .. m : ds[b].offset < end
  BY BigFileAssumption DEF Layout, Linked, Fits
<1>1. /\ ds2 \in Seq(Block) /\ Len(ds2) = m + 1
      /\ \A b \in 1 .. m : /\ ds2[b].offset = ds[b].offset /\ ds2[b].entries = ds[b].entries
                           /\ b # m => ds2[b] = ds[b]
      /\ ds2[m].next = end /\ ds2[m].changed = TRUE
  BY DEF IsGrown
<1>2. /\ ds2[m + 1].offset = end /\ ds2[m + 1].next = 0 /\ ds2[m + 1].entries = <<>>
      /\ Len(ds2[m + 1].entries) = 0 /\ ds2[m + 1].changed = TRUE
  BY DEF IsGrown, NewBlock
<1> HIDE DEF m
<1>3. \A b \in 1 .. Len(ds2) : b \in 1 .. m \/ b = m + 1
  BY <1>0, <1>1
<1>5. \A b \in 1 .. Len(ds2) : \A i \in 1 .. Len(ds2[b].entries) :
        b \in 1 .. m /\ i \in 1 .. Len(ds[b].entries) /\ ds2[b].entries[i] = ds[b].entries[i]
  <2> SUFFICES ASSUME NEW b \in 1 .. Len(ds2), NEW i \in 1 .. Len(ds2[b].entries)
               PROVE  b \in 1 .. m /\ i \in 1 .. Len(ds[b].entries)
                      /\ ds2[b].entries[i] = ds[b].entries[i]
    OBVIOUS
  <2>1. b # m + 1 BY <1>2
  <2> QED BY <2>1, <1>1, <1>3
<1>6. Fits(ds2, end + 1)
  <2>1. ASSUME NEW b \in 1 .. Len(ds2) PROVE ds2[b].offset < end + 1
    <3>1. CASE b \in 1 .. m
      <4>1. ds[b].offset \in Nat BY <3>1, <1>0, BlockTypes DEF m
      <4>2. ds[b].offset < end BY <3>1, <1>0
      <4> QED BY <3>1, <4>1, <4>2, <1>0, <1>1
    <3>2. CASE b = m + 1
      BY <3>2, <1>0, <1>2
    <3> QED BY <3>1, <3>2, <1>3
  <2>2. ASSUME NEW b \in 1 .. Len(ds2), NEW i \in 1 .. Len(ds2[b].entries)
        PROVE  ds2[b].entries[i].size = 0 \/ ds2[b].entries[i].off + ds2[b].entries[i].size <= end + 1
    <3>1. b \in 1 .. m /\ i \in 1 .. Len(ds[b].entries) /\ ds2[b].entries[i] = ds[b].entries[i]
      BY <1>5
    <3>2. ds[b].entries[i].size = 0 \/ ds[b].entries[i].off + ds[b].entries[i].size <= end
      BY <3>1 DEF Fits, m
    <3>3. ds[b].entries[i].off \in Nat /\ ds[b].entries[i].size \in Nat
      BY <3>1, <1>0, EntryTypes DEF m
    <3>4. PICK o \in Nat : o = ds[b].entries[i].off BY <3>3
    <3>5. PICK z \in Nat : z = ds[b].entries[i].size BY <3>3
    <3>6. z = 0 \/ o + z <= end BY <3>2, <3>4, <3>5
    <3>7. z = 0 \/ o + z <= end + 1 BY <3>6, <1>0
    <3> QED BY <3>1, <3>4, <3>5, <3>7
  <2>3. end + 1 \in Nat /\ FirstDir < end + 1
    BY <1>0 DEF FirstDir
  <2> QED BY <2>1, <2>2, <2>3 DEF Fits
<1>7. MemFresh(c, s, ds2)
  BY <1>5 DEF MemFresh, m
<1>8. Unlisted(ds2, n)
  BY <1>5 DEF Unlisted, m
<1>9. OnlyDirs(c, ds2)
  <2>1. \A b \in 1 .. m : b \in 1 .. Len(ds2) BY <1>0, <1>1
  <2> QED BY <2>1, <1>1 DEF OnlyDirs, Behind, m
<1>10. ASSUME NEW b \in 1 .. Len(ds2) PROVE NotAhead(c, s, ds2[b])
  <2>1. CASE b \in 1 .. m /\ b # m
    <3>1. NotAhead(c, s, ds[b]) BY <2>1 DEF Behind, m
    <3> QED BY <3>1, <2>1, <1>1
  <2>2. CASE b = m
    <3>0. m \in 1 .. m BY <1>0
    <3>1. NotAhead(c, s, ds[m]) BY <3>0 DEF Behind, m
    <3>2. ds[m].next = 0 BY DEF Layout, Linked, m
    <3>3. ds2[m].offset = ds[m].offset /\ ds2[m].entries = ds[m].entries
      BY <3>0, <1>1
    <3> QED BY <3>1, <3>2, <3>3, <2>2, <1>1 DEF NotAhead
  <2>3. CASE b = m + 1
    <3>1. end \in Units BY <1>0 DEF Units
    <3>2. c[end].kind # "dir"
      <4> SUFFICES ASSUME c[end].kind = "dir" PROVE FALSE OBVIOUS
      <4>1. PICK d \in 1 .. m : end = ds[d].offset BY <3>1 DEF Behind, OnlyDirs, m
      <4>2. ds[d].offset < end BY <1>0
      <4> QED BY <4>1, <4>2, <1>0
    <3>3. Seen(c, end) = <<>> BY <3>2 DEF Seen
    <3>4. Len(Seen(c, end)) = 0 BY <3>3
    <3> QED BY <3>1, <3>2, <3>4, <2>3, <1>2 DEF NotAhead
  <2> QED BY <2>1, <2>2, <2>3, <1>3
<1> QED BY <1>6, <1>7, <1>8, <1>9, <1>10 DEF Behind

-----------------------------------------------------------------------------
(* An entry after AddFile is one there was, or the new one.                *)
LEMMA AddedPlaces ==
  ASSUME NEW ds, ds \in Seq(Block), Len(ds) >= 1, NEW e, NEW ds2, IsAdded(ds, ds2, e)
  PROVE  \A b \in 1 .. Len(ds2) :
           /\ Len(ds2[b].entries) \in Nat /\ Len(ds[b].entries) \in Nat
           /\ \A i \in 1 .. Len(ds[b].entries) :
                i \in 1 .. Len(ds2[b].entries) /\ ds2[b].entries[i] = ds[b].entries[i]
           /\ \A i \in 1 .. Len(ds2[b].entries) :
                \/ i \in 1 .. Len(ds[b].entries)
                \/ /\ b = Len(ds) /\ i = Len(ds[b].entries) + 1 /\ ds2[b].entries[i] = e
<1> SUFFICES ASSUME NEW b \in 1 .. Len(ds2)
             PROVE
           /\ Len(ds2[b].entries) \in Nat /\ Len(ds[b].entries) \in Nat
           /\ \A i \in 1 .. Len(ds[b].entries) :
                i \in 1 .. Len(ds2[b].entries) /\ ds2[b].entries[i] = ds[b].entries[i]
           /\ \A i \in 1 .. Len(ds2[b].entries) :
                \/ i \in 1 .. Len(ds[b].entries)
                \/ /\ b = Len(ds) /\ i = Len(ds[b].entries) + 1 /\ ds2[b].entries[i] = e
  OBVIOUS
<1>1. b \in 1 .. Len(ds) /\ ds2 \in Seq(Block)
  BY DEF IsAdded
<1>2. Len(ds2[b].entries) \in Nat /\ Len(ds[b].entries) \in Nat
  BY <1>1, BlockTypes
<1>3. PICK k \in Nat : k = Len(ds[b].entries)
  BY <1>2
<1>4. PICK l \in Nat : l = Len(ds2[b].entries)
  BY <1>2
<1>5. \A i \in 1 .. k : ds2[b].entries[i] = ds[b].entries[i]
  BY <1>1, <1>3 DEF IsAdded
<1>6. CASE b = Len(ds)
  <2>1. l = k + 1 /\ ds2[b].entries[k + 1] = e
    BY <1>3, <1>4, <1>6 DEF IsAdded
  <2>2. \A i \in 1 .. l : i \in 1 .. k \/ i = k + 1
    BY <2>1
  <2>3. \A i \in 1 .. k : i \in 1 .. l
    BY <2>1
  <2> QED BY <1>2, <1>3, <1>4, <1>5, <1>6, <2>1, <2>2, <2>3
<1>7. CASE b # Len(ds)
  <2>1. ds2[b] = ds[b] BY <1>1, <1>7 DEF IsAdded
  <2> QED BY <2>1, <1>2
<1> QED BY <1>6, <1>7

(* A new entry whose data is at the end keeps the layout.                  *)
LEMMA AddedLayout ==
  ASSUME NEW ds, Layout(ds), NEW e \in Stored, Fits(ds, e.off), Unlisted(ds, e.name),
         Len(ds[Len(ds)].entries) < PerBlock, NEW ds2, IsAdded(ds, ds2, e)
  PROVE  Layout(ds2)
<1> DEFINE m == Len(ds)
<1>0. /\ ds \in Seq(Block) /\ m \in Nat /\ m >= 1 /\ FirstDir < e.off
      /\ e.off \in Nat /\ e.size \in Nat
      /\ ds[1].offset = FirstDir /\ PerBlock \in Nat
  BY BigFileAssumption, StoredTypes DEF Layout, Linked, Fits
<1>1. /\ ds2 \in Seq(Block) /\ Len(ds2) = m
      /\ \A b \in 1 .. m : ds2[b].offset = ds[b].offset /\ ds2[b].next = ds[b].next
                           /\ (b # m => ds2[b] = ds[b])
      /\ Len(ds2[m].entries) = Len(ds[m].entries) + 1
  BY DEF IsAdded
<1>2. \A b \in 1 .. m :
           /\ Len(ds2[b].entries) \in Nat /\ Len(ds[b].entries) \in Nat
           /\ \A i \in 1 .. Len(ds[b].entries) :
                i \in 1 .. Len(ds2[b].entries) /\ ds2[b].entries[i] = ds[b].entries[i]
           /\ \A i \in 1 .. Len(ds2[b].entries) :
                \/ i \in 1 .. Len(ds[b].entries)
                \/ /\ b = m /\ i = Len(ds[b].entries) + 1 /\ ds2[b].entries[i] = e
  BY <1>0, <1>1, AddedPlaces
<1>x. /\ \A b, d \in 1 .. m : b < d => ds[b].offset < ds[d].offset
      /\ \A b \in 1 .. m - 1 : ds[b].next = ds[b + 1].offset
      /\ ds[m].next = 0
      /\ \A b \in 1 .. m : Len(ds[b].entries) <= PerBlock
      /\ Len(ds[m].entries) < PerBlock
  BY DEF Layout, Linked
<1> HIDE DEF m
<1>4. Linked(ds2)
  <2>1. 1 \in 1 .. m /\ m \in 1 .. m /\ \A b \in 1 .. m - 1 : b \in 1 .. m /\ b + 1 \in 1 .. m
    BY <1>0
  <2>2. ds2[1].offset = FirstDir /\ ds2[m].next = 0
    BY <2>1, <1>0, <1>1, <1>x
  <2>3. ASSUME NEW b \in 1 .. m, NEW d \in 1 .. m, b < d
        PROVE  ds2[b].offset < ds2[d].offset
    <3>1. ds2[b].offset = ds[b].offset /\ ds2[d].offset = ds[d].offset BY <1>1
    <3>2. ds[b].offset < ds[d].offset BY <2>3, <1>x
    <3> QED BY <3>1, <3>2
  <2>4. \A b \in 1 .. m - 1 : ds2[b].next = ds2[b + 1].offset
    BY <2>1, <1>1, <1>x
  <2>5. \A b \in 1 .. m : Len(ds2[b].entries) <= PerBlock
    <3> TAKE b \in 1 .. m
    <3>1. CASE b = m
      <4>1. Len(ds[m].entries) \in Nat BY <2>1, <1>2
      <4> QED BY <3>1, <4>1, <1>0, <1>1, <1>x
    <3>2. CASE b # m
      BY <3>2, <1>1, <1>x
    <3> QED BY <3>1, <3>2
  <2> QED BY <1>0, <1>1, <2>2, <2>3, <2>4, <2>5 DEF Linked
<1>5. \A d \in 1 .. m : ds[d].offset < e.off /\ ds[d].offset \in Nat
  BY <1>0, BlockTypes DEF Fits, m
<1>6. ClearOfDirs(ds2)
  <2> SUFFICES ASSUME NEW b \in 1 .. m, NEW d \in 1 .. m, NEW i \in 1 .. Len(ds2[b].entries)
               PROVE  FirstDir < ds2[b].entries[i].off /\ Clear(ds2[b].entries[i], ds2[d].offset)
    BY <1>1 DEF ClearOfDirs
  <2>1. CASE i \in 1 .. Len(ds[b].entries)
    <3>1. FirstDir < ds[b].entries[i].off /\ Clear(ds[b].entries[i], ds[d].offset)
      BY <2>1 DEF Layout, ClearOfDirs, m
    <3> QED BY <3>1, <2>1, <1>1, <1>2
  <2>2. CASE i \notin 1 .. Len(ds[b].entries)
    <3>1. ds2[b].entries[i] = e BY <2>2, <1>2
    <3> QED BY <3>1, <1>0, <1>1, <1>5 DEF Clear
  <2> QED BY <2>1, <2>2
<1>7. \A d \in 1 .. m : \A j \in 1 .. Len(ds[d].entries) :
        /\ e.name # ds[d].entries[j].name
        /\ Apart(e, ds[d].entries[j]) /\ Apart(ds[d].entries[j], e)
  <2> SUFFICES ASSUME NEW d \in 1 .. m, NEW j \in 1 .. Len(ds[d].entries)
               PROVE  /\ e.name # ds[d].entries[j].name
                      /\ Apart(e, ds[d].entries[j]) /\ Apart(ds[d].entries[j], e)
    OBVIOUS
  <2>1. e.name # ds[d].entries[j].name
    BY DEF Unlisted, m
  <2>2. ds[d].entries[j].size = 0 \/ ds[d].entries[j].off + ds[d].entries[j].size <= e.off
    BY DEF Fits, m
  <2> QED BY <2>1, <2>2 DEF Apart
<1>8. ApartFiles(ds2)
  <2> SUFFICES ASSUME NEW b \in 1 .. m, NEW d \in 1 .. m,
                      NEW i \in 1 .. Len(ds2[b].entries), NEW j \in 1 .. Len(ds2[d].entries),
                      b # d \/ i # j
               PROVE  /\ ds2[b].entries[i].name # ds2[d].entries[j].name
                      /\ Apart(ds2[b].entries[i], ds2[d].entries[j])
    BY <1>1 DEF ApartFiles
  <2>1. CASE i \in 1 .. Len(ds[b].entries) /\ j \in 1 .. Len(ds[d].entries)
    <3>1. ds2[d].entries[j] = ds[d].entries[j] /\ ds2[b].entries[i] = ds[b].entries[i]
      BY <2>1, <1>2
    <3> QED BY <2>1, <3>1 DEF Layout, ApartFiles, m
  <2>2. CASE i \in 1 .. Len(ds[b].entries) /\ j \notin 1 .. Len(ds[d].entries)
    <3>1. ds2[d].entries[j] = e /\ ds2[b].entries[i] = ds[b].entries[i]
      BY <2>2, <1>2
    <3> QED BY <2>2, <3>1, <1>7
  <2>3. CASE i \notin 1 .. Len(ds[b].entries) /\ j \in 1 .. Len(ds[d].entries)
    <3>1. ds2[b].entries[i] = e /\ ds2[d].entries[j] = ds[d].entries[j]
      BY <2>3, <1>2
    <3> QED BY <2>3, <3>1, <1>7
  <2>4. CASE i \notin 1 .. Len(ds[b].entries) /\ j \notin 1 .. Len(ds[d].entries)
    <3>1. b = m /\ d = m /\ i = Len(ds[b].entries) + 1 /\ j = Len(ds[d].entries) + 1
      BY <2>4, <1>2
    <3> QED BY <3>1
  <2> QED BY <2>1, <2>2, <2>3, <2>4
<1> QED BY <1>4, <1>6, <1>8 DEF Layout

(* A new entry whose data is at the end: the new end, the files and the    *)
(* disk.                                                                   *)
LEMMA AddedRest ==
  ASSUME NEW c, CellTypes(c), NEW s, NEW ds, Layout(ds), NEW e \in Stored, Fits(ds, e.off),
         e.off + e.size <= MaxUnits, Unlisted(ds, e.name),
         NEW ds2, IsAdded(ds, ds2, e)
  PROVE  /\ Fits(ds2, e.off + e.size)
         /\ MemFresh(c, s, ds) /\ FreshEntry(c, s, e) => MemFresh(c, s, ds2)
         /\ Behind(c, s, ds) => Behind(c, s, ds2)
<1> DEFINE m == Len(ds)
<1>0. /\ ds \in Seq(Block) /\ m \in Nat /\ m >= 1 /\ FirstDir < e.off
      /\ e.off \in Nat /\ e.size \in Nat /\ m \in 1 .. m
  BY BigFileAssumption, StoredTypes DEF Layout, Linked, Fits
<1>1. /\ ds2 \in Seq(Block) /\ Len(ds2) = m
      /\ \A b \in 1 .. m : ds2[b].offset = ds[b].offset /\ ds2[b].next = ds[b].next
                           /\ (b # m => ds2[b] = ds[b])
      /\ Len(ds2[m].entries) = Len(ds[m].entries) + 1 /\ ds2[m].changed = TRUE
  BY DEF IsAdded
<1>2. \A b \in 1 .. m :
           /\ Len(ds2[b].entries) \in Nat /\ Len(ds[b].entries) \in Nat
           /\ \A i \in 1 .. Len(ds[b].entries) :
                i \in 1 .. Len(ds2[b].entries) /\ ds2[b].entries[i] = ds[b].entries[i]
           /\ \A i \in 1 .. Len(ds2[b].entries) :
                \/ i \in 1 .. Len(ds[b].entries)
                \/ /\ b = m /\ i = Len(ds[b].entries) + 1 /\ ds2[b].entries[i] = e
  BY <1>0, <1>1, AddedPlaces
<1>f. \A b \in 1 .. m : ds[b].offset < e.off /\ ds[b].offset \in Nat
  BY <1>0, BlockTypes DEF Fits
<1> HIDE DEF m
<1>3. Fits(ds2, e.off + e.size)
  <2>1. ASSUME NEW b \in 1 .. m PROVE ds2[b].offset < e.off + e.size
    BY <1>0, <1>1, <1>f
  <2>2. ASSUME NEW b \in 1 .. m, NEW i \in 1 .. Len(ds2[b].entries)
        PROVE  ds2[b].entries[i].size = 0
                 \/ ds2[b].entries[i].off + ds2[b].entries[i].size <= e.off + e.size
    <3>1. CASE i \in 1 .. Len(ds[b].entries)
      <4>1. ds2[b].entries[i] = ds[b].entries[i] BY <3>1, <1>2
      <4>2. ds[b].entries[i].size = 0 \/ ds[b].entries[i].off + ds[b].entries[i].size <= e.off
        BY <3>1 DEF Fits, m
      <4>3. ds[b].entries[i].off \in Nat /\ ds[b].entries[i].size \in Nat
        BY <3>1, <1>0, EntryTypes DEF m
      <4>4. PICK o \in Nat : o = ds[b].entries[i].off BY <4>3
      <4>5. PICK z \in Nat : z = ds[b].entries[i].size BY <4>3
      <4>6. PICK p \in Nat : p = e.off BY <1>0
      <4>7. PICK q \in Nat : q = e.size BY <1>0
      <4>9. z = 0 \/ o + z <= p BY <4>2, <4>4, <4>5, <4>6
      <4> HIDE <4>2
      <4>8. z = 0 \/ o + z <= p + q BY <4>9
      <4> QED BY <4>1, <4>4, <4>5, <4>6, <4>7, <4>8
    <3>2. CASE i \notin 1 .. Len(ds[b].entries)
      <4>1. ds2[b].entries[i] = e BY <3>2, <1>2
      <4> QED BY <4>1, <1>0
    <3> QED BY <3>1, <3>2
  <2>3. e.off + e.size \in Nat /\ FirstDir < e.off + e.size
    BY <1>0 DEF FirstDir
  <2> QED BY <2>1, <2>2, <2>3, <1>1 DEF Fits
<1>4. ASSUME MemFresh(c, s, ds), FreshEntry(c, s, e) PROVE MemFresh(c, s, ds2)
  <2> SUFFICES ASSUME NEW b \in 1 .. m, NEW i \in 1 .. Len(ds2[b].entries)
               PROVE  FreshEntry(c, s, ds2[b].entries[i])
    BY <1>1 DEF MemFresh
  <2>1. CASE i \in 1 .. Len(ds[b].entries)
    <3>1. ds2[b].entries[i] = ds[b].entries[i] BY <2>1, <1>2
    <3> QED BY <1>4, <2>1, <3>1 DEF MemFresh, m
  <2>2. CASE i \notin 1 .. Len(ds[b].entries)
    <3>1. ds2[b].entries[i] = e BY <2>2, <1>2
    <3> QED BY <1>4, <3>1
  <2> QED BY <2>1, <2>2
<1>5. ASSUME Behind(c, s, ds) PROVE Behind(c, s, ds2)
  <2>1. OnlyDirs(c, ds2)
    BY <1>1, <1>5 DEF OnlyDirs, Behind, m
  <2>2. ASSUME NEW b \in 1 .. m PROVE NotAhead(c, s, ds2[b])
    <3>0. NotAhead(c, s, ds[b]) BY <1>5 DEF Behind, m
    <3>1. CASE b # m
      BY <3>0, <3>1, <1>1
    <3>2. CASE b = m
      <4> DEFINE u == ds[b].offset
      <4>1. /\ u \in Units /\ (c[u].kind = "dir" => c[u].next \in {ds[b].next, 0})
            /\ Len(Seen(c, u)) <= Len(ds[b].entries)
            /\ \A i \in 1 .. Len(Seen(c, u)) :
                 /\ Seen(c, u)[i].name = ds[b].entries[i].name
                 /\ Seen(c, u)[i].time = s[ds[b].entries[i].name].time =>
                      Seen(c, u)[i] = ds[b].entries[i]
        BY <3>0 DEF NotAhead
      <4>2. Len(Seen(c, u)) \in Nat
        BY <4>1, SeenIsSeq
      <4>3. /\ ds2[b].offset = u /\ ds2[b].next = ds[b].next /\ ds2[b].changed = TRUE
            /\ Len(ds2[b].entries) = Len(ds[b].entries) + 1 /\ Len(ds[b].entries) \in Nat
        BY <3>2, <1>1, <1>2
      <4> HIDE DEF u
      <4>4. \A i \in 1 .. Len(Seen(c, u)) :
              i \in 1 .. Len(ds[b].entries) /\ ds2[b].entries[i] = ds[b].entries[i]
        BY <4>1, <4>2, <4>3, <1>2, WiderRange
      <4>5. \A i \in 1 .. Len(Seen(c, u)) :
                 /\ Seen(c, u)[i].name = ds2[b].entries[i].name
                 /\ Seen(c, u)[i].time = s[ds2[b].entries[i].name].time =>
                      Seen(c, u)[i] = ds2[b].entries[i]
        BY <4>1, <4>4
      <4>6. Len(Seen(c, u)) <= Len(ds2[b].entries)
        BY <4>1, <4>2, <4>3
      <4> QED BY <4>1, <4>3, <4>5, <4>6 DEF NotAhead
    <3> QED BY <3>1, <3>2
  <2> QED BY <2>1, <2>2, <1>1, <1>5 DEF Behind
<1> QED BY <1>3, <1>4, <1>5

-----------------------------------------------------------------------------
(* One unit is written that no file has.                                   *)
LEMMA WriteKeepsFile ==
  ASSUME NEW c, c = [u \in Units |-> c[u]], NEW o, NEW x, NEW f \in Stored, IntactIn(c, f),
         f.size = 0 \/ o < f.off \/ f.off + f.size <= o, o \in Nat
  PROVE  IntactIn([c EXCEPT ![o] = x], f)
<1> DEFINE c2 == [c EXCEPT ![o] = x]
<1>1. f.off \in Nat /\ f.size \in Nat
  BY StoredTypes
<1> SUFFICES ASSUME NEW j \in 0 .. f.size - 1
             PROVE  c2[f.off + j] = [kind |-> "data", name |-> f.name, time |-> f.time, pos |-> j]
  BY DEF IntactIn
<1>2. PICK a \in Nat : a = f.off BY <1>1
<1>3. PICK z \in Nat : z = f.size BY <1>1
<1>4. j \in Nat /\ j < z /\ (z = 0 \/ o < a \/ a + z <= o)
  BY <1>2, <1>3
<1>5. a + j # o
  BY <1>4
<1>6. c2[f.off + j] = c[f.off + j]
  BY <1>2, <1>5
<1> QED BY <1>6 DEF IntactIn

(* Writing the root or a directory block leaves all files alone.           *)
LEMMA WriteKeepsFiles ==
  ASSUME NEW c, c = [u \in Units |-> c[u]], NEW s, NEW ds, Layout(ds), MemFresh(c, s, ds),
         NEW o, o \in Nat, o = 0 \/ \E b \in 1 .. Len(ds) : o = ds[b].offset, NEW x
  PROVE  MemFresh([c EXCEPT ![o] = x], s, ds)
<1> DEFINE c2 == [c EXCEPT ![o] = x]
<1>0. ds \in Seq(Block)
  BY DEF Layout, Linked
<1> SUFFICES ASSUME NEW b \in 1 .. Len(ds), NEW i \in 1 .. Len(ds[b].entries)
             PROVE  FreshEntry(c2, s, ds[b].entries[i])
  BY DEF MemFresh
<1>1. PICK f \in Stored : f = ds[b].entries[i]
  BY <1>0, EntryTypes
<1>2. FreshEntry(c, s, f)
  BY <1>1 DEF MemFresh
<1>3. f.size = 0 \/ o < f.off \/ f.off + f.size <= o
  <2>1. CASE o = 0
    <3>1. FirstDir < f.off BY <1>1 DEF Layout, ClearOfDirs
    <3> QED BY <2>1, <3>1, StoredTypes DEF FirstDir
  <2>2. CASE \E d \in 1 .. Len(ds) : o = ds[d].offset
    <3>1. PICK d \in 1 .. Len(ds) : o = ds[d].offset BY <2>2
    <3>2. Clear(f, ds[d].offset) BY <1>1 DEF Layout, ClearOfDirs
    <3> QED BY <3>1, <3>2 DEF Clear
  <2> QED BY <2>1, <2>2
<1>4. ASSUME f.time = s[f.name].time PROVE IntactIn(c2, f)
  <2>1. IntactIn(c, f) BY <1>2, <1>4 DEF FreshEntry
  <2> QED BY <2>1, <1>3, WriteKeepsFile
<1> QED BY <1>1, <1>2, <1>4 DEF FreshEntry

(* What the memory knows to be there is there on the disk.                 *)
LEMMA FreshByMemory ==
  ASSUME NEW c, CellTypes(c), NEW s, NEW ds, ds \in Seq(Block),
         OnlyDirs(c, ds), \A b \in 1 .. Len(ds) : NotAhead(c, s, ds[b]),
         MemFresh(c, s, ds),
         \A u \in Units : \A i \in 1 .. Len(Seen(c, u)) :
           Seen(c, u)[i].time <= s[Seen(c, u)[i].name].time
  PROVE  Fresh(c, s)
<1> SUFFICES ASSUME NEW u \in Units, NEW i \in 1 .. Len(Seen(c, u))
             PROVE  FreshEntry(c, s, Seen(c, u)[i])
  BY DEF Fresh
<1>2. PICK f : f = Seen(c, u)[i]
  OBVIOUS
<1>3. f.time <= s[f.name].time
  BY <1>2
<1>4. ASSUME f.time = s[f.name].time PROVE IntactIn(c, f)
  <2>1. c[u].kind = "dir"
    BY DEF Seen
  <2>2. PICK b \in 1 .. Len(ds) : u = ds[b].offset
    BY <2>1 DEF OnlyDirs
  <2>3. NotAhead(c, s, ds[b])
    OBVIOUS
  <2>4. f.name = ds[b].entries[i].name /\ f = ds[b].entries[i]
    BY <1>2, <1>4, <2>2, <2>3 DEF NotAhead
  <2>5. i \in 1 .. Len(ds[b].entries)
    <3>1. Len(Seen(c, u)) <= Len(ds[b].entries)
      BY <2>2, <2>3 DEF NotAhead
    <3>2. Len(Seen(c, u)) \in Nat /\ Len(ds[b].entries) \in Nat
      BY SeenIsSeq, BlockTypes
    <3> QED BY <3>1, <3>2, WiderRange
  <2>6. FreshEntry(c, s, f)
    BY <2>4, <2>5 DEF MemFresh
  <2> QED BY <1>4, <2>6 DEF FreshEntry
<1> QED BY <1>2, <1>3, <1>4 DEF FreshEntry

(* Without directory blocks no entry can be seen.                          *)
LEMMA NoDirsFresh ==
  ASSUME NEW c, NEW s, NoDirs(c)
  PROVE  Fresh(c, s)
<1>1. \A u \in Units : Seen(c, u) = <<>>
  BY DEF NoDirs, Seen
<1>2. \A u \in Units : Len(Seen(c, u)) = 0
  BY <1>1
<1> QED BY <1>2 DEF Fresh

(* Blocks of which only the marks differ.                                  *)
SameBlocks(ds, ds2) ==
  /\ ds2 \in Seq(Block) /\ Len(ds2) = Len(ds)
  /\ \A b \in 1 .. Len(ds) : ds2[b].offset = ds[b].offset /\ ds2[b].next = ds[b].next
                             /\ ds2[b].entries = ds[b].entries

(* Clearing m_changed keeps everything said of the memory.                 *)
LEMMA SameBlocksKeep ==
  ASSUME NEW ds, NEW ds2, SameBlocks(ds, ds2), Layout(ds)
  PROVE  /\ Layout(ds2)
         /\ \A end : Fits(ds, end) => Fits(ds2, end)
         /\ \A c, s : MemFresh(c, s, ds) => MemFresh(c, s, ds2)
         /\ \A c, left : Witnessed(c, ds, left) => Witnessed(c, ds2, left)
         /\ \A h, left : HashFits(ds, h, left) => HashFits(ds2, h, left)
<1>0. /\ ds2 \in Seq(Block) /\ Len(ds2) = Len(ds) /\ Len(ds) \in Nat /\ Len(ds) >= 1
      /\ \A b \in 1 .. Len(ds) : ds2[b].offset = ds[b].offset /\ ds2[b].next = ds[b].next
                                 /\ ds2[b].entries = ds[b].entries
  BY DEF SameBlocks, Layout, Linked
<1>1. Linked(ds2)
  <2>1. /\ 1 \in 1 .. Len(ds) /\ Len(ds) \in 1 .. Len(ds)
        /\ \A b \in 1 .. Len(ds) - 1 : b \in 1 .. Len(ds) /\ b + 1 \in 1 .. Len(ds)
    BY <1>0
  <2>2. ds2[1].offset = FirstDir /\ ds2[Len(ds2)].next = 0
    BY <1>0, <2>1 DEF Layout, Linked
  <2>3. \A b, d \in 1 .. Len(ds2) : b < d => ds2[b].offset < ds2[d].offset
    BY <1>0 DEF Layout, Linked
  <2>4. \A b \in 1 .. Len(ds2) - 1 : ds2[b].next = ds2[b + 1].offset
    BY <1>0, <2>1 DEF Layout, Linked
  <2>5. \A b \in 1 .. Len(ds2) : Len(ds2[b].entries) <= PerBlock
    BY <1>0 DEF Layout, Linked
  <2> QED BY <1>0, <2>2, <2>3, <2>4, <2>5 DEF Linked
<1>2. ClearOfDirs(ds2)
  BY <1>0 DEF Layout, ClearOfDirs
<1>3. ApartFiles(ds2)
  <2> SUFFICES ASSUME NEW b \in 1 .. Len(ds), NEW d \in 1 .. Len(ds),
                      NEW i \in 1 .. Len(ds2[b].entries), NEW j \in 1 .. Len(ds2[d].entries),
                      b # d \/ i # j
               PROVE  /\ ds2[b].entries[i].name # ds2[d].entries[j].name
                      /\ Apart(ds2[b].entries[i], ds2[d].entries[j])
    BY <1>0 DEF ApartFiles
  <2>1. ds2[b].entries = ds[b].entries /\ ds2[d].entries = ds[d].entries
    BY <1>0
  <2> QED BY <2>1 DEF Layout, ApartFiles
<1>4. \A end : Fits(ds, end) => Fits(ds2, end)
  BY <1>0 DEF Fits
<1>5. \A c, s : MemFresh(c, s, ds) => MemFresh(c, s, ds2)
  BY <1>0 DEF MemFresh
<1>6. \A c, left : Witnessed(c, ds, left) => Witnessed(c, ds2, left)
  BY <1>0 DEF Witnessed
<1>7. ASSUME NEW h, NEW left, HashFits(ds, h, left) PROVE HashFits(ds2, h, left)
  <2>1. \A n : Unlisted(ds, n) => Unlisted(ds2, n)
    BY <1>0 DEF Unlisted
  <2>2. \A n, r : ListedAt(ds, n, r) => ListedAt(ds2, n, r)
    BY <1>0 DEF ListedAt
  <2> QED BY <1>7, <2>1, <2>2 DEF HashFits
<1> QED BY <1>1, <1>2, <1>3, <1>4, <1>5, <1>6, <1>7 DEF Layout

-----------------------------------------------------------------------------
(* A block's place that is not written stays behind the memory.            *)
LEMMA CellNotAhead ==
  ASSUME NEW c, NEW c2, NEW s, NEW d, c2[d.offset] = c[d.offset], NotAhead(c, s, d)
  PROVE  NotAhead(c2, s, d)
<1>1. Seen(c2, d.offset) = Seen(c, d.offset)
  BY DEF Seen
<1>2. d.changed \/ Written(c2, d)
  BY <1>1 DEF NotAhead, Written
<1> QED BY <1>1, <1>2 DEF NotAhead

Marked(d) == d.changed

(* One cell is written.                                                    *)
IsPut(c, c2, o, x) == c2 = [c EXCEPT ![o] = x]

(* Where the blocks are.                                                   *)
LEMMA BlockPlaces ==
  ASSUME NEW ds, Linked(ds), NEW b \in 1 .. Len(ds)
  PROVE  /\ ds[b].offset \in Nat /\ ds[b].offset # 0
         /\ \A d \in 1 .. Len(ds) : ds[d].offset = ds[b].offset => d = b
<1>0. ds \in Seq(Block) /\ Len(ds) \in Nat /\ Len(ds) >= 1 /\ ds[1].offset = 1
  BY DEF Linked, FirstDir
<1>1. ds[b].offset \in Nat
  BY <1>0, BlockTypes
<1>2. ds[b].offset # 0
  <2>1. CASE b = 1 BY <2>1, <1>0
  <2>2. CASE b # 1
    <3>1. 1 \in 1 .. Len(ds) /\ 1 < b BY <2>2, <1>0
    <3>2. ds[1].offset < ds[b].offset BY <3>1 DEF Linked
    <3> QED BY <3>2, <1>0, <1>1
  <2> QED BY <2>1, <2>2
<1>3. ASSUME NEW d \in 1 .. Len(ds), ds[d].offset = ds[b].offset, d # b PROVE FALSE
  <2>1. b < d => ds[b].offset < ds[d].offset
    BY DEF Linked
  <2>2. d < b => ds[d].offset < ds[b].offset
    BY DEF Linked
  <2>3. b < d \/ d < b
    BY <1>3, <1>0
  <2> QED BY <1>3, <1>1, <2>1, <2>2, <2>3
<1> QED BY <1>1, <1>2, <1>3

(* What the cell of a directory block is, while it is written.             *)
HasBody(x, old, d) ==
  IF old.kind = "dir"
  THEN /\ x.kind = "dir" /\ x.body = d.entries /\ x.num = old.num /\ x.next = old.next
       /\ x \in DirCell
  ELSE x = [kind |-> "body", body |-> d.entries]

(* The unit WriteBody writes.                                              *)
LEMMA BodyIs ==
  ASSUME NEW old, old.kind = "dir" => old \in DirCell, NEW d \in Block
  PROVE  HasBody(IF old.kind = "dir" THEN [old EXCEPT !.body = d.entries]
                 ELSE [kind |-> "body", body |-> d.entries], old, d)
<1>1. CASE old.kind = "dir"
  <2>1. d.entries \in Seq(Stored) /\ old \in DirCell
    BY <1>1 DEF Block
  <2> DEFINE x == [old EXCEPT !.body = d.entries]
  <2>2. x \in DirCell /\ x.kind = "dir" /\ x.body = d.entries /\ x.num = old.num /\ x.next = old.next
    BY <2>1 DEF DirCell
  <2> QED BY <1>1, <2>2 DEF HasBody
<1>2. CASE old.kind # "dir"
  BY <1>2 DEF HasBody
<1> QED BY <1>1, <1>2

(* After the body: the header on the disk still counts the old entries,    *)
(* and the new body begins with them.                                      *)
LEMMA BodyWritten ==
  ASSUME NEW c, CellTypes(c), NEW s, NEW ds, Layout(ds), Behind(c, s, ds), MemFresh(c, s, ds),
         Fresh(c, s), NEW b0 \in 1 .. Len(ds), Marked(ds[b0]), NEW x,
         HasBody(x, c[ds[b0].offset], ds[b0]), NEW c2, IsPut(c, c2, ds[b0].offset, x)
  PROVE  CellTypes(c2) /\ Behind(c2, s, ds) /\ MemFresh(c2, s, ds) /\ Fresh(c2, s)
<1> DEFINE o == ds[b0].offset
<1>0. /\ ds \in Seq(Block) /\ Linked(ds) /\ o \in Nat /\ o # 0 /\ o \in Units
      /\ ds[b0].entries \in Seq(Stored) /\ Len(ds[b0].entries) \in Nat
      /\ NotAhead(c, s, ds[b0]) /\ c = [u \in Units |-> c[u]]
  BY BlockPlaces, BlockTypes DEF Layout, Linked, Behind, NotAhead, CellTypes
<1>1. /\ c2 = [u \in Units |-> c2[u]] /\ c2[o] = x
      /\ \A u \in Units : u # o => c2[u] = c[u]
  BY <1>0 DEF IsPut
<1>2. c2[0] = c[0]
  BY <1>0, <1>1, UnitOne
<1>3. \A u \in Units : c2[u].kind = "dir" <=> c[u].kind = "dir"
  BY <1>1 DEF HasBody
<1>a. ASSUME c[o].kind = "dir"
      PROVE  /\ x \in DirCell /\ x.num = c[o].num /\ x.next = c[o].next /\ x.num \in Nat
             /\ x.body = ds[b0].entries /\ x.num <= Len(ds[b0].entries)
  <2>1. x \in DirCell /\ x.num = c[o].num /\ x.next = c[o].next /\ x.body = ds[b0].entries
    BY <1>a DEF HasBody
  <2>2. x.num \in Nat BY <2>1 DEF DirCell
  <2>3. Len(Seen(c, o)) = c[o].num BY <1>0, <1>a, SeenIsSeq
  <2>4. Len(Seen(c, o)) <= Len(ds[b0].entries) BY <1>0 DEF NotAhead
  <2> QED BY <2>1, <2>2, <2>3, <2>4
<1>4. CellTypes(c2)
  <2>1. ASSUME NEW u \in Units, c2[u].kind = "dir"
        PROVE  c2[u] \in DirCell /\ c2[u].num <= Len(c2[u].body)
    <3>1. CASE u = o
      BY <3>1, <2>1, <1>1, <1>3, <1>a
    <3>2. CASE u # o
      BY <3>2, <2>1, <1>1 DEF CellTypes
    <3> QED BY <3>1, <3>2
  <2> QED BY <2>1, <1>1, <1>2 DEF CellTypes
<1>b. ASSUME c[o].kind = "dir"
      PROVE  /\ Len(Seen(c2, o)) = x.num
             /\ \A i \in 1 .. x.num : Seen(c2, o)[i] = ds[b0].entries[i]
  <2>1. c2[o].kind = "dir" /\ o \in Units
    BY <1>b, <1>0, <1>3
  <2>2. /\ Len(Seen(c2, o)) = c2[o].num
        /\ \A i \in 1 .. c2[o].num : Seen(c2, o)[i] = c2[o].body[i]
    BY <2>1, <1>4, SeenIsSeq
  <2>3. c2[o].num = x.num /\ c2[o].body = ds[b0].entries
    BY <1>b, <1>a, <1>1
  <2> QED BY <2>2, <2>3
<1>5. MemFresh(c2, s, ds)
  BY <1>0, WriteKeepsFiles DEF IsPut
<1>6. ASSUME NEW b \in 1 .. Len(ds) PROVE NotAhead(c2, s, ds[b])
  <2>1. CASE b = b0
    <3>1. CASE c[o].kind = "dir"
      <4>1. /\ c2[o].kind = "dir" /\ c2[o].next = c[o].next /\ Len(Seen(c2, o)) <= Len(ds[b0].entries)
            /\ \A i \in 1 .. Len(Seen(c2, o)) : Seen(c2, o)[i] = ds[b0].entries[i]
        BY <3>1, <1>a, <1>b, <1>1, <1>3, <1>0
      <4> QED BY <2>1, <4>1, <3>1, <1>0 DEF NotAhead, Marked
    <3>2. CASE c[o].kind # "dir"
      <4>1. c2[o].kind # "dir" BY <3>2, <1>0, <1>3
      <4>2. Seen(c2, o) = <<>> BY <4>1 DEF Seen
      <4>3. Len(Seen(c2, o)) = 0 BY <4>2
      <4> QED BY <2>1, <4>1, <4>3, <1>0 DEF NotAhead, Marked
    <3> QED BY <3>1, <3>2
  <2>2. CASE b # b0
    <3>1. NotAhead(c, s, ds[b]) BY DEF Behind
    <3>2. ds[b].offset # o BY <2>2, <1>0, BlockPlaces
    <3>3. ds[b].offset \in Units BY <3>1 DEF NotAhead
    <3>4. c2[ds[b].offset] = c[ds[b].offset] BY <3>2, <3>3, <1>1
    <3> QED BY <3>1, <3>4, CellNotAhead
  <2> QED BY <2>1, <2>2
<1>7. OnlyDirs(c2, ds) /\ c2[FirstDir].kind = "dir"
  BY <1>3, UnitOne DEF Behind, OnlyDirs
<1>8. ASSUME NEW u \in Units, NEW i \in 1 .. Len(Seen(c2, u))
      PROVE  Seen(c2, u)[i].time <= s[Seen(c2, u)[i].name].time
  <2>0. c2[u].kind = "dir" BY DEF Seen
  <2>1. CASE u = o
    <3>1. c[o].kind = "dir" BY <2>0, <2>1, <1>0, <1>3
    <3>2. i \in 1 .. Len(ds[b0].entries) /\ Seen(c2, u)[i] = ds[b0].entries[i]
      BY <3>1, <2>1, <1>a, <1>b, <1>0, WiderRange
    <3>3. FreshEntry(c, s, ds[b0].entries[i]) BY <3>2 DEF MemFresh
    <3> QED BY <3>2, <3>3 DEF FreshEntry
  <2>2. CASE u # o
    <3>1. c2[u] = c[u] BY <2>2, <1>1
    <3>2. Seen(c2, u) = Seen(c, u) BY <3>1 DEF Seen
    <3>3. FreshEntry(c, s, Seen(c, u)[i]) BY <3>2 DEF Fresh
    <3> QED BY <3>2, <3>3 DEF FreshEntry
  <2> QED BY <2>1, <2>2
<1>9. Fresh(c2, s)
  BY <1>0, <1>4, <1>5, <1>6, <1>7, <1>8, FreshByMemory
<1> QED BY <1>1, <1>2, <1>4, <1>5, <1>6, <1>7, <1>9 DEF Behind

-----------------------------------------------------------------------------
(* The mark of a block is taken off.                                       *)
Clean(d) == [d EXCEPT !.changed = FALSE]
IsCleaned(ds, ds2, b0) ==
  /\ SameBlocks(ds, ds2) /\ ds2[b0].changed = FALSE
  /\ \A b \in 1 .. Len(ds) : b # b0 => ds2[b] = ds[b]

(* Clearing m_changed, as a record.                                        *)
LEMMA CleanIs ==
  ASSUME NEW r \in Block, NEW y,
         y = [offset |-> r.offset, next |-> r.next, entries |-> r.entries, changed |-> FALSE]
  PROVE  Clean(r) = y
<1> DEFINE x == Clean(r)
<1>1. DOMAIN x = {"offset", "next", "entries", "changed"} /\ DOMAIN y = DOMAIN x
  BY DEF Block, Clean
<1>2. x.offset = y.offset /\ x.next = y.next /\ x.entries = y.entries /\ x.changed = y.changed
  BY DEF Block, Clean
<1> QED BY <1>1, <1>2 DEF Clean

(* Clearing m_changed of one block changes nothing else.                   *)
LEMMA CleanedFacts ==
  ASSUME NEW ds, ds \in Seq(Block), NEW b0 \in 1 .. Len(ds), NEW ds2,
         ds2 = [ds EXCEPT ![b0].changed = FALSE]
  PROVE  IsCleaned(ds, ds2, b0)
<1> DEFINE d == Clean(ds[b0])
<1>1. /\ ds[b0] \in Block /\ ds[b0].entries \in Seq(Stored)
      /\ ds[b0].offset \in Nat /\ ds[b0].next \in Nat
  BY BlockTypes
<1>2. /\ d \in Block /\ d.offset = ds[b0].offset /\ d.next = ds[b0].next
      /\ d.entries = ds[b0].entries /\ d.changed = FALSE
  <2>1. d = [offset |-> ds[b0].offset, next |-> ds[b0].next,
             entries |-> ds[b0].entries, changed |-> FALSE]
    BY <1>1, CleanIs
  <2> HIDE DEF d
  <2> QED BY <1>1, <2>1 DEF Block
<1>3. ds2 = [ds EXCEPT ![b0] = d]
  BY DEF Clean
<1> HIDE DEF d
<1>4. /\ ds2 \in Seq(Block) /\ Len(ds2) = Len(ds) /\ ds2[b0] = d
      /\ \A b \in 1 .. Len(ds) : b # b0 => ds2[b] = ds[b]
  <2>1. /\ [ds EXCEPT ![b0] = d] \in Seq(Block) /\ Len([ds EXCEPT ![b0] = d]) = Len(ds)
        /\ [ds EXCEPT ![b0] = d][b0] = d
        /\ \A b \in 1 .. Len(ds) : b # b0 => [ds EXCEPT ![b0] = d][b] = ds[b]
    BY <1>2, ExceptSeq
  <2> QED BY <2>1, <1>3
<1>5. \A b \in 1 .. Len(ds) : ds2[b].offset = ds[b].offset /\ ds2[b].next = ds[b].next
                              /\ ds2[b].entries = ds[b].entries
  BY <1>2, <1>4
<1> QED BY <1>2, <1>4, <1>5 DEF IsCleaned, SameBlocks

DirCellOf(d) ==
  [kind |-> "dir", body |-> d.entries, num |-> Len(d.entries), next |-> d.next]

(* After the header the block on the disk is the one in memory.            *)
LEMMA HeaderWritten ==
  ASSUME NEW c, CellTypes(c), NEW s, NEW ds, Layout(ds), Behind(c, s, ds), MemFresh(c, s, ds),
         Fresh(c, s), NEW b0 \in 1 .. Len(ds), NEW ds2, IsCleaned(ds, ds2, b0),
         NEW c2, IsPut(c, c2, ds[b0].offset, DirCellOf(ds[b0]))
  PROVE  /\ CellTypes(c2) /\ c2[0] = c[0] /\ Behind(c2, s, ds2) /\ MemFresh(c2, s, ds2)
         /\ Fresh(c2, s)
<1> DEFINE o == ds[b0].offset
           x == DirCellOf(ds[b0])
<1>0. /\ ds \in Seq(Block) /\ Linked(ds) /\ o \in Nat /\ o # 0 /\ o \in Units
      /\ ds[b0].entries \in Seq(Stored) /\ Len(ds[b0].entries) \in Nat /\ ds[b0].next \in Nat
      /\ NotAhead(c, s, ds[b0]) /\ c = [u \in Units |-> c[u]]
  BY BlockPlaces, BlockTypes DEF Layout, Linked, Behind, NotAhead, CellTypes
<1>1. /\ c2 = [u \in Units |-> c2[u]] /\ c2[o] = x
      /\ \A u \in Units : u # o => c2[u] = c[u]
  BY <1>0 DEF IsPut
<1>2. c2[0] = c[0]
  BY <1>0, <1>1, UnitOne
<1>3. /\ x \in DirCell /\ x.kind = "dir" /\ x.num = Len(ds[b0].entries)
      /\ x.body = ds[b0].entries /\ x.next = ds[b0].next /\ x.num <= Len(x.body)
  BY <1>0 DEF DirCell, DirCellOf
<1>d. /\ ds2 \in Seq(Block) /\ Len(ds2) = Len(ds) /\ ds2[b0].changed = FALSE
      /\ \A b \in 1 .. Len(ds) : /\ ds2[b].offset = ds[b].offset /\ ds2[b].next = ds[b].next
                                 /\ ds2[b].entries = ds[b].entries
                                 /\ b # b0 => ds2[b] = ds[b]
  BY DEF IsCleaned, SameBlocks
<1> HIDE DEF x
<1>4. CellTypes(c2)
  <2>1. ASSUME NEW u \in Units, c2[u].kind = "dir"
        PROVE  c2[u] \in DirCell /\ c2[u].num <= Len(c2[u].body)
    <3>1. CASE u = o
      BY <3>1, <1>1, <1>3
    <3>2. CASE u # o
      BY <3>2, <2>1, <1>1 DEF CellTypes
    <3> QED BY <3>1, <3>2
  <2> QED BY <2>1, <1>1, <1>2 DEF CellTypes
<1>5. Seen(c2, o) = ds[b0].entries
  <2>1. c2[o].kind = "dir" /\ c2[o].body = ds[b0].entries /\ c2[o].num = Len(ds[b0].entries)
    BY <1>1, <1>3
  <2>2. PICK p \in Seq(Stored) : p = ds[b0].entries BY <1>0
  <2>3. SubSeq(p, 1, Len(p)) = p OBVIOUS
  <2> QED BY <2>1, <2>2, <2>3 DEF Seen
<1>6. MemFresh(c2, s, ds)
  BY <1>0, WriteKeepsFiles DEF x, IsPut
<1>7. MemFresh(c2, s, ds2)
  BY <1>6, SameBlocksKeep DEF IsCleaned
<1>8. ASSUME NEW b \in 1 .. Len(ds2) PROVE NotAhead(c2, s, ds2[b])
  <2>0. b \in 1 .. Len(ds) BY <1>d
  <2>1. CASE b = b0
    <3>1. /\ ds2[b].offset = o /\ ds2[b].next = ds[b0].next /\ ds2[b].entries = ds[b0].entries
      BY <2>1, <1>d
    <3>2. c2[o].kind = "dir" /\ c2[o].next = ds[b0].next
      BY <1>1, <1>3
    <3> HIDE DEF o
    <3>3. Written(c2, ds2[b])
      BY <3>1, <3>2, <1>5 DEF Written
    <3>4. /\ Len(Seen(c2, o)) <= Len(ds2[b].entries)
          /\ \A i \in 1 .. Len(Seen(c2, o)) : Seen(c2, o)[i] = ds2[b].entries[i]
      <4>1. Seen(c2, o) = ds2[b].entries BY <3>1, <1>5
      <4>2. Len(Seen(c2, o)) \in Nat BY <4>1, <3>1, <1>0
      <4>3. Len(Seen(c2, o)) <= Len(ds2[b].entries) BY <4>1, <4>2
      <4> QED BY <4>1, <4>3
    <3> QED BY <3>1, <3>2, <3>3, <3>4, <1>0 DEF NotAhead
  <2>2. CASE b # b0
    <3>1. NotAhead(c, s, ds[b]) /\ ds2[b] = ds[b] BY <2>0, <2>2, <1>d DEF Behind
    <3>2. ds[b].offset # o BY <2>0, <2>2, <1>0, BlockPlaces
    <3>3. ds[b].offset \in Units BY <3>1 DEF NotAhead
    <3>4. c2[ds[b].offset] = c[ds[b].offset] BY <3>2, <3>3, <1>1
    <3> QED BY <3>1, <3>4, CellNotAhead
  <2> QED BY <2>1, <2>2
<1>9. OnlyDirs(c2, ds2) /\ c2[FirstDir].kind = "dir"
  <2>1. \A u \in Units : c2[u].kind = "dir" => c[u].kind = "dir" \/ u = o
    BY <1>1
  <2>2. c2[FirstDir].kind = "dir"
    BY <1>1, <1>3, UnitOne DEF Behind
  <2> QED BY <2>1, <2>2, <1>d DEF OnlyDirs, Behind
<1>10. ASSUME NEW u \in Units, NEW i \in 1 .. Len(Seen(c2, u))
      PROVE  Seen(c2, u)[i].time <= s[Seen(c2, u)[i].name].time
  <2>1. CASE u = o
    <3>2. i \in 1 .. Len(ds[b0].entries) /\ Seen(c2, u)[i] = ds[b0].entries[i]
      BY <2>1, <1>5
    <3>3. FreshEntry(c, s, ds[b0].entries[i]) BY <3>2 DEF MemFresh
    <3> QED BY <3>2, <3>3 DEF FreshEntry
  <2>2. CASE u # o
    <3>1. c2[u] = c[u] BY <2>2, <1>1
    <3>2. Seen(c2, u) = Seen(c, u) BY <3>1 DEF Seen
    <3>3. FreshEntry(c, s, Seen(c, u)[i]) BY <3>2 DEF Fresh
    <3> QED BY <3>2, <3>3 DEF FreshEntry
  <2> QED BY <2>1, <2>2
<1>11. Fresh(c2, s)
  BY <1>d, <1>4, <1>7, <1>8, <1>9, <1>10, FreshByMemory
<1> QED BY <1>2, <1>4, <1>7, <1>8, <1>9, <1>11 DEF Behind

(* When no block has changes left, the disk has the directory.             *)
LEMMA AllWrittenTidy ==
  ASSUME NEW c, c[0].kind = "root", NEW s, NEW ds, Layout(ds), Behind(c, s, ds),
         NEW left, Witnessed(c, ds, left), AllWritten(ds)
  PROVE  DirOf(c, ds) /\ DiskTidy(c)
<1>1. ASSUME NEW b \in 1 .. Len(ds)
      PROVE  ds[b].offset \in Units /\ Written(c, ds[b]) /\ ~ds[b].changed /\ Begun(c, ds[b])
  <2>1. ~ds[b].changed BY DEF AllWritten
  <2>2. ds[b].offset \in Units /\ Written(c, ds[b]) BY <2>1 DEF Behind, NotAhead
  <2>3. Begun(c, ds[b]) BY DEF Witnessed, Begun
  <2> QED BY <2>1, <2>2, <2>3
<1>2. DirOf(c, ds)
  BY <1>1 DEF DirOf, Behind
<1> QED BY <1>2 DEF DiskTidy

(* The root is written when all of the directory is.                       *)
LEMMA RootWritten ==
  ASSUME NEW c, CellTypes(c), c[0].kind = "root", NEW s, NEW ds, DirOf(c, ds), Behind(c, s, ds),
         MemFresh(c, s, ds), Fresh(c, s), NEW end, NEW waste, Fits(ds, end),
         NEW c2, IsPut(c, c2, 0, Root(end, waste))
  PROVE  /\ CellTypes(c2) /\ Fresh(c2, s) /\ DirOf(c2, ds)
         /\ c2[0].kind = "root" /\ c2[0].curend = end
<1>0. /\ c = [u \in Units |-> c[u]] /\ Layout(ds) /\ ds \in Seq(Block) /\ Linked(ds)
  BY DEF CellTypes, DirOf, Layout, Linked
<1>1. /\ c2 = [u \in Units |-> c2[u]] /\ c2[0] = Root(end, waste)
      /\ \A u \in Units : u # 0 => c2[u] = c[u]
  BY <1>0, UnitOne DEF IsPut
<1>2. c2[0].kind = "root" /\ c2[0].curend = end
  BY <1>1 DEF Root
<1>3. \A u \in Units : (c2[u].kind = "dir" <=> c[u].kind = "dir") /\ Seen(c2, u) = Seen(c, u)
  <2> TAKE u \in Units
  <2>1. CASE u = 0 BY <2>1, <1>2 DEF Seen
  <2>2. CASE u # 0 BY <2>2, <1>1 DEF Seen
  <2> QED BY <2>1, <2>2
<1>4. CellTypes(c2)
  <2>1. ASSUME NEW u \in Units, c2[u].kind = "dir"
        PROVE  c2[u] \in DirCell /\ c2[u].num <= Len(c2[u].body)
    BY <2>1, <1>1, <1>2 DEF CellTypes
  <2> QED BY <2>1, <1>1, <1>2 DEF CellTypes, Fits
<1>5. MemFresh(c2, s, ds)
  <2>1. c2 = [c EXCEPT ![0] = Root(end, waste)] BY DEF IsPut
  <2> QED BY <1>0, <2>1, WriteKeepsFiles
<1>6. ASSUME NEW b \in 1 .. Len(ds) PROVE c2[ds[b].offset] = c[ds[b].offset]
  BY <1>0, <1>1, BlockPlaces DEF DirOf
<1>7. \A b \in 1 .. Len(ds) : NotAhead(c2, s, ds[b])
  BY <1>6, CellNotAhead DEF Behind
<1>8. OnlyDirs(c2, ds)
  BY <1>3 DEF OnlyDirs, DirOf
<1>9. \A u \in Units : \A i \in 1 .. Len(Seen(c2, u)) :
        Seen(c2, u)[i].time <= s[Seen(c2, u)[i].name].time
  BY <1>3 DEF Fresh, FreshEntry
<1>10. Fresh(c2, s)
  BY <1>0, <1>4, <1>5, <1>7, <1>8, <1>9, FreshByMemory
<1>11. ASSUME NEW b \in 1 .. Len(ds)
       PROVE  ds[b].offset \in Units /\ Written(c2, ds[b]) /\ ~ds[b].changed /\ Begun(c2, ds[b])
  <2>1. ds[b].offset \in Units /\ Written(c, ds[b]) /\ ~ds[b].changed BY DEF DirOf
  <2>2. Written(c2, ds[b]) BY <2>1, <1>3, <1>6 DEF Written
  <2>3. Begun(c2, ds[b]) BY <1>2 DEF Begun, Fits
  <2> QED BY <2>1, <2>2, <2>3
<1>12. DirOf(c2, ds)
  BY <1>0, <1>8, <1>11 DEF DirOf
<1> QED BY <1>2, <1>4, <1>10, <1>12

-----------------------------------------------------------------------------
(* A directory of one block is tidy at every moment.                       *)
LEMMA OneBlockTidy ==
  ASSUME NEW c, CellTypes(c), c[0].kind = "root", NEW s, NEW ds, Layout(ds), Len(ds) = 1,
         Behind(c, s, ds),
         \A i \in 1 .. Len(Seen(c, FirstDir)) : Seen(c, FirstDir)[i] = ds[1].entries[i]
  PROVE  DiskTidy(c)
<1> DEFINE d == [offset |-> FirstDir, next |-> 0, entries |-> Seen(c, FirstDir), changed |-> FALSE]
           ds2 == <<d>>
<1>0. /\ ds \in Seq(Block) /\ 1 \in 1 .. Len(ds) /\ ds[1].offset = FirstDir /\ ds[1].next = 0
      /\ Len(ds[1].entries) \in Nat /\ Len(ds[1].entries) <= PerBlock
      /\ NotAhead(c, s, ds[1]) /\ c[FirstDir].kind = "dir" /\ OnlyDirs(c, ds)
  BY BlockTypes DEF Layout, Linked, Behind
<1>1. /\ Seen(c, FirstDir) \in Seq(Stored) /\ Len(Seen(c, FirstDir)) \in Nat
      /\ Len(Seen(c, FirstDir)) <= Len(ds[1].entries) /\ c[FirstDir].next = 0
  BY <1>0, UnitOne, SeenIsSeq DEF NotAhead
<1>2. /\ d \in Block /\ d.offset = FirstDir /\ d.next = 0 /\ d.entries = Seen(c, FirstDir)
      /\ d.changed = FALSE
  BY <1>1, UnitOne DEF Block, FirstDir
<1>3. \A i \in 1 .. Len(d.entries) : i \in 1 .. Len(ds[1].entries) /\ d.entries[i] = ds[1].entries[i]
  BY <1>0, <1>1, <1>2, WiderRange
<1> HIDE DEF d
<1>4. /\ ds2 \in Seq(Block) /\ Len(ds2) = 1 /\ ds2[1] = d
  BY <1>2
<1>5. \A b \in 1 .. Len(ds2) : b = 1
  BY <1>4
<1>p. PerBlock \in Nat /\ Len(d.entries) <= PerBlock
  BY <1>0, <1>1, <1>2, BigFileAssumption
<1> HIDE DEF ds2
<1>6. Linked(ds2)
  <2>1. \A b \in 1 .. Len(ds2) - 1 : FALSE
    BY <1>4
  <2>2. \A b, e \in 1 .. Len(ds2) : ~(b < e)
    BY <1>4
  <2> QED BY <1>2, <1>4, <1>5, <1>p, <2>1, <2>2 DEF Linked
<1>7. ClearOfDirs(ds2)
  <2> SUFFICES ASSUME NEW i \in 1 .. Len(d.entries)
               PROVE  FirstDir < d.entries[i].off /\ Clear(d.entries[i], d.offset)
    BY <1>4, <1>5 DEF ClearOfDirs
  <2>1. i \in 1 .. Len(ds[1].entries) /\ d.entries[i] = ds[1].entries[i] BY <1>3
  <2>2. FirstDir < ds[1].entries[i].off /\ Clear(ds[1].entries[i], ds[1].offset)
    BY <2>1, <1>0 DEF Layout, ClearOfDirs
  <2> QED BY <2>1, <2>2, <1>0, <1>2
<1>8. ApartFiles(ds2)
  <2> SUFFICES ASSUME NEW i \in 1 .. Len(d.entries), NEW j \in 1 .. Len(d.entries), i # j
               PROVE  d.entries[i].name # d.entries[j].name /\ Apart(d.entries[i], d.entries[j])
    BY <1>4, <1>5 DEF ApartFiles
  <2>1. /\ i \in 1 .. Len(ds[1].entries) /\ d.entries[i] = ds[1].entries[i]
        /\ j \in 1 .. Len(ds[1].entries) /\ d.entries[j] = ds[1].entries[j]
    BY <1>3
  <2>2. /\ ds[1].entries[i].name # ds[1].entries[j].name
        /\ Apart(ds[1].entries[i], ds[1].entries[j])
    BY <2>1, <1>0 DEF Layout, ApartFiles
  <2> QED BY <2>1, <2>2
<1>9. OnlyDirs(c, ds2)
  <2>1. \A b \in 1 .. Len(ds) : b = 1 OBVIOUS
  <2>2. 1 \in 1 .. Len(ds2) BY <1>4
  <2> QED BY <1>0, <1>2, <1>4, <2>1, <2>2 DEF OnlyDirs
<1>10. d.offset \in Units /\ Written(c, d) /\ ~d.changed /\ Begun(c, d)
  <2>1. FirstDir < c[0].curend
    BY DEF CellTypes, Blank
  <2> QED BY <1>0, <1>1, <1>2, <2>1, UnitOne DEF Written, Begun
<1>11. DirOf(c, ds2)
  BY <1>4, <1>5, <1>6, <1>7, <1>8, <1>9, <1>10 DEF DirOf, Layout
<1> QED BY <1>11 DEF DiskTidy

-----------------------------------------------------------------------------
(* Load, which finds the entry of every name.                              *)
HashOf(ds) ==
  [n \in Names |->
     IF Located(ds, n) = {} THEN NoRef
     ELSE LET r == CHOOSE r \in Located(ds, n) :
                     \A s \in Located(ds, n) :
                       s[1] < r[1] \/ (s[1] = r[1] /\ s[2] <= r[2])
          IN [block |-> r[1], place |-> r[2], time |-> ds[r[1]].entries[r[2]].time]]

(* A name has one place in a directory.                                    *)
LEMMA OneLocation ==
  ASSUME NEW ds, Layout(ds), NEW n
  PROVE  \A r, q \in Located(ds, n) : r = q
<1> SUFFICES ASSUME NEW r \in Located(ds, n), NEW q \in Located(ds, n) PROVE r = q
  OBVIOUS
<1>0. \A b \in 1 .. Len(ds) : Len(ds[b].entries) \in Nat
  BY BlockTypes DEF Layout, Linked
<1>1. /\ r \in (1 .. Len(ds)) \X (1 .. PerBlock) /\ r[1] \in 1 .. Len(ds)
      /\ r[2] \in 1 .. Len(ds[r[1]].entries) /\ ds[r[1]].entries[r[2]].name = n
  BY <1>0 DEF Located
<1>2. /\ q \in (1 .. Len(ds)) \X (1 .. PerBlock) /\ q[1] \in 1 .. Len(ds)
      /\ q[2] \in 1 .. Len(ds[q[1]].entries) /\ ds[q[1]].entries[q[2]].name = n
  BY <1>0 DEF Located
<1>3. r[1] = q[1] /\ r[2] = q[2]
  <2>1. ApartFiles(ds) BY DEF Layout
  <2>2. ~(r[1] # q[1] \/ r[2] # q[2])
    BY <1>1, <1>2, <2>1 DEF ApartFiles
  <2> QED BY <2>2
<1>4. r = <<r[1], r[2]>> /\ q = <<q[1], q[2]>>
  BY <1>1, <1>2
<1> QED BY <1>3, <1>4

(* m_hash is right after Load.                                             *)
LEMMA HashOfFits ==
  ASSUME NEW ds, Layout(ds)
  PROVE  HashFits(ds, HashOf(ds), Names)
<1> SUFFICES ASSUME NEW n \in Names
             PROVE  IF HashOf(ds)[n] = NoRef THEN Unlisted(ds, n) ELSE ListedAt(ds, n, HashOf(ds)[n])
  BY DEF HashFits
<1>0. \A b \in 1 .. Len(ds) : Len(ds[b].entries) \in Nat /\ Len(ds[b].entries) <= PerBlock
  BY BlockTypes DEF Layout, Linked
<1>p. PerBlock \in Nat
  BY BigFileAssumption
<1>1. CASE Located(ds, n) = {}
  <2>1. HashOf(ds)[n] = NoRef
    BY <1>1 DEF HashOf
  <2>2. ASSUME NEW b \in 1 .. Len(ds), NEW i \in 1 .. Len(ds[b].entries), ds[b].entries[i].name = n
        PROVE  FALSE
    <3>1. i \in 1 .. PerBlock /\ i <= Len(ds[b].entries)
      BY <1>0, <1>p
    <3>2. <<b, i>> \in Located(ds, n)
      BY <2>2, <3>1 DEF Located
    <3> QED BY <1>1, <3>2
  <2> QED BY <2>1, <2>2 DEF Unlisted
<1>2. CASE Located(ds, n) # {}
  <2>1. PICK q \in Located(ds, n) : TRUE
    BY <1>2
  <2>2. /\ q[1] \in 1 .. Len(ds) /\ q[2] \in 1 .. Len(ds[q[1]].entries)
        /\ ds[q[1]].entries[q[2]].name = n /\ q[1] \in Nat /\ q[2] \in Nat
    BY <1>0 DEF Located
  <2> DEFINE P(r) == \A s \in Located(ds, n) : s[1] < r[1] \/ (s[1] = r[1] /\ s[2] <= r[2])
  <2>3. P(q)
    <3>1. \A s \in Located(ds, n) : s = q BY OneLocation
    <3> QED BY <3>1, <2>2
  <2>4. \E r \in Located(ds, n) : P(r)
    BY <2>3
  <2>5. (CHOOSE r \in Located(ds, n) : P(r)) = q
    <3> HIDE DEF P
    <3>1. (CHOOSE r \in Located(ds, n) : P(r)) \in Located(ds, n)
      BY <2>4
    <3> QED BY <3>1, OneLocation
  <2>6. HashOf(ds)[n] = [block |-> q[1], place |-> q[2], time |-> ds[q[1]].entries[q[2]].time]
    BY <1>2, <2>5 DEF HashOf
  <2>7. HashOf(ds)[n] # NoRef
    <3>1. HashOf(ds)[n].block = q[1] /\ q[1] # 0 BY <2>2, <2>6
    <3> QED BY <3>1 DEF NoRef
  <2>8. ListedAt(ds, n, HashOf(ds)[n])
    BY <2>2, <2>6 DEF ListedAt
  <2> QED BY <2>7, <2>8
<1> QED BY <1>1, <1>2

(* The hash Load makes is that of the directory it loads.                  *)
LEMMA LoadedHashIs == LoadedHash = HashOf(LoadedDirs)
BY DEF LoadedHash, HashOf

-----------------------------------------------------------------------------
(* A directory that Load accepts is one the program can work with.         *)
LEMMA LoadedRun ==
  ASSUME NEW c, CellTypes(c), c[0].kind = "root", NEW s, Fresh(c, s), NEW ds, DirOf(c, ds),
         \A b \in 1 .. Len(ds) : \A i \in 1 .. Len(ds[b].entries) :
           /\ ds[b].entries[i].off <= c[0].curend
           /\ ds[b].entries[i].off + ds[b].entries[i].size <= c[0].curend
  PROVE  /\ Behind(c, s, ds) /\ Fits(ds, c[0].curend) /\ MemFresh(c, s, ds)
         /\ \A left : Witnessed(c, ds, left)
<1>0. /\ Layout(ds) /\ Linked(ds) /\ ds \in Seq(Block) /\ Len(ds) >= 1 /\ OnlyDirs(c, ds)
      /\ ds[1].offset = FirstDir /\ 1 \in 1 .. Len(ds)
      /\ \A b \in 1 .. Len(ds) : /\ ds[b].offset \in Units /\ Written(c, ds[b])
                                 /\ ~ds[b].changed /\ Begun(c, ds[b])
  BY DEF DirOf, Layout, Linked
<1>1. \A b \in 1 .. Len(ds) : NotAhead(c, s, ds[b])
  <2> TAKE b \in 1 .. Len(ds)
  <2>1. /\ ds[b].offset \in Units /\ Written(c, ds[b]) /\ c[ds[b].offset].next = ds[b].next
        /\ Seen(c, ds[b].offset) = ds[b].entries
    BY <1>0 DEF Written
  <2>2. Len(ds[b].entries) \in Nat BY <1>0, BlockTypes
  <2> QED BY <2>1, <2>2 DEF NotAhead
<1>2. Behind(c, s, ds)
  <2>1. Written(c, ds[1]) BY <1>0
  <2>2. c[FirstDir].kind = "dir" BY <2>1, <1>0 DEF Written
  <2> QED BY <1>0, <1>1, <2>2 DEF Behind
<1>3. c[0].curend \in Nat /\ FirstDir < c[0].curend /\ c[0].curend <= MaxUnits
  BY DEF CellTypes, Blank
<1>4. \A b \in 1 .. Len(ds) : ds[b].offset < c[0].curend
  <2> TAKE b \in 1 .. Len(ds)
  <2>1. Begun(c, ds[b]) BY <1>0
  <2>2. CASE \E i \in 1 .. Len(ds[b].entries) : ds[b].offset < ds[b].entries[i].off
    <3>1. PICK i \in 1 .. Len(ds[b].entries) : ds[b].offset < ds[b].entries[i].off BY <2>2
    <3>2. ds[b].entries[i].off <= c[0].curend OBVIOUS
    <3>3. ds[b].offset \in Nat /\ ds[b].entries[i].off \in Nat BY <1>0, BlockTypes, EntryTypes
    <3> QED BY <3>1, <3>2, <3>3, <1>3
  <2> QED BY <2>1, <2>2 DEF Begun
<1>5. Fits(ds, c[0].curend)
  BY <1>3, <1>4 DEF Fits
<1>6. MemFresh(c, s, ds)
  <2> SUFFICES ASSUME NEW b \in 1 .. Len(ds), NEW i \in 1 .. Len(ds[b].entries)
               PROVE  FreshEntry(c, s, ds[b].entries[i])
    BY DEF MemFresh
  <2>1. ds[b].offset \in Units /\ Seen(c, ds[b].offset) = ds[b].entries
    BY <1>0 DEF Written
  <2> QED BY <2>1 DEF Fresh
<1>7. \A left : Witnessed(c, ds, left)
  BY <1>4 DEF Witnessed
<1> QED BY <1>2, <1>5, <1>6, <1>7

(* A blank root is no root header.                                         *)
LEMMA BlankRoot == Blank.kind = "blank" /\ \A c : c[0] = Blank => c[0].kind # "root"
BY DEF Blank

(* The invariant holds at first.                                           *)
LEMMA InitKeeps == Init => BigFileInv
<1> SUFFICES ASSUME Init PROVE BigFileInv
  OBVIOUS
<1>1. \A u \in Units : cells[u] = Blank /\ cells[u].kind = "blank"
  BY DEF Init, Blank
<1>2. NoDirs(cells)
  BY <1>1 DEF NoDirs
<1>3. CellTypes(cells)
  <2>1. cells = [u \in Units |-> cells[u]] BY DEF Init
  <2> QED BY <1>1, <2>1, UnitOne DEF CellTypes
<1>4. source \in SourceFiles
  <2>1. [size : Sizes, time : {1}] \subseteq [size : Nat, time : Nat]
    <3> SUFFICES ASSUME NEW r \in [size : Sizes, time : {1}] PROVE r \in [size : Nat, time : Nat]
      OBVIOUS
    <3>1. r = [size |-> r.size, time |-> r.time] /\ r.size \in Sizes /\ r.time \in {1}
      OBVIOUS
    <3>2. PICK z \in Sizes : z = r.size
      BY <3>1
    <3>3. z \in Nat
      BY BigFileAssumption
    <3> QED BY <3>1, <3>2, <3>3
  <2>2. source \in [Names -> [size : Sizes, time : {1}]]
    BY DEF Init
  <2> QED BY <2>1, <2>2 DEF SourceFiles
<1>5. Fresh(cells, source)
  BY <1>2, NoDirsFresh
<1>6. PhaseInv
  BY <1>2 DEF Init, PhaseInv, DiskTidy
<1>7. failures \in Nat /\ torn \in BOOLEAN /\ todo \subseteq Names
  BY DEF Init
<1> QED BY <1>3, <1>4, <1>5, <1>6, <1>7 DEF BigFileInv, KeepsFiles, TypeInv

(* Load keeps the invariant when there is no file yet.                     *)
LEMMA LoadEmptyKeeps == KeepsFiles /\ LoadEmpty => KeepsFiles'
<1> SUFFICES ASSUME KeepsFiles, LoadEmpty PROVE KeepsFiles'
  OBVIOUS
<1>1. /\ source' = source /\ cells' = cells /\ phase = "out" /\ cells[0] = Blank
      /\ phase' = "empty" /\ todo' = Names /\ dirchanged' = FALSE
      /\ hash' = [n \in Names |-> NoRef]
  BY DEF LoadEmpty
<1>2. NoDirs(cells)
  BY <1>1, BlankRoot DEF KeepsFiles, PhaseInv, DiskTidy
<1>3. TypeInv' /\ Fresh(cells', source')
  BY <1>1 DEF KeepsFiles, TypeInv
<1>4. NoDirs(cells') /\ cells'[0] = Blank
  BY <1>1, <1>2
<1>5. PhaseInv'
  BY <1>1, <1>4 DEF PhaseInv
<1> QED BY <1>3, <1>5 DEF KeepsFiles

(* So does Load of a bigfile, whether it accepts it or not.                *)
LEMMA LoadKeeps == KeepsFiles /\ Load => KeepsFiles'
<1> SUFFICES ASSUME KeepsFiles, Load PROVE KeepsFiles'
  OBVIOUS
<1>1. /\ source' = source /\ cells' = cells /\ phase = "out" /\ cells[0] # Blank
  BY DEF Load
<1>2. /\ CellTypes(cells) /\ source \in SourceFiles /\ todo \subseteq Names
      /\ Fresh(cells, source) /\ DiskTidy(cells)
  BY <1>1 DEF KeepsFiles, TypeInv, PhaseInv
<1>3. CASE ~(Readable(DiskBlocks) /\ \A e \in DiskEntries : InsideFile(e))
  <2>1. phase' = "dead" /\ todo' = todo
    BY <1>3 DEF Load
  <2>2. PhaseInv'
    BY <1>1, <1>2, <2>1 DEF PhaseInv
  <2> QED BY <1>1, <1>2, <2>1, <2>2 DEF KeepsFiles, TypeInv
<1>4. CASE Readable(DiskBlocks) /\ \A e \in DiskEntries : InsideFile(e)
  <2>1. /\ phase' = "add" /\ todo' = Names /\ curend' = cells[0].curend
        /\ dirs' = LoadedDirs /\ hash' = LoadedHash
    BY <1>4 DEF Load
  <2>2. cells[0].kind = "root"
    BY <1>1, <1>2 DEF CellTypes
  <2>3. LinksUp(cells)
    BY <1>2, TidyLinksUp
  <2>4. ~NoDirs(cells)
    <3>1. DiskBlocks = ChainOf(cells)[FirstDir]
      BY <2>2, OnTheDisk DEF BlocksOf
    <3>2. PathFrom(cells, DiskBlocks, FirstDir)
      BY <2>3, <3>1, ChainIsThePath, UnitOne
    <3>3. DiskBlocks \in Seq(Units) /\ Len(DiskBlocks) >= 1 /\ DiskBlocks[1] = FirstDir
      BY <3>2 DEF PathFrom
    <3>4. 1 \in 1 .. Len(DiskBlocks)
      BY <3>3
    <3>5. cells[FirstDir].kind = "dir"
      BY <1>4, <3>3, <3>4 DEF Readable
    <3> QED BY <3>5, UnitOne DEF NoDirs
  <2>5. PICK ds : DirOf(cells, ds)
    BY <1>2, <2>4 DEF DiskTidy
  <2>6. DiskBlocks = Offsets(ds) /\ LoadedDirs = ds
    BY <2>2, <2>5, DirOfLoads, OnTheDisk
  <2>7. ds \in Seq(Block) /\ Layout(ds)
    BY <2>5 DEF DirOf, Layout, Linked
  <2>8. ASSUME NEW b \in 1 .. Len(ds), NEW i \in 1 .. Len(ds[b].entries)
        PROVE  /\ ds[b].entries[i].off <= cells[0].curend
               /\ ds[b].entries[i].off + ds[b].entries[i].size <= cells[0].curend
    <3>1. Len(DiskBlocks) = Len(ds) /\ DiskBlocks[b] = ds[b].offset
      BY <2>6, <2>7 DEF Offsets
    <3>2. Visible(DiskBlocks[b]) = ds[b].entries
      BY <2>5, <3>1, OnTheDisk DEF DirOf, Written
    <3>3. ds[b].entries[i] \in DiskEntries
      BY <3>1, <3>2 DEF DiskEntries
    <3> QED BY <1>4, <3>3 DEF InsideFile
  <2>9. /\ Behind(cells, source, ds) /\ Fits(ds, cells[0].curend) /\ MemFresh(cells, source, ds)
        /\ Witnessed(cells, ds, Names)
    BY <1>2, <2>2, <2>5, <2>8, LoadedRun
  <2>10. HashFits(ds, hash', Names)
    BY <2>1, <2>6, <2>7, HashOfFits, LoadedHashIs
  <2>11. RunInv'
    BY <1>1, <1>2, <2>1, <2>2, <2>6, <2>7, <2>9, <2>10 DEF RunInv
  <2>12. PhaseInv'
    BY <2>1, <2>11 DEF PhaseInv
  <2> QED BY <1>1, <1>2, <2>1, <2>12 DEF KeepsFiles, TypeInv
<1> QED BY <1>3, <1>4

-----------------------------------------------------------------------------
(* The root header of an empty bigfile is written: no directory yet.       *)
LEMMA MakeRootKeeps == KeepsFiles /\ MakeRoot => KeepsFiles'
<1> SUFFICES ASSUME KeepsFiles, MakeRoot PROVE KeepsFiles'
  OBVIOUS
<1>1. /\ source' = source /\ phase = "empty" /\ phase' = "make" /\ curend' = FirstDir + 1
      /\ todo' = todo /\ hash' = hash /\ cells' = [cells EXCEPT ![0] = Root(FirstDir + 1, 0)]
  BY DEF MakeRoot, Write
<1>2. /\ CellTypes(cells) /\ source \in SourceFiles /\ todo \subseteq Names
      /\ NoDirs(cells) /\ cells = [u \in Units |-> cells[u]]
      /\ hash = [n \in Names |-> NoRef]
  BY <1>1 DEF KeepsFiles, TypeInv, PhaseInv, CellTypes
<1>3. /\ cells' = [u \in Units |-> cells'[u]] /\ cells'[0] = Root(FirstDir + 1, 0)
      /\ \A u \in Units : u # 0 => cells'[u] = cells[u]
  BY <1>1, <1>2, UnitOne
<1>4. /\ cells'[0].kind = "root" /\ cells'[0].curend = FirstDir + 1
      /\ FirstDir + 1 \in Nat /\ FirstDir < FirstDir + 1 /\ FirstDir + 1 <= MaxUnits
  BY <1>3, BigFileAssumption DEF Root, FirstDir
<1>5. NoDirs(cells')
  <2> SUFFICES ASSUME NEW u \in Units PROVE cells'[u].kind # "dir"
    BY DEF NoDirs
  <2>1. CASE u = 0 BY <2>1, <1>4
  <2>2. CASE u # 0 BY <2>2, <1>2, <1>3 DEF NoDirs
  <2> QED BY <2>1, <2>2
<1>6. CellTypes(cells')
  BY <1>3, <1>4, <1>5 DEF CellTypes, NoDirs
<1>7. Fresh(cells', source')
  BY <1>5, NoDirsFresh
<1>8. PhaseInv'
  BY <1>1, <1>2, <1>4, <1>5 DEF PhaseInv
<1> QED BY <1>1, <1>2, <1>6, <1>7, <1>8 DEF KeepsFiles, TypeInv

(* The first directory block is written: a bigfile without files.          *)
LEMMA MakeDirKeeps == KeepsFiles /\ MakeDir => KeepsFiles'
<1> SUFFICES ASSUME KeepsFiles, MakeDir PROVE KeepsFiles'
  OBVIOUS
<1> DEFINE x == [kind |-> "dir", body |-> <<>>, num |-> 0, next |-> 0]
           d == [offset |-> FirstDir, next |-> 0, entries |-> <<>>, changed |-> FALSE]
<1>1. /\ source' = source /\ phase = "make" /\ phase' = "add" /\ curend' = curend
      /\ todo' = todo /\ hash' = hash /\ cells' = [cells EXCEPT ![FirstDir] = x]
      /\ dirs' = <<d>>
  BY DEF MakeDir, Write
<1>2. /\ CellTypes(cells) /\ source \in SourceFiles /\ todo \subseteq Names
      /\ NoDirs(cells) /\ cells = [u \in Units |-> cells[u]]
      /\ hash = [n \in Names |-> NoRef] /\ cells[0].kind = "root"
      /\ cells[0].curend = FirstDir + 1 /\ curend = FirstDir + 1
  BY <1>1 DEF KeepsFiles, TypeInv, PhaseInv, CellTypes
<1>3. /\ x \in DirCell /\ x.kind = "dir" /\ x.num = 0 /\ x.next = 0 /\ Len(x.body) = 0
      /\ x.num <= Len(x.body)
  BY DEF DirCell
<1>4. /\ d \in Block /\ d.offset = FirstDir /\ d.next = 0 /\ d.entries = <<>> /\ Len(d.entries) = 0
      /\ d.changed = FALSE /\ FirstDir \in Units
  BY UnitOne DEF Block, FirstDir
<1>x. x.body = <<>> /\ SubSeq(x.body, 1, x.num) = <<>>
  OBVIOUS
<1> HIDE DEF x, d
<1>5. /\ cells' = [u \in Units |-> cells'[u]] /\ cells'[FirstDir] = x /\ cells'[0] = cells[0]
      /\ \A u \in Units : u # FirstDir => cells'[u] = cells[u]
  BY <1>1, <1>2, UnitOne DEF FirstDir
<1>6. \A u \in Units : cells'[u].kind = "dir" <=> u = FirstDir
  BY <1>2, <1>3, <1>5 DEF NoDirs
<1>7. CellTypes(cells')
  BY <1>2, <1>3, <1>5, <1>6 DEF CellTypes
<1>8. Seen(cells', FirstDir) = <<>> /\ \A u \in Units : Seen(cells', u) = <<>>
  BY <1>3, <1>x, <1>5, <1>6, UnitOne DEF Seen
<1>e. \A u \in Units : Len(Seen(cells', u)) = 0
  BY <1>8
<1>9. Fresh(cells', source')
  BY <1>e DEF Fresh
<1>10. /\ dirs' \in Seq(Block) /\ Len(dirs') = 1 /\ dirs'[1] = d
       /\ \A b \in 1 .. Len(dirs') : b = 1
  BY <1>1, <1>4
<1>11. Layout(dirs')
  <2>1. Linked(dirs')
    <3>1. \A b \in 1 .. Len(dirs') - 1 : FALSE
      BY <1>10
    <3>2. \A b, e \in 1 .. Len(dirs') : ~(b < e)
      BY <1>10
    <3>3. Len(d.entries) <= PerBlock
      BY <1>4, BigFileAssumption
    <3> QED BY <3>1, <3>2, <3>3, <1>4, <1>10 DEF Linked
  <2>2. ClearOfDirs(dirs') /\ ApartFiles(dirs')
    BY <1>4, <1>10 DEF ClearOfDirs, ApartFiles
  <2> QED BY <2>1, <2>2 DEF Layout
<1>12. OnlyDirs(cells', dirs')
  <2>1. 1 \in 1 .. Len(dirs') BY <1>10
  <2> QED BY <2>1, <1>4, <1>6, <1>10 DEF OnlyDirs
<1>13. Written(cells', d)
  BY <1>3, <1>4, <1>5, <1>8 DEF Written
<1>14. d.offset < cells'[0].curend
  BY <1>2, <1>4, <1>5 DEF FirstDir
<1>15. DirOf(cells', dirs')
  BY <1>4, <1>10, <1>11, <1>12, <1>13, <1>14 DEF DirOf, Begun
<1>16. /\ Behind(cells', source', dirs') /\ Fits(dirs', cells'[0].curend)
       /\ MemFresh(cells', source', dirs') /\ Witnessed(cells', dirs', todo')
  <2>1. \A b \in 1 .. Len(dirs') : Len(dirs'[b].entries) = 0
    BY <1>4, <1>10
  <2>2. \A b \in 1 .. Len(dirs') : \A i \in 1 .. Len(dirs'[b].entries) : FALSE
    BY <2>1
  <2> QED BY <2>2, <1>2, <1>5, <1>7, <1>9, <1>15, LoadedRun
<1>17. HashFits(dirs', hash', todo')
  <2>1. \A n \in todo : hash'[n] = NoRef
    BY <1>1, <1>2
  <2>2. \A n : Unlisted(dirs', n)
    BY <1>4, <1>10 DEF Unlisted
  <2> QED BY <2>1, <2>2, <1>1 DEF HashFits
<1>18. DiskTidy(cells')
  BY <1>2, <1>5, <1>15 DEF DiskTidy
<1>19. RunInv'
  BY <1>1, <1>2, <1>5, <1>11, <1>16, <1>17, <1>18 DEF RunInv
<1>20. PhaseInv'
  BY <1>1, <1>19 DEF PhaseInv
<1> QED BY <1>1, <1>2, <1>7, <1>9, <1>20 DEF KeepsFiles, TypeInv

(* With fewer files left to look at there is less to say.                  *)
LEMMA LessLeft ==
  ASSUME NEW c, NEW ds, NEW h, NEW left, NEW left2, left2 \subseteq left
  PROVE  /\ Witnessed(c, ds, left) => Witnessed(c, ds, left2)
         /\ HashFits(ds, h, left) => HashFits(ds, h, left2)
<1>1. ASSUME Witnessed(c, ds, left) PROVE Witnessed(c, ds, left2)
  <2> SUFFICES ASSUME NEW b \in 1 .. Len(ds), ~(ds[b].offset < c[0].curend)
               PROVE  \E i \in 1 .. Len(ds[b].entries) :
                        ds[b].offset < ds[b].entries[i].off /\ ds[b].entries[i].name \notin left2
    BY DEF Witnessed
  <2> QED BY <1>1 DEF Witnessed
<1>2. ASSUME HashFits(ds, h, left) PROVE HashFits(ds, h, left2)
  BY <1>2 DEF HashFits
<1> QED BY <1>1, <1>2

(* Skipping a file keeps the invariant.                                    *)
LEMMA SkipKeeps == ASSUME NEW n \in Names PROVE KeepsFiles /\ Skip(n) => KeepsFiles'
<1> SUFFICES ASSUME KeepsFiles, Skip(n) PROVE KeepsFiles'
  OBVIOUS
<1>1. /\ source' = source /\ cells' = cells /\ phase = "add" /\ phase' = "add"
      /\ todo' = todo \ {n} /\ curend' = curend /\ dirs' = dirs /\ hash' = hash
  BY DEF Skip, memory
<1>2. TypeInv /\ Fresh(cells, source) /\ RunInv
  BY <1>1 DEF KeepsFiles, PhaseInv
<1>3. Witnessed(cells, dirs, todo') /\ HashFits(dirs, hash, todo')
  BY <1>1, <1>2, LessLeft DEF RunInv
<1>4. RunInv'
  BY <1>1, <1>2, <1>3 DEF RunInv
<1>5. PhaseInv'
  BY <1>1, <1>4 DEF PhaseInv
<1>6. TypeInv' /\ Fresh(cells', source')
  BY <1>1, <1>2 DEF TypeInv
<1> QED BY <1>5, <1>6 DEF KeepsFiles

(* Starting UpdateDir, or ending without it, keeps the invariant.          *)
LEMMA StartUpdateKeeps == KeepsFiles /\ StartUpdate => KeepsFiles'
<1> SUFFICES ASSUME KeepsFiles, StartUpdate PROVE KeepsFiles'
  OBVIOUS
<1>1. source' = source /\ cells' = cells /\ phase \in {"add", "empty"} /\ todo' = {}
  BY DEF StartUpdate, NoMemory
<1>2. TypeInv /\ Fresh(cells, source) /\ PhaseInv
  BY DEF KeepsFiles
<1>3. TypeInv' /\ Fresh(cells', source')
  BY <1>1, <1>2 DEF TypeInv
<1>4. CASE dirchanged
  <2>1. /\ phase = "add" /\ phase' = "update" /\ curend' = curend /\ dirs' = dirs /\ hash' = hash
    BY <1>1, <1>2, <1>4 DEF PhaseInv, StartUpdate, memory
  <2>2. RunInv
    BY <1>2, <2>1 DEF PhaseInv
  <2>3. Witnessed(cells, dirs, {}) /\ HashFits(dirs, hash, {})
    <3>1. {} \subseteq todo OBVIOUS
    <3> QED BY <3>1, <2>2, LessLeft DEF RunInv
  <2>4. RunInv'
    BY <1>1, <2>1, <2>2, <2>3 DEF RunInv
  <2>5. PhaseInv'
    BY <2>1, <2>4 DEF PhaseInv
  <2> QED BY <1>3, <2>5 DEF KeepsFiles
<1>5. CASE ~dirchanged
  <2>1. phase' = "out"
    BY <1>5 DEF StartUpdate
  <2>2. DiskTidy(cells)
    BY <1>1, <1>2 DEF PhaseInv, RunInv, DiskTidy
  <2>3. PhaseInv'
    BY <1>1, <2>1, <2>2 DEF PhaseInv
  <2> QED BY <1>3, <2>3 DEF KeepsFiles
<1> QED BY <1>4, <1>5

-----------------------------------------------------------------------------
(* UpdateDir's next block is one that has changed.                         *)
LEMMA TheFirstChanged ==
  ASSUME Changed # {}
  PROVE  FirstChanged \in 1 .. Len(dirs) /\ dirs[FirstChanged].changed
<1>1. Changed \subseteq Nat
  BY DEF Changed
<1>2. \E b \in Changed : \A d \in Changed : b <= d
  BY <1>1, Least
<1>3. FirstChanged \in Changed
  BY <1>2 DEF FirstChanged
<1> QED BY <1>3 DEF Changed

(* Writing a block's body keeps the invariant.                             *)
LEMMA WriteBodyKeeps == KeepsFiles /\ WriteBody => KeepsFiles'
<1> SUFFICES ASSUME KeepsFiles, WriteBody PROVE KeepsFiles'
  OBVIOUS
<1> DEFINE b0 == FirstChanged
           o == dirs[b0].offset
           x == IF cells[o].kind = "dir" THEN [cells[o] EXCEPT !.body = dirs[b0].entries]
                ELSE [kind |-> "body", body |-> dirs[b0].entries]
<1>1. /\ source' = source /\ phase = "update" /\ phase' = "header" /\ Changed # {}
      /\ todo' = todo /\ curend' = curend /\ dirs' = dirs /\ hash' = hash
      /\ cells' = [cells EXCEPT ![o] = x]
  BY DEF WriteBody, Write, memory
<1>2. TypeInv /\ Fresh(cells, source) /\ RunInv
  BY <1>1 DEF KeepsFiles, PhaseInv
<1>3. /\ CellTypes(cells) /\ cells[0].kind = "root" /\ Layout(dirs) /\ Behind(cells, source, dirs)
      /\ Fits(dirs, curend) /\ MemFresh(cells, source, dirs) /\ Witnessed(cells, dirs, todo)
      /\ HashFits(dirs, hash, todo) /\ dirs \in Seq(Block)
  BY <1>2 DEF TypeInv, RunInv, Layout, Linked
<1>4. b0 \in 1 .. Len(dirs) /\ dirs[b0].changed
  BY <1>1, TheFirstChanged
<1>5. HasBody(x, cells[o], dirs[b0])
  <2>1. dirs[b0] \in Block /\ o \in Units
    BY <1>3, <1>4, BlockTypes DEF Behind, NotAhead
  <2>2. cells[o].kind = "dir" => cells[o] \in DirCell
    BY <1>3, <2>1 DEF CellTypes
  <2> QED BY <2>1, <2>2, BodyIs
<1> HIDE DEF x, b0
<1>6. /\ CellTypes(cells') /\ cells'[0] = cells[0] /\ Behind(cells', source, dirs)
      /\ MemFresh(cells', source, dirs) /\ Fresh(cells', source) /\ cells'[o] = x
  <2>1. IsPut(cells, cells', dirs[b0].offset, x) /\ Fresh(cells, source)
    BY <1>1, <1>2 DEF IsPut
  <2>2. HasBody(x, cells[dirs[b0].offset], dirs[b0]) /\ Marked(dirs[b0])
    BY <1>4, <1>5 DEF Marked
  <2>3. /\ CellTypes(cells') /\ Behind(cells', source, dirs)
        /\ MemFresh(cells', source, dirs) /\ Fresh(cells', source)
    BY <2>1, <2>2, <1>3, <1>4, BodyWritten
  <2>4. cells = [u \in Units |-> cells[u]] /\ o \in Units /\ o # 0
    BY <1>3, <1>4, BlockPlaces DEF CellTypes, Behind, NotAhead, Layout
  <2>5. cells' = [cells EXCEPT ![o] = x]
    BY <1>1
  <2> HIDE DEF o
  <2>6. cells'[0] = cells[0] /\ cells'[o] = x
    BY <2>4, <2>5, UnitOne
  <2> QED BY <2>3, <2>6
<1>7. x.kind \in {"dir", "body"} /\ x.body = dirs[b0].entries
  BY <1>5 DEF HasBody
<1>8. HalfWritten(cells', dirs)
  BY <1>1, <1>6, <1>7 DEF HalfWritten, b0
<1>9. Changed' = Changed /\ FirstChanged' = FirstChanged
  BY <1>1 DEF Changed, FirstChanged
<1>10. Witnessed(cells', dirs, todo)
  BY <1>3, <1>6 DEF Witnessed
<1>11. Len(dirs) = 1 => DiskTidy(cells')
  <2> SUFFICES ASSUME Len(dirs) = 1 PROVE DiskTidy(cells')
    OBVIOUS
  <2>1. b0 = 1 /\ o = FirstDir /\ 1 \in 1 .. Len(dirs)
    BY <1>3, <1>4 DEF Layout, Linked
  <2>2. cells[FirstDir].kind = "dir" /\ cells'[FirstDir].kind = "dir"
    BY <1>3, <1>6 DEF Behind
  <2>3. x.kind = "dir" /\ x \in DirCell /\ x.num = cells'[FirstDir].num /\ cells'[FirstDir].body = dirs[1].entries
    BY <2>1, <2>2, <1>5, <1>6 DEF HasBody
  <2>4. /\ Len(Seen(cells', FirstDir)) = cells'[FirstDir].num
        /\ \A i \in 1 .. cells'[FirstDir].num : Seen(cells', FirstDir)[i] = cells'[FirstDir].body[i]
    BY <2>2, <1>6, UnitOne, SeenIsSeq
  <2>5. \A i \in 1 .. Len(Seen(cells', FirstDir)) : Seen(cells', FirstDir)[i] = dirs[1].entries[i]
    BY <2>3, <2>4
  <2>6. cells'[0].kind = "root"
    BY <1>3, <1>6
  <2> QED BY <2>5, <2>6, <1>3, <1>6, OneBlockTidy
<1>12. RunInv'
  <2>1. cells'[0].kind = "root" BY <1>3, <1>6
  <2> QED BY <2>1, <1>1, <1>3, <1>6, <1>8, <1>9, <1>10, <1>11 DEF RunInv, HalfWritten
<1>13. PhaseInv'
  BY <1>1, <1>12 DEF PhaseInv
<1>14. TypeInv' /\ Fresh(cells', source')
  BY <1>1, <1>2, <1>6 DEF TypeInv
<1> QED BY <1>13, <1>14 DEF KeepsFiles

(* Writing a block's header keeps the invariant.                           *)
LEMMA WriteHeaderKeeps == KeepsFiles /\ WriteHeader => KeepsFiles'
<1> SUFFICES ASSUME KeepsFiles, WriteHeader PROVE KeepsFiles'
  OBVIOUS
<1> DEFINE b0 == FirstChanged
           o == dirs[b0].offset
<1>1. /\ source' = source /\ phase = "header" /\ phase' = "update"
      /\ todo' = todo /\ curend' = curend /\ hash' = hash
      /\ cells' = [cells EXCEPT ![o] = [kind |-> "dir", body |-> cells[o].body,
                                        num |-> Len(dirs[b0].entries), next |-> dirs[b0].next]]
      /\ dirs' = [dirs EXCEPT ![b0].changed = FALSE]
  BY DEF WriteHeader, Write
<1>2. TypeInv /\ Fresh(cells, source) /\ RunInv
  BY <1>1 DEF KeepsFiles, PhaseInv
<1>3. /\ CellTypes(cells) /\ cells[0].kind = "root" /\ Layout(dirs) /\ Behind(cells, source, dirs)
      /\ Fits(dirs, curend) /\ MemFresh(cells, source, dirs) /\ Witnessed(cells, dirs, todo)
      /\ HashFits(dirs, hash, todo) /\ dirs \in Seq(Block) /\ HalfWritten(cells, dirs)
  BY <1>1, <1>2 DEF TypeInv, RunInv, Layout, Linked
<1>4. b0 \in 1 .. Len(dirs) /\ cells[o].body = dirs[b0].entries
  BY <1>3, TheFirstChanged DEF HalfWritten
<1> HIDE DEF b0
<1>5. IsCleaned(dirs, dirs', b0)
  BY <1>1, <1>3, <1>4, CleanedFacts
<1>6. /\ CellTypes(cells') /\ cells'[0] = cells[0] /\ Behind(cells', source, dirs')
      /\ MemFresh(cells', source, dirs') /\ Fresh(cells', source)
  <2>1. Fresh(cells, source)
    BY <1>2
  <2>2. IsPut(cells, cells', dirs[b0].offset, DirCellOf(dirs[b0]))
    BY <1>1, <1>4 DEF IsPut, DirCellOf
  <2> QED BY <2>1, <2>2, <1>3, <1>4, <1>5, HeaderWritten
<1>7. /\ Layout(dirs') /\ Fits(dirs', curend) /\ Witnessed(cells, dirs', todo)
      /\ HashFits(dirs', hash, todo)
  BY <1>3, <1>5, SameBlocksKeep DEF IsCleaned
<1>8. Witnessed(cells', dirs', todo) /\ cells'[0].kind = "root"
  BY <1>3, <1>6, <1>7 DEF Witnessed
<1>9. Len(dirs') = 1 => AllWritten(dirs')
  <2> SUFFICES ASSUME Len(dirs') = 1 PROVE AllWritten(dirs')
    OBVIOUS
  <2>1. Len(dirs) = 1 /\ dirs'[b0].changed = FALSE
    BY <1>5 DEF IsCleaned, SameBlocks
  <2>2. b0 = 1 /\ \A b \in 1 .. Len(dirs') : b = 1
    BY <1>4, <2>1
  <2> QED BY <2>1, <2>2 DEF AllWritten
<1>10. AllWritten(dirs') => DiskTidy(cells')
  BY <1>6, <1>7, <1>8, AllWrittenTidy
<1>11. RunInv'
  BY <1>1, <1>6, <1>7, <1>8, <1>9, <1>10 DEF RunInv
<1>12. PhaseInv'
  BY <1>1, <1>11 DEF PhaseInv
<1>13. TypeInv' /\ Fresh(cells', source')
  BY <1>1, <1>2, <1>6 DEF TypeInv
<1> QED BY <1>12, <1>13 DEF KeepsFiles

(* Writing the root header keeps the invariant.                            *)
LEMMA WriteRootKeeps == KeepsFiles /\ WriteRoot => KeepsFiles'
<1> SUFFICES ASSUME KeepsFiles, WriteRoot PROVE KeepsFiles'
  OBVIOUS
<1>1. /\ source' = source /\ phase = "update" /\ phase' = "out" /\ todo' = {}
      /\ IsPut(cells, cells', 0, Root(curend, curwaste)) /\ Changed = {}
  BY DEF WriteRoot, Write, NoMemory, IsPut
<1>2. TypeInv /\ Fresh(cells, source) /\ RunInv
  BY <1>1 DEF KeepsFiles, PhaseInv
<1>3. /\ CellTypes(cells) /\ cells[0].kind = "root" /\ Layout(dirs) /\ Behind(cells, source, dirs)
      /\ Fits(dirs, curend) /\ MemFresh(cells, source, dirs) /\ Witnessed(cells, dirs, todo)
  BY <1>2 DEF TypeInv, RunInv
<1>4. AllWritten(dirs)
  BY <1>1 DEF Changed, AllWritten
<1>5. DirOf(cells, dirs)
  BY <1>3, <1>4, AllWrittenTidy
<1>6. CellTypes(cells') /\ Fresh(cells', source) /\ DiskTidy(cells')
  <2>1. /\ CellTypes(cells') /\ Fresh(cells', source) /\ DirOf(cells', dirs)
        /\ cells'[0].kind = "root"
    BY <1>1, <1>2, <1>3, <1>5, RootWritten
  <2> QED BY <2>1 DEF DiskTidy
<1>7. PhaseInv'
  BY <1>1, <1>6 DEF PhaseInv
<1>8. TypeInv' /\ Fresh(cells', source')
  BY <1>1, <1>2, <1>6 DEF TypeInv
<1> QED BY <1>7, <1>8 DEF KeepsFiles

(* Dying keeps the invariant, unless it tears a directory of several       *)
(* blocks.                                                                 *)
LEMMA CrashKeeps == KeepsFiles /\ Crash /\ ~torn' => KeepsFiles'
<1> SUFFICES ASSUME KeepsFiles, Crash, ~torn' PROVE KeepsFiles'
  OBVIOUS
<1>1. /\ source' = source /\ cells' = cells /\ phase \notin {"out", "dead"} /\ phase' = "out"
      /\ todo' = {}
      /\ ~(phase \in {"update", "header"} /\ Len(dirs) > 1 /\ Changed # {})
  BY DEF Crash, NoMemory
<1>2. TypeInv /\ Fresh(cells, source) /\ PhaseInv
  BY DEF KeepsFiles
<1>3. DiskTidy(cells)
  <2>1. CASE phase \in {"empty", "make"}
    BY <1>2, <2>1 DEF PhaseInv, DiskTidy
  <2>2. CASE phase = "add"
    BY <1>2, <2>2 DEF PhaseInv, RunInv
  <2>3. CASE phase \in {"update", "header"}
    <3>1. RunInv /\ Len(dirs) \in Nat /\ Len(dirs) >= 1
      BY <1>2, <2>3 DEF PhaseInv, RunInv, Layout, Linked
    <3>2. CASE Len(dirs) = 1
      BY <3>1, <3>2 DEF RunInv
    <3>3. CASE Len(dirs) # 1
      <4>z. PICK k \in Nat : k = Len(dirs) BY <3>1
      <4>0. Len(dirs) > 1
        <5>1. k >= 1 /\ k # 1 BY <3>1, <3>3, <4>z
        <5>2. k > 1 BY <5>1
        <5> QED BY <5>2, <4>z
      <4>1. Changed = {} BY <1>1, <2>3, <4>0
      <4>2. phase = "update" BY <2>3, <3>1, <4>1 DEF RunInv, HalfWritten
      <4>3. AllWritten(dirs) BY <4>1 DEF Changed, AllWritten
      <4> QED BY <3>1, <4>2, <4>3 DEF RunInv
    <3> QED BY <3>2, <3>3
  <2> QED BY <1>1, <1>2, <2>1, <2>2, <2>3 DEF PhaseInv
<1>4. PhaseInv'
  BY <1>1, <1>3 DEF PhaseInv
<1>5. TypeInv' /\ Fresh(cells', source')
  BY <1>1, <1>2 DEF TypeInv
<1> QED BY <1>4, <1>5 DEF KeepsFiles

(* Changing a source file makes its entry out of date, which keeps the     *)
(* invariant.                                                              *)
LEMMA EditKeeps == ASSUME NEW n \in Names PROVE KeepsFiles /\ Edit(n) => KeepsFiles'
<1> SUFFICES ASSUME KeepsFiles, Edit(n) PROVE KeepsFiles'
  OBVIOUS
<1>1. cells' = cells /\ phase = "out" /\ phase' = "out" /\ todo' = todo
  BY DEF Edit
<1>2. PICK size \in Sizes : source' = [source EXCEPT ![n] = [size |-> size, time |-> @.time + 1]]
  BY DEF Edit
<1>3. TypeInv /\ Fresh(cells, source) /\ DiskTidy(cells)
  BY <1>1 DEF KeepsFiles, PhaseInv
<1>4. size \in Nat
  BY BigFileAssumption
<1>5. source \in [Names -> [size : Nat, time : Nat]] /\ source[n].time \in Nat
  BY <1>3 DEF TypeInv, SourceFiles
<1>6. /\ source' \in SourceFiles /\ source'[n].time = source[n].time + 1
      /\ \A m \in Names : m # n => source'[m] = source[m]
  BY <1>2, <1>4, <1>5 DEF SourceFiles
<1>7. Fresh(cells', source')
  <2> SUFFICES ASSUME NEW u \in Units, NEW i \in 1 .. Len(Seen(cells, u))
               PROVE  FreshEntry(cells, source', Seen(cells, u)[i])
    BY <1>1 DEF Fresh
  <2>1. Seen(cells, u) \in Seq(Stored)
    BY <1>3, SeenIsSeq DEF TypeInv
  <2>2. PICK e \in Stored : e = Seen(cells, u)[i]
    BY <2>1
  <2>3. FreshEntry(cells, source, e)
    BY <2>2, <1>3 DEF Fresh
  <2>4. e.name \in Names /\ e.time \in Nat
    BY StoredTypes
  <2>5. CASE e.name = n
    <3>1. e.time <= source[n].time BY <2>3, <2>5 DEF FreshEntry
    <3>2. e.time < source'[e.name].time BY <3>1, <2>4, <2>5, <1>5, <1>6
    <3>3. e.time <= source'[e.name].time /\ e.time # source'[e.name].time
      BY <3>2, <2>4, <2>5, <1>5, <1>6
    <3> QED BY <2>2, <3>3 DEF FreshEntry
  <2>6. CASE e.name # n
    <3>1. source'[e.name] = source[e.name] BY <2>4, <2>6, <1>6
    <3> QED BY <2>2, <2>3, <3>1 DEF FreshEntry
  <2> QED BY <2>5, <2>6
<1>8. PhaseInv'
  BY <1>1, <1>3 DEF PhaseInv
<1>9. TypeInv'
  BY <1>1, <1>3, <1>6 DEF TypeInv
<1> QED BY <1>7, <1>8, <1>9 DEF KeepsFiles

-----------------------------------------------------------------------------
(* A new block moves no entry.                                             *)
LEMMA GrownHash ==
  ASSUME NEW ds, ds \in Seq(Block), NEW off, NEW ds2, IsGrown(ds, ds2, off),
         NEW h, NEW left, HashFits(ds, h, left)
  PROVE  HashFits(ds2, h, left)
<1>0. Len(ds) \in Nat
  OBVIOUS
<1>1. /\ Len(ds2) = Len(ds) + 1 /\ Len(ds2[Len(ds) + 1].entries) = 0
      /\ \A b \in 1 .. Len(ds) : ds2[b].entries = ds[b].entries
      /\ \A b \in 1 .. Len(ds) : b \in 1 .. Len(ds2)
      /\ \A b \in 1 .. Len(ds2) : b \in 1 .. Len(ds) \/ b = Len(ds) + 1
  BY <1>0 DEF IsGrown, NewBlock
<1>2. \A n : Unlisted(ds, n) => Unlisted(ds2, n)
  <2> SUFFICES ASSUME NEW n, Unlisted(ds, n), NEW b \in 1 .. Len(ds2), NEW i \in 1 .. Len(ds2[b].entries)
               PROVE  ds2[b].entries[i].name # n
    BY DEF Unlisted
  <2>1. b # Len(ds) + 1 BY <1>1
  <2>2. b \in 1 .. Len(ds) /\ ds2[b].entries = ds[b].entries BY <2>1, <1>1
  <2> QED BY <2>2 DEF Unlisted
<1>3. \A n, r : ListedAt(ds, n, r) => ListedAt(ds2, n, r)
  BY <1>1 DEF ListedAt
<1> QED BY <1>2, <1>3 DEF HashFits

(* What Witnessed says, of all blocks but the last.                        *)
ButLast(c, ds, left) ==
  \A b \in 1 .. Len(ds) :
    \/ b = Len(ds) \/ ds[b].offset < c[0].curend
    \/ \E i \in 1 .. Len(ds[b].entries) :
         ds[b].offset < ds[b].entries[i].off /\ ds[b].entries[i].name \notin left

(* Behind every block but the last there is a file or the old end.         *)
LEMMA WitnessedButLast ==
  ASSUME NEW c, NEW ds, NEW left, Witnessed(c, ds, left)
  PROVE  ButLast(c, ds, left)
BY DEF Witnessed, ButLast

(* So it is after a new block was appended.                                *)
LEMMA GrownWitness ==
  ASSUME NEW c, NEW ds, ds \in Seq(Block), NEW left, Witnessed(c, ds, left),
         NEW off, NEW ds2, IsGrown(ds, ds2, off)
  PROVE  ButLast(c, ds2, left)
<1>0. Len(ds) \in Nat
  OBVIOUS
<1> SUFFICES ASSUME NEW b \in 1 .. Len(ds2), b # Len(ds2), ~(ds2[b].offset < c[0].curend)
             PROVE  \E i \in 1 .. Len(ds2[b].entries) :
                      ds2[b].offset < ds2[b].entries[i].off /\ ds2[b].entries[i].name \notin left
  BY DEF ButLast
<1>1. b \in 1 .. Len(ds)
  BY <1>0 DEF IsGrown
<1>2. ds2[b].offset = ds[b].offset /\ ds2[b].entries = ds[b].entries
  BY <1>1 DEF IsGrown
<1>3. \E i \in 1 .. Len(ds[b].entries) :
        ds[b].offset < ds[b].entries[i].off /\ ds[b].entries[i].name \notin left
  BY <1>1, <1>2 DEF Witnessed
<1> QED BY <1>2, <1>3

(* The new entry is behind the last block.                                 *)
LEMMA AddedWitness ==
  ASSUME NEW c, NEW ds, ds \in Seq(Block), Len(ds) >= 1, NEW left, ButLast(c, ds, left),
         NEW e, Fits(ds, e.off), NEW ds2, IsAdded(ds, ds2, e)
  PROVE  Witnessed(c, ds2, left \ {e.name})
<1> SUFFICES ASSUME NEW b \in 1 .. Len(ds2), ~(ds2[b].offset < c[0].curend)
             PROVE  \E i \in 1 .. Len(ds2[b].entries) :
                      /\ ds2[b].offset < ds2[b].entries[i].off
                      /\ ds2[b].entries[i].name \notin left \ {e.name}
  BY DEF Witnessed
<1>1. /\ b \in 1 .. Len(ds) /\ ds2[b].offset = ds[b].offset
      /\ Len(ds2[b].entries) \in Nat
      /\ \A i \in 1 .. Len(ds[b].entries) :
           i \in 1 .. Len(ds2[b].entries) /\ ds2[b].entries[i] = ds[b].entries[i]
      /\ Len(ds[b].entries) \in Nat
  BY AddedPlaces DEF IsAdded
<1>2. CASE b = Len(ds)
  <2> DEFINE k == Len(ds[b].entries) + 1
  <2>1. ds2[b].entries[k] = e /\ k \in 1 .. Len(ds2[b].entries)
    BY <1>1, <1>2 DEF IsAdded
  <2>2. ds[b].offset < e.off
    BY <1>1 DEF Fits
  <2> QED BY <2>1, <2>2, <1>1
<1>3. CASE b # Len(ds)
  <2>1. PICK i \in 1 .. Len(ds[b].entries) :
          ds[b].offset < ds[b].entries[i].off /\ ds[b].entries[i].name \notin left
    BY <1>1, <1>3 DEF ButLast
  <2> QED BY <2>1, <1>1
<1> QED BY <1>2, <1>3

(* A new entry moves no other.                                             *)
LEMMA AddedHash ==
  ASSUME NEW ds, ds \in Seq(Block), Len(ds) >= 1, NEW e, NEW ds2, IsAdded(ds, ds2, e),
         NEW h, NEW left, HashFits(ds, h, left)
  PROVE  HashFits(ds2, h, left \ {e.name})
<1> SUFFICES ASSUME NEW n \in left, n # e.name
             PROVE  IF h[n] = NoRef THEN Unlisted(ds2, n) ELSE ListedAt(ds2, n, h[n])
  BY DEF HashFits
<1>1. /\ Len(ds2) = Len(ds)
      /\ \A b \in 1 .. Len(ds) :
           /\ \A i \in 1 .. Len(ds[b].entries) :
                i \in 1 .. Len(ds2[b].entries) /\ ds2[b].entries[i] = ds[b].entries[i]
           /\ \A i \in 1 .. Len(ds2[b].entries) :
                i \in 1 .. Len(ds[b].entries) \/ ds2[b].entries[i] = e
  <2>1. Len(ds2) = Len(ds) BY DEF IsAdded
  <2> QED BY <2>1, AddedPlaces
<1>2. CASE h[n] = NoRef
  <2>1. Unlisted(ds, n) BY <1>2 DEF HashFits
  <2>2. Unlisted(ds2, n)
    BY <2>1, <1>1 DEF Unlisted
  <2> QED BY <1>2, <2>2
<1>3. CASE h[n] # NoRef
  <2>1. ListedAt(ds, n, h[n]) BY <1>3 DEF HashFits
  <2>2. ListedAt(ds2, n, h[n])
    BY <2>1, <1>1 DEF ListedAt
  <2> QED BY <1>3, <2>2
<1> QED BY <1>2, <1>3

(* Where there is space for a file: behind the end, or where it was.       *)
LEMMA EndSpace ==
  ASSUME NEW s, NEW ds, ds \in Seq(Block), NEW off, off \in Nat, Fits(ds, off), NEW k \in Nat
  PROVE  SpaceFor(s, ds, off, k)
<1>1. FirstDir < off
  BY DEF Fits
<1>2. \A b \in 1 .. Len(ds) : ds[b].offset < off
  BY DEF Fits
<1>3. \A b \in 1 .. Len(ds) : \A i \in 1 .. Len(ds[b].entries) :
        ds[b].entries[i].size = 0 \/ ds[b].entries[i].off + ds[b].entries[i].size <= off
  BY DEF Fits
<1> QED BY <1>1, <1>2, <1>3 DEF SpaceFor

(* The space an entry had is free for its file's new data.                 *)
LEMMA OldSpace ==
  ASSUME NEW s, NEW ds, ds \in Seq(Block), NEW b0 \in 1 .. Len(ds),
         NEW i0 \in 1 .. Len(ds[b0].entries), NEW off, off \in Nat, FirstDir < off,
         NEW size \in Nat, NEW k \in 0 .. size, FreeFor(ds, b0, i0, off, size),
         ds[b0].entries[i0].time # s[ds[b0].entries[i0].name].time
  PROVE  SpaceFor(s, ds, off, k)
<1>1. k \in Nat /\ k <= size
  OBVIOUS
<1>2. \A b \in 1 .. Len(ds) : k = 0 \/ ds[b].offset < off \/ off + k <= ds[b].offset
  <2> TAKE b \in 1 .. Len(ds)
  <2>1. size = 0 \/ ds[b].offset < off \/ off + size <= ds[b].offset BY DEF FreeFor
  <2>2. ds[b].offset \in Nat BY BlockTypes
  <2> QED BY <2>1, <2>2, <1>1
<1>3. ASSUME NEW b \in 1 .. Len(ds), NEW i \in 1 .. Len(ds[b].entries),
             ds[b].entries[i].time = s[ds[b].entries[i].name].time
      PROVE  \/ k = 0 \/ ds[b].entries[i].size = 0
             \/ off + k <= ds[b].entries[i].off
             \/ ds[b].entries[i].off + ds[b].entries[i].size <= off
  <2>1. b # b0 \/ i # i0 BY <1>3
  <2>2. \/ size = 0 \/ ds[b].entries[i].size = 0
        \/ off + size <= ds[b].entries[i].off
        \/ ds[b].entries[i].off + ds[b].entries[i].size <= off
    BY <2>1 DEF FreeFor
  <2>3. PICK o \in Nat : o = ds[b].entries[i].off BY EntryTypes
  <2>4. PICK z \in Nat : z = ds[b].entries[i].size BY EntryTypes
  <2>5. size = 0 \/ z = 0 \/ off + size <= o \/ o + z <= off
    BY <2>2, <2>3, <2>4
  <2>6. k = 0 \/ z = 0 \/ off + k <= o \/ o + z <= off
    BY <2>5, <1>1
  <2> QED BY <2>3, <2>4, <2>6
<1> QED BY <1>1, <1>2, <1>3 DEF SpaceFor

-----------------------------------------------------------------------------
(* Replacement's result, case by case.                                     *)
LEMMA ReplacementCases ==
  ASSUME NEW old, NEW size, NEW off, off = Replacement(old, size).off,
         NEW end2, end2 = Replacement(old, size).curend
  PROVE  \/ old.off + old.size = curend /\ off = old.off /\ end2 = curend + (size - old.size)
         \/ size <= old.size /\ off = old.off /\ end2 = curend
         \/ off = curend /\ end2 = curend + size
<1>1. CASE old.off + old.size = curend
  BY <1>1 DEF Replacement, Placed
<1>2. CASE old.off + old.size # curend /\ size <= old.size
  BY <1>2 DEF Replacement, Placed
<1>3. CASE old.off + old.size # curend /\ ~(size <= old.size)
  BY <1>3 DEF Replacement, Placed
<1> QED BY <1>1, <1>2, <1>3

(* What the invariant says while files are added.                          *)
LEMMA WhileAdding ==
  KeepsFiles /\ phase = "add" =>
    /\ source \in SourceFiles /\ CellTypes(cells) /\ todo \subseteq Names /\ Fresh(cells, source)
    /\ cells[0].kind = "root" /\ Layout(dirs) /\ Behind(cells, source, dirs)
    /\ Fits(dirs, curend) /\ MemFresh(cells, source, dirs) /\ Witnessed(cells, dirs, todo)
    /\ HashFits(dirs, hash, todo) /\ DiskTidy(cells)
    /\ dirs \in Seq(Block) /\ Len(dirs) \in Nat /\ Len(dirs) >= 1
BY DEF KeepsFiles, TypeInv, PhaseInv, RunInv, Layout, Linked

(* The entry of a file that is to be replaced.                             *)
LEMMA OldEntry ==
  ASSUME KeepsFiles, NEW n \in Names, Wanted(n), hash[n] # NoRef,
         NEW b0, b0 = hash[n].block, NEW i0, i0 = hash[n].place
  PROVE  /\ b0 \in 1 .. Len(dirs) /\ i0 \in 1 .. Len(dirs[b0].entries)
         /\ dirs[b0].entries[i0].name = n /\ dirs[b0].entries[i0].time # source[n].time
         /\ Old(n) = dirs[b0].entries[i0]
         /\ source[n].size \in Nat /\ source[n].time \in Nat
<1>1. phase = "add" /\ n \in todo /\ hash[n].time # source[n].time
  BY DEF Wanted
<1>2. ListedAt(dirs, n, hash[n])
  BY <1>1, WhileAdding DEF HashFits
<1>3. source[n].size \in Nat /\ source[n].time \in Nat
  BY <1>1, WhileAdding DEF SourceFiles
<1> QED BY <1>1, <1>2, <1>3 DEF ListedAt, Old

(* Replacement gives a file free space.                                    *)
LEMMA ReplacePlace ==
  ASSUME KeepsFiles, NEW n \in Names, Wanted(n), hash[n] # NoRef,
         NEW b0, b0 = hash[n].block, NEW i0, i0 = hash[n].place,
         NEW off, off = Replacement(Old(n), source[n].size).off,
         NEW end2, end2 = Replacement(Old(n), source[n].size).curend,
         end2 <= MaxUnits
  PROVE  /\ off \in Nat /\ end2 \in Nat /\ FirstDir < off
         /\ FreeFor(dirs, b0, i0, off, source[n].size) /\ EndsBy(dirs, b0, i0, end2)
         /\ source[n].size = 0 \/ off + source[n].size <= end2
         /\ \A k \in 0 .. source[n].size : SpaceFor(source, dirs, off, k)
<1>1. /\ b0 \in 1 .. Len(dirs) /\ i0 \in 1 .. Len(dirs[b0].entries)
      /\ dirs[b0].entries[i0].name = n /\ dirs[b0].entries[i0].time # source[n].time
      /\ Old(n) = dirs[b0].entries[i0] /\ source[n].size \in Nat
  BY OldEntry
<1>2. /\ Layout(dirs) /\ Fits(dirs, curend) /\ dirs \in Seq(Block)
  BY WhileAdding DEF Wanted
<1>3. PICK old : old = Old(n)
  OBVIOUS
<1>4. PICK size \in Nat : size = source[n].size
  BY <1>1
<1>6. old = dirs[b0].entries[i0] /\ old.size \in Nat /\ curend \in Nat
  BY <1>1, <1>2, <1>3, EntryTypes DEF Fits
<1>5. PlacedAt(old, curend, size, off, end2)
  <2>1. \/ old.off + old.size = curend /\ off = old.off /\ end2 = curend + (size - old.size)
        \/ size <= old.size /\ off = old.off /\ end2 = curend
        \/ off = curend /\ end2 = curend + size
    BY <1>3, <1>4, ReplacementCases
  <2>2. curend + (size - old.size) = (curend + size) - old.size
    BY <1>6
  <2> QED BY <2>1, <2>2 DEF PlacedAt
<1>7. /\ off \in Nat /\ end2 \in Nat /\ FirstDir < off
      /\ FreeFor(dirs, b0, i0, off, size) /\ EndsBy(dirs, b0, i0, end2)
      /\ size = 0 \/ off + size <= end2
  <2>1. PlacedAt(dirs[b0].entries[i0], curend, size, off, end2)
    BY <1>5, <1>6
  <2>2. b0 \in 1 .. Len(dirs) /\ i0 \in 1 .. Len(dirs[b0].entries)
    BY <1>1
  <2>3. end2 <= MaxUnits
    OBVIOUS
  <2>4. off \in Nat
    BY <1>2, <2>1, <2>2, <2>3, PlacedWell
  <2>5. end2 \in Nat
    BY <1>2, <2>1, <2>2, <2>3, PlacedWell
  <2>6. FirstDir < off
    BY <1>2, <2>1, <2>2, <2>3, PlacedWell
  <2>7. FreeFor(dirs, b0, i0, off, size)
    BY <1>2, <2>1, <2>2, <2>3, PlacedWell
  <2>8. EndsBy(dirs, b0, i0, end2)
    BY <1>2, <2>1, <2>2, <2>3, PlacedWell
  <2>9. size = 0 \/ off + size <= end2
    BY <1>2, <2>1, <2>2, <2>3, PlacedWell
  <2> QED BY <2>4, <2>5, <2>6, <2>7, <2>8, <2>9
<1>8. ASSUME NEW k \in 0 .. size PROVE SpaceFor(source, dirs, off, k)
  <2>1. dirs[b0].entries[i0].time # source[dirs[b0].entries[i0].name].time
    BY <1>1
  <2> QED BY <1>1, <1>2, <1>7, <2>1, OldSpace
<1> QED BY <1>4, <1>7, <1>8

(* The fields of the entry AddFile makes.                                  *)
LEMMA EntryIs ==
  ASSUME NEW n \in Names, source \in SourceFiles, NEW off \in Nat
  PROVE  /\ Entry(n, off) \in Stored /\ Entry(n, off).name = n /\ Entry(n, off).off = off
         /\ Entry(n, off).size = source[n].size /\ Entry(n, off).time = source[n].time
         /\ source[n].size \in Nat /\ source[n].time \in Nat
<1>1. source[n].size \in Nat /\ source[n].time \in Nat
  BY DEF SourceFiles
<1> QED BY <1>1 DEF Entry, Stored

(* An entry whose data has just been written.                              *)
LEMMA NewIsFresh ==
  ASSUME source \in SourceFiles, NEW c, NEW n \in Names, NEW off \in Nat,
         source[n].size = 0 \/ off + source[n].size <= MaxUnits
  PROVE  FreshEntry(Copied(c, source, n, off, source[n].size), source, Entry(n, off))
<1>1. PICK e : e = Entry(n, off)
  OBVIOUS
<1>2. /\ e.name = n /\ e.off = off /\ e.size = source[n].size /\ e.time = source[n].time
      /\ e.size \in Nat /\ e.time \in Nat
  BY <1>1, EntryIs
<1>3. IntactIn(Copied(c, source, e.name, off, e.size), e)
  BY <1>2, CopyWrites
<1>4. IntactIn(Copied(c, source, n, off, source[n].size), e)
  BY <1>2, <1>3
<1>5. e.time = source[e.name].time /\ e.time <= source[e.name].time
  BY <1>2
<1> QED BY <1>1, <1>4, <1>5 DEF FreshEntry

(* Replacing a file keeps the invariant.                                   *)
LEMMA ReplaceKeeps == ASSUME NEW n \in Names PROVE KeepsFiles /\ Replace(n) => KeepsFiles'
<1> SUFFICES ASSUME KeepsFiles, Replace(n) PROVE KeepsFiles'
  OBVIOUS
<1>p. PICK b0 : b0 = hash[n].block
  OBVIOUS
<1>q. PICK i0 : i0 = hash[n].place
  OBVIOUS
<1>r. PICK off : off = Replacement(Old(n), source[n].size).off
  OBVIOUS
<1>s. PICK end2 : end2 = Replacement(Old(n), source[n].size).curend
  OBVIOUS
<1>t. PICK size : size = source[n].size
  OBVIOUS
<1>u. PICK e : e = Entry(n, off)
  OBVIOUS
<1>1. /\ source' = source /\ phase = "add" /\ phase' = "add" /\ hash' = hash
      /\ todo' = todo \ {n} /\ curend' = end2 /\ n \in todo
      /\ Wanted(n) /\ hash[n] # NoRef /\ end2 <= MaxUnits
      /\ Copy(n, off, size)
      /\ dirs' = ReplacedIn(dirs, b0, i0, e)
  BY <1>p, <1>q, <1>r, <1>s, <1>t, <1>u DEF Replace, Wanted, ReplacedIn
<1>2. /\ source \in SourceFiles /\ CellTypes(cells) /\ todo \subseteq Names /\ Fresh(cells, source)
      /\ cells[0].kind = "root" /\ Layout(dirs) /\ Behind(cells, source, dirs)
      /\ Fits(dirs, curend) /\ MemFresh(cells, source, dirs) /\ Witnessed(cells, dirs, todo)
      /\ HashFits(dirs, hash, todo) /\ DiskTidy(cells)
      /\ dirs \in Seq(Block) /\ Len(dirs) \in Nat /\ Len(dirs) >= 1
  BY <1>1, WhileAdding
<1>3. /\ b0 \in 1 .. Len(dirs) /\ i0 \in 1 .. Len(dirs[b0].entries)
      /\ dirs[b0].entries[i0].name = n /\ dirs[b0].entries[i0].time # source[n].time
      /\ size \in Nat
  <2>1. Wanted(n) /\ hash[n] # NoRef BY <1>1
  <2>2. /\ b0 \in 1 .. Len(dirs) /\ i0 \in 1 .. Len(dirs[b0].entries)
        /\ dirs[b0].entries[i0].name = n /\ dirs[b0].entries[i0].time # source[n].time
        /\ source[n].size \in Nat
    BY <2>1, <1>p, <1>q, OldEntry
  <2> QED BY <2>2, <1>t
<1>4. /\ off \in Nat /\ end2 \in Nat /\ FirstDir < off
      /\ FreeFor(dirs, b0, i0, off, size) /\ EndsBy(dirs, b0, i0, end2)
      /\ size = 0 \/ off + size <= end2
      /\ \A k \in 0 .. size : SpaceFor(source, dirs, off, k)
  BY <1>1, <1>p, <1>q, <1>r, <1>s, <1>t, ReplacePlace
<1>5. e \in Stored /\ e.name = n /\ e.off = off /\ e.size = size
  BY <1>2, <1>4, <1>t, <1>u, EntryIs
<1>6. IsReplaced(dirs, dirs', b0, i0, e)
  BY <1>1, <1>2, <1>3, <1>5, ReplacedFacts
<1>7. cells' = Copied(cells, source, n, off, size)
  BY <1>1, CopyIsCopied
<1>8. /\ CellTypes(cells') /\ SameDirs(cells, cells')
      /\ MemFresh(cells', source, dirs) /\ Fresh(cells', source)
  <2>1. size \in 0 .. size BY <1>3
  <2>2. SpaceFor(source, dirs, off, size) BY <1>4, <2>1
  <2> QED BY <1>2, <1>7, <2>2, CopyInMemory
<1>9. FreshEntry(cells', source, e)
  <2>1. MaxUnits \in Nat BY BigFileAssumption
  <2>2. size = 0 \/ off + size <= MaxUnits BY <1>1, <1>3, <1>4, <2>1
  <2> QED BY <1>2, <1>4, <1>7, <1>t, <1>u, <2>2, NewIsFresh
<1>10. Layout(dirs')
  BY <1>2, <1>3, <1>4, <1>5, <1>6, ReplacedLayout
<1>11. MemFresh(cells', source, dirs')
  BY <1>3, <1>6, <1>8, <1>9, ReplacedMemFresh
<1>12. Fits(dirs', end2)
  BY <1>3, <1>4, <1>5, <1>6, ReplacedFits
<1>13. Witnessed(cells', dirs', todo \ {n})
  <2>1. Witnessed(cells, dirs', todo \ {n})
    BY <1>1, <1>2, <1>3, <1>5, <1>6, ReplacedWitness
  <2> QED BY <2>1, <1>8 DEF Witnessed, SameDirs
<1>14. HashFits(dirs', hash, todo \ {n})
  BY <1>2, <1>3, <1>5, <1>6, ReplacedHash
<1>15. Behind(cells', source, dirs')
  <2>1. NotAhead(cells, source, dirs[b0]) BY <1>2, <1>3 DEF Behind
  <2>2. Len(Seen(cells, dirs[b0].offset)) \in Nat
    BY <1>2, <2>1, SeenIsSeq DEF NotAhead
  <2>3. Len(dirs[b0].entries) \in Nat BY <1>2, <1>3, BlockTypes
  <2>4. Behind(cells, source, dirs')
    BY <1>2, <1>3, <1>5, <1>6, <2>2, <2>3, ReplacedBehind
  <2> QED BY <2>4, <1>8, SameBehind
<1>16. DiskTidy(cells') /\ cells'[0].kind = "root"
  BY <1>2, <1>8, SameTidy DEF SameDirs
<1>17. RunInv'
  BY <1>1, <1>10, <1>11, <1>12, <1>13, <1>14, <1>15, <1>16 DEF RunInv
<1>18. PhaseInv'
  BY <1>1, <1>17 DEF PhaseInv
<1>19. TypeInv' /\ Fresh(cells', source')
  BY <1>1, <1>2, <1>8 DEF TypeInv
<1> QED BY <1>18, <1>19 DEF KeepsFiles

-----------------------------------------------------------------------------
(* AddFile uses the last block, or makes a new one at the end.             *)
LEMMA GrownCases ==
  ASSUME dirs \in Seq(Block), Len(dirs) >= 1, curend \in Nat
  PROVE  \/ Grown = dirs /\ DataEnd = curend /\ Len(dirs[Len(dirs)].entries) < PerBlock
         \/ Grown = GrownTo(dirs, curend) /\ DataEnd = curend + 1
<1>1. CASE Len(dirs[Len(dirs)].entries) < PerBlock
  BY <1>1 DEF Grown, DataEnd
<1>2. CASE ~(Len(dirs[Len(dirs)].entries) < PerBlock)
  <2>1. Grown = GrownTo(dirs, curend)
    BY <1>2 DEF Grown, GrownTo, NewBlock
  <2>2. Len(Grown) = Len(dirs) + 1
    BY <2>1, GrownFacts DEF IsGrown
  <2>3. Len(Grown) # Len(dirs)
    BY <2>2
  <2> QED BY <2>1, <2>3 DEF DataEnd
<1> QED BY <1>1, <1>2

(* The directory that a new entry is put into.                             *)
LEMMA GrownReady ==
  ASSUME KeepsFiles, NEW n \in Names, Wanted(n), hash[n] = NoRef, DataEnd <= MaxUnits
  PROVE  /\ Layout(Grown) /\ Fits(Grown, DataEnd) /\ Behind(cells, source, Grown)
         /\ MemFresh(cells, source, Grown) /\ Unlisted(Grown, n)
         /\ Len(Grown[Len(Grown)].entries) < PerBlock
         /\ ButLast(cells, Grown, todo) /\ HashFits(Grown, hash, todo)
         /\ Grown \in Seq(Block) /\ Len(Grown) >= 1
<1>1. /\ CellTypes(cells) /\ Layout(dirs) /\ Behind(cells, source, dirs)
      /\ Fits(dirs, curend) /\ MemFresh(cells, source, dirs) /\ Witnessed(cells, dirs, todo)
      /\ HashFits(dirs, hash, todo) /\ dirs \in Seq(Block) /\ Len(dirs) \in Nat /\ Len(dirs) >= 1
  BY WhileAdding DEF Wanted
<1>2. Unlisted(dirs, n)
  BY <1>1 DEF HashFits, Wanted
<1>3. curend \in Nat
  BY <1>1 DEF Fits
<1>4. CASE Grown = dirs /\ DataEnd = curend /\ Len(dirs[Len(dirs)].entries) < PerBlock
  BY <1>1, <1>2, <1>4, WitnessedButLast
<1>5. CASE Grown = GrownTo(dirs, curend) /\ DataEnd = curend + 1
  <2>1. IsGrown(dirs, Grown, curend)
    BY <1>1, <1>3, <1>5, GrownFacts
  <2>2. Layout(Grown)
    BY <1>1, <2>1, GrownLayout
  <2>3. curend + 1 <= MaxUnits
    BY <1>5
  <2>4. /\ Fits(Grown, DataEnd) /\ MemFresh(cells, source, Grown) /\ Unlisted(Grown, n)
        /\ Behind(cells, source, Grown)
    BY <1>1, <1>2, <1>5, <2>1, <2>3, GrownRest
  <2>5. ButLast(cells, Grown, todo) /\ HashFits(Grown, hash, todo)
    BY <1>1, <2>1, GrownWitness, GrownHash
  <2>6. Grown \in Seq(Block) /\ Len(Grown) >= 1
    BY <2>2 DEF Layout, Linked
  <2>7. Len(Grown[Len(Grown)].entries) < PerBlock
    <3>1. Len(Grown) = Len(dirs) + 1 /\ Grown[Len(dirs) + 1] = NewBlock(curend)
      BY <2>1 DEF IsGrown
    <3>2. Len(Grown[Len(Grown)].entries) = 0
      BY <3>1 DEF NewBlock
    <3> QED BY <3>2, BigFileAssumption
  <2> QED BY <2>2, <2>4, <2>5, <2>6, <2>7
<1> QED BY <1>1, <1>3, <1>4, <1>5, GrownCases

(* Adding a file keeps the invariant.                                      *)
LEMMA AddKeeps == ASSUME NEW n \in Names PROVE KeepsFiles /\ Add(n) => KeepsFiles'
<1> SUFFICES ASSUME KeepsFiles, Add(n) PROVE KeepsFiles'
  OBVIOUS
<1>p. PICK g : g = Grown
  OBVIOUS
<1>q. PICK off : off = DataEnd
  OBVIOUS
<1>r. PICK size : size = source[n].size
  OBVIOUS
<1>s. PICK e : e = Entry(n, off)
  OBVIOUS
<1>1. /\ source' = source /\ phase = "add" /\ phase' = "add" /\ hash' = hash
      /\ todo' = todo \ {n} /\ curend' = off + size /\ n \in todo
      /\ Wanted(n) /\ hash[n] = NoRef /\ off + size <= MaxUnits
      /\ Copy(n, off, size)
      /\ dirs' = AddedTo(g, e)
  BY <1>p, <1>q, <1>r, <1>s DEF Add, Wanted, AddedTo
<1>2. /\ source \in SourceFiles /\ CellTypes(cells) /\ todo \subseteq Names /\ Fresh(cells, source)
      /\ cells[0].kind = "root" /\ Layout(dirs) /\ Fits(dirs, curend) /\ DiskTidy(cells)
      /\ dirs \in Seq(Block) /\ Len(dirs) >= 1
  BY <1>1, WhileAdding
<1>3. off \in Nat /\ size \in Nat /\ off <= MaxUnits
  <2>1. curend \in Nat BY <1>2 DEF Fits
  <2>2. off \in Nat BY <2>1, <1>2, <1>q, GrownCases
  <2>3. size \in Nat BY <1>2, <1>r DEF SourceFiles
  <2> QED BY <2>2, <2>3, <1>1, BigFileAssumption
<1>4. /\ Layout(g) /\ Fits(g, off) /\ Behind(cells, source, g)
      /\ MemFresh(cells, source, g) /\ Unlisted(g, n)
      /\ Len(g[Len(g)].entries) < PerBlock
      /\ ButLast(cells, g, todo) /\ HashFits(g, hash, todo)
      /\ g \in Seq(Block) /\ Len(g) >= 1
  <2>1. DataEnd <= MaxUnits BY <1>3, <1>q
  <2> QED BY <2>1, <1>1, <1>p, <1>q, GrownReady
<1>5. /\ e \in Stored /\ e.name = n /\ e.off = off /\ e.size = size
  BY <1>2, <1>3, <1>r, <1>s, EntryIs
<1>6. IsAdded(g, dirs', e)
  BY <1>1, <1>4, <1>5, AddedFacts
<1>7. cells' = Copied(cells, source, n, off, size)
  BY <1>1, CopyIsCopied
<1>8. /\ CellTypes(cells') /\ SameDirs(cells, cells')
      /\ MemFresh(cells', source, g) /\ Fresh(cells', source)
  <2>1. SpaceFor(source, g, off, size) BY <1>3, <1>4, EndSpace
  <2> QED BY <1>2, <1>4, <1>7, <2>1, CopyInMemory
<1>9. FreshEntry(cells', source, e)
  BY <1>1, <1>2, <1>3, <1>7, <1>r, <1>s, NewIsFresh
<1>10. Layout(dirs')
  BY <1>4, <1>5, <1>6, AddedLayout
<1>11. Fits(dirs', off + size) /\ MemFresh(cells', source, dirs')
  <2>1. Fits(g, e.off) /\ e.off + e.size <= MaxUnits /\ Unlisted(g, e.name)
    BY <1>1, <1>4, <1>5
  <2>2. /\ Fits(dirs', e.off + e.size)
        /\ MemFresh(cells', source, g) /\ FreshEntry(cells', source, e) => MemFresh(cells', source, dirs')
    BY <1>4, <1>5, <1>6, <1>8, <2>1, AddedRest
  <2> QED BY <2>2, <1>5, <1>8, <1>9
<1>12. Behind(cells', source, dirs')
  <2>1. Fits(g, e.off) /\ e.off + e.size <= MaxUnits /\ Unlisted(g, e.name)
    BY <1>1, <1>4, <1>5
  <2>2. Behind(cells, source, g) => Behind(cells, source, dirs')
    BY <1>2, <1>4, <1>5, <1>6, <2>1, AddedRest
  <2> QED BY <2>2, <1>4, <1>8, SameBehind
<1>13. Witnessed(cells', dirs', todo \ {n})
  <2>1. Witnessed(cells, dirs', todo \ {n})
    BY <1>4, <1>5, <1>6, AddedWitness
  <2> QED BY <2>1, <1>8 DEF Witnessed, SameDirs
<1>14. HashFits(dirs', hash, todo \ {n})
  BY <1>4, <1>5, <1>6, AddedHash
<1>16. DiskTidy(cells') /\ cells'[0].kind = "root"
  BY <1>2, <1>8, SameTidy DEF SameDirs
<1>17. RunInv'
  BY <1>1, <1>10, <1>11, <1>12, <1>13, <1>14, <1>16 DEF RunInv
<1>18. PhaseInv'
  BY <1>1, <1>17 DEF PhaseInv
<1>19. TypeInv' /\ Fresh(cells', source')
  BY <1>1, <1>2, <1>8 DEF TypeInv
<1> QED BY <1>18, <1>19 DEF KeepsFiles

(* Dying while the data is copied keeps the invariant: only space no       *)
(* up-to-date entry uses is written.                                       *)
LEMMA CrashInCopyKeeps == ASSUME NEW n \in Names PROVE KeepsFiles /\ CrashInCopy(n) => KeepsFiles'
<1> SUFFICES ASSUME KeepsFiles, CrashInCopy(n) PROVE KeepsFiles'
  OBVIOUS
<1>q. PICK off : off = IF hash[n] = NoRef THEN DataEnd ELSE Replacement(Old(n), source[n].size).off
  OBVIOUS
<1>r. PICK size : size = source[n].size
  OBVIOUS
<1>1. /\ source' = source /\ phase = "add" /\ phase' = "out" /\ todo' = {} /\ n \in todo
      /\ Wanted(n) /\ off + size <= MaxUnits
  BY <1>q, <1>r DEF CrashInCopy, Wanted, NoMemory
<1>k. PICK k \in 1 .. size : Copy(n, off, k)
  BY <1>q, <1>r DEF CrashInCopy
<1>2. /\ source \in SourceFiles /\ CellTypes(cells) /\ todo \subseteq Names /\ Fresh(cells, source)
      /\ cells[0].kind = "root" /\ Layout(dirs) /\ Behind(cells, source, dirs)
      /\ Fits(dirs, curend) /\ MemFresh(cells, source, dirs) /\ DiskTidy(cells)
      /\ dirs \in Seq(Block) /\ Len(dirs) >= 1 /\ curend \in Nat
  BY <1>1, WhileAdding DEF Fits
<1>3. size \in Nat /\ k \in 0 .. size /\ k \in Nat /\ MaxUnits \in Nat
  <2>1. size \in Nat BY <1>2, <1>r DEF SourceFiles
  <2> QED BY <2>1, BigFileAssumption
<1>4. CellTypes(cells') /\ SameDirs(cells, cells') /\ Fresh(cells', source)
  <2>1. cells' = Copied(cells, source, n, off, k)
    BY <1>k, CopyIsCopied
  <2>2. CASE hash[n] = NoRef
    <3>1. off = DataEnd /\ off \in Nat BY <2>2, <1>q, <1>2, GrownCases
    <3>2. off <= MaxUnits BY <3>1, <1>1, <1>3
    <3>3. /\ Layout(Grown) /\ Fits(Grown, off) /\ Behind(cells, source, Grown)
          /\ MemFresh(cells, source, Grown) /\ Grown \in Seq(Block)
      BY <2>2, <1>1, <3>1, <3>2, GrownReady
    <3>4. SpaceFor(source, Grown, off, k) BY <1>3, <3>1, <3>3, EndSpace
    <3> QED BY <1>2, <2>1, <3>3, <3>4, CopyInMemory
  <2>3. CASE hash[n] # NoRef
    <3>p. PICK b0 : b0 = hash[n].block OBVIOUS
    <3>q. PICK i0 : i0 = hash[n].place OBVIOUS
    <3>r. PICK end2 : end2 = Replacement(Old(n), source[n].size).curend OBVIOUS
    <3>1. off = Replacement(Old(n), source[n].size).off BY <2>3, <1>q
    <3>2. PICK old : old = Old(n) OBVIOUS
    <3>3. \/ old.off + old.size = curend /\ off = old.off /\ end2 = curend + (size - old.size)
          \/ size <= old.size /\ off = old.off /\ end2 = curend
          \/ off = curend /\ end2 = curend + size
      BY <3>1, <3>2, <3>r, <1>r, ReplacementCases
    <3>4. old.off \in Nat /\ old.size \in Nat
      <4>1. /\ b0 \in 1 .. Len(dirs) /\ i0 \in 1 .. Len(dirs[b0].entries)
            /\ Old(n) = dirs[b0].entries[i0]
        BY <1>1, <2>3, <3>p, <3>q, OldEntry
      <4> QED BY <4>1, <3>2, <1>2, EntryTypes
    <3>5. end2 <= MaxUnits
      <4>1. CASE old.off + old.size = curend /\ off = old.off /\ end2 = curend + (size - old.size)
        <5>1. PICK a \in Nat : a = old.off BY <3>4
        <5>2. PICK z \in Nat : z = old.size BY <3>4
        <5>3. a + z = curend /\ off = a /\ end2 = curend + (size - z) BY <4>1, <5>1, <5>2
        <5>4. end2 = off + size BY <5>3, <1>2, <1>3
        <5> QED BY <5>4, <1>1
      <4>2. CASE end2 = curend
        BY <4>2, <1>2 DEF Fits
      <4>3. CASE off = curend /\ end2 = curend + size
        BY <4>3, <1>1
      <4> QED BY <3>3, <4>1, <4>2, <4>3
    <3>6. SpaceFor(source, dirs, off, k)
      <4>1. \A l \in 0 .. source[n].size : SpaceFor(source, dirs, off, l)
        BY <1>1, <2>3, <3>p, <3>q, <3>r, <3>1, <3>5, ReplacePlace
      <4> QED BY <4>1, <1>3, <1>r
    <3> QED BY <1>2, <2>1, <3>6, CopyInMemory
  <2> QED BY <2>2, <2>3
<1>5. DiskTidy(cells')
  BY <1>2, <1>4, SameTidy
<1>6. PhaseInv'
  BY <1>1, <1>5 DEF PhaseInv
<1>7. TypeInv' /\ Fresh(cells', source')
  BY <1>1, <1>2, <1>4 DEF TypeInv
<1> QED BY <1>6, <1>7 DEF KeepsFiles

-----------------------------------------------------------------------------
(* Every step but a crash or a failed write keeps the invariant.           *)
LEMMA StepKeeps == KeepsFiles /\ Step => KeepsFiles'
<1> SUFFICES ASSUME KeepsFiles, Step PROVE KeepsFiles'
  OBVIOUS
<1>1. CASE LoadEmpty BY <1>1, LoadEmptyKeeps
<1>2. CASE Load BY <1>2, LoadKeeps
<1>3. CASE MakeRoot BY <1>3, MakeRootKeeps
<1>4. CASE MakeDir BY <1>4, MakeDirKeeps
<1>5. ASSUME NEW n \in Names, Skip(n) PROVE KeepsFiles' BY <1>5, SkipKeeps
<1>6. ASSUME NEW n \in Names, Replace(n) PROVE KeepsFiles' BY <1>6, ReplaceKeeps
<1>7. ASSUME NEW n \in Names, Add(n) PROVE KeepsFiles' BY <1>7, AddKeeps
<1>8. CASE StartUpdate BY <1>8, StartUpdateKeeps
<1>9. CASE WriteBody BY <1>9, WriteBodyKeeps
<1>10. CASE WriteHeader BY <1>10, WriteHeaderKeeps
<1>11. CASE WriteRoot BY <1>11, WriteRootKeeps
<1>12. ASSUME NEW n \in Names, CrashInCopy(n) PROVE KeepsFiles' BY <1>12, CrashInCopyKeeps
<1>13. ASSUME NEW n \in Names, Edit(n) PROVE KeepsFiles' BY <1>13, EditKeeps
<1> QED
  BY <1>1, <1>2, <1>3, <1>4, <1>5, <1>6, <1>7, <1>8, <1>9, <1>10, <1>11, <1>12, <1>13 DEF Step

(* BigFileInv is inductive.                                                *)
LEMMA NextKeepsInv == BigFileInv /\ [Next]_vars => BigFileInv'
<1> SUFFICES ASSUME BigFileInv, [Next]_vars PROVE BigFileInv'
  OBVIOUS
<1>1. failures \in Nat /\ torn \in BOOLEAN /\ (failures = 0 /\ ~torn => KeepsFiles)
  BY DEF BigFileInv
<1>2. CASE Failure /\ UNCHANGED torn
  <2>1. failures' \in Nat /\ failures' # 0 /\ torn' \in BOOLEAN
    BY <1>1, <1>2 DEF Failure
  <2> QED BY <2>1 DEF BigFileInv
<1>3. CASE Crash /\ UNCHANGED failures
  <2>1. failures' = failures /\ torn' \in BOOLEAN /\ (~torn' => ~torn)
    BY <1>1, <1>3 DEF Crash
  <2>2. ASSUME failures' = 0, ~torn' PROVE KeepsFiles'
    BY <1>1, <1>3, <2>1, <2>2, CrashKeeps
  <2> QED BY <1>1, <2>1, <2>2 DEF BigFileInv
<1>4. CASE Step /\ UNCHANGED <<failures, torn>>
  <2>1. failures' = failures /\ torn' = torn
    BY <1>4
  <2>2. ASSUME failures' = 0, ~torn' PROVE KeepsFiles'
    BY <1>1, <1>4, <2>1, <2>2, StepKeeps
  <2> QED BY <1>1, <2>1, <2>2 DEF BigFileInv
<1>5. CASE UNCHANGED vars
  <2>1. /\ source' = source /\ cells' = cells /\ phase' = phase /\ todo' = todo
        /\ curend' = curend /\ dirs' = dirs /\ hash' = hash /\ dirchanged' = dirchanged
        /\ failures' = failures /\ torn' = torn
    BY <1>5 DEF vars, memory
  <2>2. Changed' = Changed /\ FirstChanged' = FirstChanged
    BY <2>1 DEF Changed, FirstChanged
  <2>3. RunInv => RunInv'
    BY <2>1, <2>2 DEF RunInv, HalfWritten
  <2>4. PhaseInv => PhaseInv'
    BY <2>1, <2>3 DEF PhaseInv
  <2>5. KeepsFiles => KeepsFiles'
    BY <2>1, <2>4 DEF KeepsFiles, TypeInv
  <2> QED BY <1>1, <2>1, <2>5 DEF BigFileInv
<1> QED BY <1>2, <1>3, <1>4, <1>5 DEF Next

(* In every reachable state in which no write of file data has failed and  *)
(* no crash has come between the blocks of a directory, the memory of      *)
(* kguibig and the disk it updates are related as KeepsFiles says.         *)
THEOREM BigFileInvHolds == Spec => []BigFileInv
<1>1. Init => BigFileInv
  BY InitKeeps
<1>2. BigFileInv /\ [Next]_vars => BigFileInv'
  BY NextKeepsInv
<1> QED BY <1>1, <1>2, PTL DEF Spec

(* In every phase the links on the disk go upwards.                        *)
LEMMA KeepsLinksUp == KeepsFiles => LinksUp(cells) /\ CellTypes(cells) /\ Fresh(cells, source)
<1> SUFFICES ASSUME KeepsFiles PROVE LinksUp(cells)
  BY DEF KeepsFiles, TypeInv
<1>1. CASE phase \in {"out", "dead"}
  BY <1>1, TidyLinksUp DEF KeepsFiles, PhaseInv
<1>2. CASE phase \in {"empty", "make"}
  BY <1>2, NoDirsLinkUp DEF KeepsFiles, PhaseInv
<1>3. CASE phase \in {"add", "update", "header"}
  BY <1>3, BehindLinksUp DEF KeepsFiles, PhaseInv, RunInv, Layout
<1> QED BY <1>1, <1>2, <1>3 DEF KeepsFiles, PhaseInv

(* An entry on the disk whose time is that of its source file, which       *)
(* kguibig will therefore skip, has all of that file's data: at every      *)
(* point of a run, and after the program has died there (AddFile,          *)
(* UpdateDir and Load of src/big.cpp).                                     *)
THEOREM UpToDateIsIntactHolds == Spec => []UpToDateIsIntact
<1>1. BigFileInv => UpToDateIsIntact
  BY KeepsLinksUp, FreshIsIntact DEF BigFileInv, UpToDateIsIntact
<1> QED BY <1>1, BigFileInvHolds, PTL

(* Without directory blocks there is no name to share.                     *)
LEMMA NoDirsNoNames ==
  ASSUME CellTypes(cells), NoDirs(cells)
  PROVE  NoDuplicates
<1>1. \A u \in Units : Len(Visible(u)) = 0
  BY OnTheDisk DEF NoDirs, Visible
<1>2. DiskBlocks \in Seq(Units)
  BY NoDirsLinkUp, BlocksAreUnits, OnTheDisk
<1>3. \A b \in 1 .. Len(DiskBlocks) : Len(Visible(DiskBlocks[b])) = 0
  BY <1>1, <1>2
<1> QED BY <1>3 DEF NoDuplicates

(* No file is twice in a tidy directory.                                   *)
LEMMA TidyNoNameTwice ==
  ASSUME CellTypes(cells), DiskTidy(cells)
  PROVE  NoDuplicates
<1>1. CASE NoDirs(cells)
  BY <1>1, NoDirsNoNames
<1>2. CASE \E ds : DirOf(cells, ds)
  <2>1. PICK ds : DirOf(cells, ds) BY <1>2
  <2>2. /\ ds \in Seq(Block) /\ OnlyDirs(cells, ds) /\ ApartFiles(ds) /\ LinksUp(cells)
    BY <2>1, DirOfLinksUp DEF DirOf, Layout, Linked
  <2>3. NamesAgree(cells, ds)
    <3> SUFFICES ASSUME NEW b \in 1 .. Len(ds)
                 PROVE  /\ Len(Seen(cells, ds[b].offset)) <= Len(ds[b].entries)
                        /\ \A i \in 1 .. Len(Seen(cells, ds[b].offset)) :
                             Seen(cells, ds[b].offset)[i].name = ds[b].entries[i].name
      BY DEF NamesAgree
    <3>1. Seen(cells, ds[b].offset) = ds[b].entries BY <2>1 DEF DirOf, Written
    <3>2. Len(ds[b].entries) \in Nat BY <2>2, BlockTypes
    <3> QED BY <3>1, <3>2
  <2> QED BY <2>2, <2>3, NoNameTwice
<1> QED BY <1>1, <1>2 DEF DiskTidy

(* No file is twice in the directory on the disk, at every point of an     *)
(* update and after a crash, under the same proviso.                       *)
THEOREM NoDuplicatesHolds == Spec => [](failures = 0 /\ ~torn => NoDuplicates)
<1>1. ASSUME KeepsFiles PROVE NoDuplicates
  <2>0. CellTypes(cells) /\ LinksUp(cells) /\ PhaseInv
    BY <1>1, KeepsLinksUp DEF KeepsFiles
  <2>1. CASE phase \in {"out", "dead"}
    BY <2>0, <2>1, TidyNoNameTwice DEF PhaseInv
  <2>2. CASE phase \in {"empty", "make"}
    BY <2>0, <2>2, NoDirsNoNames DEF PhaseInv
  <2>3. CASE phase \in {"add", "update", "header"}
    <3>1. Layout(dirs) /\ Behind(cells, source, dirs)
      BY <2>0, <2>3 DEF PhaseInv, RunInv
    <3>2. NamesAgree(cells, dirs)
      BY <3>1 DEF Behind, NotAhead, NamesAgree
    <3>3. dirs \in Seq(Block) /\ OnlyDirs(cells, dirs) /\ ApartFiles(dirs)
      BY <3>1 DEF Layout, Linked, Behind
    <3> QED BY <2>0, <3>2, <3>3, NoNameTwice
  <2> QED BY <2>0, <2>1, <2>2, <2>3 DEF PhaseInv
<1>2. BigFileInv => (failures = 0 /\ ~torn => NoDuplicates)
  BY <1>1 DEF BigFileInv
<1> QED BY <1>2, BigFileInvHolds, PTL

-----------------------------------------------------------------------------
AllSized(ds) ==
  \A b \in 1 .. Len(ds) : \A i \in 1 .. Len(ds[b].entries) : ds[b].entries[i].size # 0
Loadable(c) ==
  c[0].kind = "root" /\ \E ds : DirOf(c, ds) /\ Fits(ds, c[0].curend) /\ AllSized(ds)

Quiet ==
  /\ \A n \in Names : source[n].size # 0
  /\ phase # "dead"
  /\ phase = "out" => cells[0] = Blank \/ Loadable(cells)
  /\ phase = "add" => Loadable(cells)
  /\ phase \in {"add", "update", "header"} => AllSized(dirs)

(* Load accepts a loadable disk, and reads the directory it has.           *)
LEMMA LoadableLoads ==
  ASSUME CellTypes(cells), NEW ds, DirOf(cells, ds), cells[0].kind = "root",
         Fits(ds, cells[0].curend), AllSized(ds)
  PROVE  /\ Readable(DiskBlocks) /\ \A e \in DiskEntries : InsideFile(e)
         /\ LoadedDirs = ds
<1>1. /\ ds \in Seq(Block) /\ DiskBlocks = Offsets(ds) /\ LoadedDirs = ds
  BY DirOfLoads, OnTheDisk DEF DirOf, Layout, Linked
<1>2. Len(DiskBlocks) = Len(ds)
  BY <1>1 DEF Offsets
<1>3. ASSUME NEW b \in 1 .. Len(ds)
      PROVE  /\ DiskBlocks[b] = ds[b].offset /\ cells[ds[b].offset].kind = "dir"
             /\ Visible(DiskBlocks[b]) = ds[b].entries
  BY <1>1, OnTheDisk DEF Offsets, DirOf, Written
<1>4. Readable(DiskBlocks)
  BY <1>2, <1>3 DEF Readable
<1>5. ASSUME NEW b \in 1 .. Len(ds), NEW i \in 1 .. Len(ds[b].entries)
      PROVE  InsideFile(ds[b].entries[i])
  <2>1. ds[b].entries[i].off \in Nat /\ ds[b].entries[i].size \in Nat
    BY <1>1, EntryTypes
  <2>2. ds[b].entries[i].size # 0
    BY DEF AllSized
  <2>3. cells[0].curend \in Nat
    BY DEF Fits
  <2>4. ds[b].entries[i].off + ds[b].entries[i].size <= cells[0].curend
    BY <2>2 DEF Fits
  <2> QED BY <2>1, <2>2, <2>3, <2>4 DEF InsideFile
<1>6. \A e \in DiskEntries : InsideFile(e)
  BY <1>2, <1>3, <1>5 DEF DiskEntries
<1> QED BY <1>1, <1>4, <1>6

(* Data written elsewhere keeps the disk loadable.                         *)
LEMMA SameLoadable ==
  ASSUME NEW c, NEW c2, SameDirs(c, c2), Loadable(c)
  PROVE  Loadable(c2)
<1>1. PICK ds : DirOf(c, ds) /\ Fits(ds, c[0].curend) /\ AllSized(ds)
  BY DEF Loadable
<1>2. c2[0] = c[0]
  BY DEF SameDirs
<1>3. DirOf(c2, ds)
  BY <1>1, SameDirOf
<1> QED BY <1>1, <1>2, <1>3 DEF Loadable

(* Without crashes and failed writes, and when no file is empty: Load      *)
(* succeeds.                                                               *)
LEMMA LoadStaysQuiet == KeepsFiles /\ Quiet /\ Load => Quiet'
<1> SUFFICES ASSUME KeepsFiles, Quiet, Load PROVE Quiet'
  OBVIOUS
<1>1. source' = source /\ cells' = cells /\ phase = "out" /\ cells[0] # Blank
  BY DEF Load
<1>2. Loadable(cells) /\ CellTypes(cells)
  BY <1>1 DEF Quiet, KeepsFiles, TypeInv
<1>3. PICK ds : DirOf(cells, ds) /\ Fits(ds, cells[0].curend) /\ AllSized(ds)
  BY <1>2 DEF Loadable
<1>4. /\ Readable(DiskBlocks) /\ \A e \in DiskEntries : InsideFile(e)
      /\ LoadedDirs = ds
  BY <1>2, <1>3, LoadableLoads DEF Loadable
<1>5. phase' = "add" /\ dirs' = ds
  BY <1>4 DEF Load
<1> QED BY <1>1, <1>2, <1>3, <1>5 DEF Quiet

(* A new bigfile can be loaded.                                            *)
LEMMA MakeDirStaysQuiet == KeepsFiles /\ KeepsFiles' /\ Quiet /\ MakeDir => Quiet'
<1> SUFFICES ASSUME KeepsFiles, KeepsFiles', Quiet, MakeDir PROVE Quiet'
  OBVIOUS
<1> DEFINE d == [offset |-> FirstDir, next |-> 0, entries |-> <<>>, changed |-> FALSE]
<1>1. /\ source' = source /\ phase = "make" /\ phase' = "add" /\ curend' = curend
      /\ cells' = [cells EXCEPT ![FirstDir] =
                     [kind |-> "dir", body |-> <<>>, num |-> 0, next |-> 0]]
      /\ dirs' = <<d>>
  BY DEF MakeDir, Write
<1>2. /\ cells = [u \in Units |-> cells[u]]
      /\ cells[0].kind = "root" /\ cells[0].curend = FirstDir + 1 /\ curend = FirstDir + 1
  BY <1>1 DEF KeepsFiles, TypeInv, PhaseInv, CellTypes
<1>3. cells'[0] = cells[0]
  BY <1>1, <1>2, UnitOne DEF FirstDir
<1>4. RunInv'
  BY <1>1 DEF KeepsFiles, PhaseInv
<1>5. /\ cells'[0].kind = "root" /\ Layout(dirs') /\ Behind(cells', source', dirs')
      /\ Fits(dirs', curend') /\ Witnessed(cells', dirs', todo')
  BY <1>4 DEF RunInv
<1>6. Len(dirs') = 1 /\ dirs'[1] = d /\ ~d.changed /\ d.entries = <<>>
  BY <1>1
<1>7. \A b \in 1 .. Len(dirs') : b = 1 /\ dirs'[b] = d
  BY <1>6
<1>8. AllWritten(dirs') /\ AllSized(dirs')
  BY <1>6, <1>7 DEF AllWritten, AllSized
<1>9. DirOf(cells', dirs')
  BY <1>5, <1>8, AllWrittenTidy
<1>10. Loadable(cells')
  BY <1>1, <1>2, <1>3, <1>5, <1>8, <1>9 DEF Loadable
<1> QED BY <1>1, <1>8, <1>10 DEF Quiet

(* Replacing a file keeps the disk loadable.                               *)
LEMMA ReplaceStaysQuiet ==
  ASSUME NEW n \in Names PROVE KeepsFiles /\ Quiet /\ Replace(n) => Quiet'
<1> SUFFICES ASSUME KeepsFiles, Quiet, Replace(n) PROVE Quiet'
  OBVIOUS
<1>p. PICK b0 : b0 = hash[n].block
  OBVIOUS
<1>q. PICK i0 : i0 = hash[n].place
  OBVIOUS
<1>r. PICK off : off = Replacement(Old(n), source[n].size).off
  OBVIOUS
<1>s. PICK end2 : end2 = Replacement(Old(n), source[n].size).curend
  OBVIOUS
<1>t. PICK size : size = source[n].size
  OBVIOUS
<1>u. PICK e : e = Entry(n, off)
  OBVIOUS
<1>1. /\ source' = source /\ phase = "add" /\ phase' = "add" /\ Wanted(n) /\ hash[n] # NoRef
      /\ end2 <= MaxUnits /\ Copy(n, off, size) /\ dirs' = ReplacedIn(dirs, b0, i0, e)
  BY <1>p, <1>q, <1>r, <1>s, <1>t, <1>u DEF Replace, Wanted, ReplacedIn
<1>2. /\ source \in SourceFiles /\ CellTypes(cells) /\ Fresh(cells, source)
      /\ Layout(dirs) /\ Behind(cells, source, dirs) /\ Fits(dirs, curend)
      /\ MemFresh(cells, source, dirs) /\ dirs \in Seq(Block)
  BY <1>1, WhileAdding
<1>3. b0 \in 1 .. Len(dirs) /\ i0 \in 1 .. Len(dirs[b0].entries)
  BY <1>1, <1>p, <1>q, OldEntry
<1>4. off \in Nat /\ SpaceFor(source, dirs, off, size) /\ size \in Nat
  <2>1. size \in Nat BY <1>2, <1>t DEF SourceFiles
  <2>2. off \in Nat /\ \A k \in 0 .. size : SpaceFor(source, dirs, off, k)
    BY <1>1, <1>p, <1>q, <1>r, <1>s, <1>t, ReplacePlace
  <2> QED BY <2>1, <2>2
<1>5. SameDirs(cells, cells')
  <2>1. cells' = Copied(cells, source, n, off, size) BY <1>1, CopyIsCopied
  <2> QED BY <1>2, <1>4, <2>1, CopyInMemory
<1>6. e \in Stored /\ e.size # 0
  BY <1>2, <1>4, <1>u, EntryIs DEF Quiet
<1>7. IsReplaced(dirs, dirs', b0, i0, e)
  BY <1>1, <1>2, <1>3, <1>6, ReplacedFacts
<1>8. AllSized(dirs')
  <2> SUFFICES ASSUME NEW b \in 1 .. Len(dirs), NEW i \in 1 .. Len(dirs[b].entries)
               PROVE  dirs'[b].entries[i].size # 0
    BY <1>7 DEF IsReplaced, AllSized
  <2>1. CASE b = b0 /\ i = i0 BY <2>1, <1>6, <1>7 DEF IsReplaced
  <2>2. CASE ~(b = b0 /\ i = i0)
    <3>1. dirs'[b].entries[i] = dirs[b].entries[i] BY <2>2, <1>7 DEF IsReplaced
    <3> QED BY <3>1, <1>1 DEF Quiet, AllSized
  <2> QED BY <2>1, <2>2
<1>9. Loadable(cells')
  BY <1>1, <1>5, SameLoadable DEF Quiet
<1> QED BY <1>1, <1>8, <1>9 DEF Quiet

(* Adding a file keeps the disk loadable.                                  *)
LEMMA AddStaysQuiet ==
  ASSUME NEW n \in Names PROVE KeepsFiles /\ Quiet /\ Add(n) => Quiet'
<1> SUFFICES ASSUME KeepsFiles, Quiet, Add(n) PROVE Quiet'
  OBVIOUS
<1>p. PICK g : g = Grown
  OBVIOUS
<1>q. PICK off : off = DataEnd
  OBVIOUS
<1>r. PICK size : size = source[n].size
  OBVIOUS
<1>s. PICK e : e = Entry(n, off)
  OBVIOUS
<1>1. /\ source' = source /\ phase = "add" /\ phase' = "add" /\ Wanted(n) /\ hash[n] = NoRef
      /\ off + size <= MaxUnits /\ Copy(n, off, size) /\ dirs' = AddedTo(g, e)
  BY <1>p, <1>q, <1>r, <1>s DEF Add, Wanted, AddedTo
<1>2. /\ source \in SourceFiles /\ CellTypes(cells) /\ Fresh(cells, source)
      /\ Fits(dirs, curend) /\ dirs \in Seq(Block) /\ Len(dirs) >= 1
  BY <1>1, WhileAdding
<1>3. off \in Nat /\ size \in Nat /\ off <= MaxUnits
  <2>1. curend \in Nat BY <1>2 DEF Fits
  <2>2. off \in Nat BY <2>1, <1>2, <1>q, GrownCases
  <2>3. size \in Nat BY <1>2, <1>r DEF SourceFiles
  <2> QED BY <2>2, <2>3, <1>1, BigFileAssumption
<1>4. /\ Layout(g) /\ Fits(g, off) /\ Behind(cells, source, g)
      /\ MemFresh(cells, source, g) /\ g \in Seq(Block) /\ Len(g) >= 1
  <2>1. DataEnd <= MaxUnits BY <1>3, <1>q
  <2> QED BY <2>1, <1>1, <1>p, <1>q, GrownReady
<1>5. SameDirs(cells, cells')
  <2>1. cells' = Copied(cells, source, n, off, size) BY <1>1, CopyIsCopied
  <2>2. SpaceFor(source, g, off, size) BY <1>3, <1>4, EndSpace
  <2> QED BY <1>2, <1>4, <2>1, <2>2, CopyInMemory
<1>6. e \in Stored /\ e.size # 0
  BY <1>2, <1>3, <1>s, EntryIs DEF Quiet
<1>7. IsAdded(g, dirs', e)
  BY <1>1, <1>4, <1>6, AddedFacts
<1>8. AllSized(g)
  <2>1. AllSized(dirs) BY <1>1 DEF Quiet
  <2>2. CASE g = dirs BY <2>1, <2>2
  <2>3. CASE g = GrownTo(dirs, curend)
    <3>1. IsGrown(dirs, g, curend) BY <1>2, <2>3, GrownFacts DEF Fits
    <3>2. Len(g) = Len(dirs) + 1 /\ \A b \in 1 .. Len(dirs) : g[b].entries = dirs[b].entries
      BY <3>1 DEF IsGrown
    <3>3. Len(g[Len(dirs) + 1].entries) = 0 BY <3>1 DEF IsGrown, NewBlock
    <3>4. \A b \in 1 .. Len(g) : b \in 1 .. Len(dirs) \/ b = Len(dirs) + 1 BY <1>2, <3>2
    <3> QED BY <2>1, <3>2, <3>3, <3>4 DEF AllSized
  <2>4. curend \in Nat BY <1>2 DEF Fits
  <2> QED BY <1>2, <1>p, <2>2, <2>3, <2>4, GrownCases
<1>9. AllSized(dirs')
  <2>1. Len(dirs') = Len(g) BY <1>7 DEF IsAdded
  <2> SUFFICES ASSUME NEW b \in 1 .. Len(dirs'), NEW i \in 1 .. Len(dirs'[b].entries)
               PROVE  dirs'[b].entries[i].size # 0
    BY DEF AllSized
  <2>2. CASE i \in 1 .. Len(g[b].entries)
    <3>1. dirs'[b].entries[i] = g[b].entries[i] BY <2>1, <2>2, <1>7 DEF IsAdded
    <3> QED BY <3>1, <2>1, <2>2, <1>8 DEF AllSized
  <2>3. CASE dirs'[b].entries[i] = e BY <2>3, <1>6
  <2> QED BY <1>4, <1>7, <2>2, <2>3, AddedPlaces
<1>10. Loadable(cells')
  BY <1>1, <1>5, SameLoadable DEF Quiet
<1> QED BY <1>1, <1>9, <1>10 DEF Quiet

(* Writing the directory keeps the entries in memory.                      *)
LEMMA WriteHeaderStaysQuiet == KeepsFiles /\ Quiet /\ WriteHeader => Quiet'
<1> SUFFICES ASSUME KeepsFiles, Quiet, WriteHeader PROVE Quiet'
  OBVIOUS
<1>1. /\ source' = source /\ phase = "header" /\ phase' = "update"
      /\ dirs' = [dirs EXCEPT ![FirstChanged].changed = FALSE]
  BY DEF WriteHeader
<1>2. RunInv /\ AllSized(dirs)
  BY <1>1 DEF KeepsFiles, PhaseInv, Quiet
<1>3. dirs \in Seq(Block) /\ FirstChanged \in 1 .. Len(dirs)
  BY <1>1, <1>2, TheFirstChanged DEF RunInv, Layout, Linked, HalfWritten
<1>4. SameBlocks(dirs, dirs')
  BY <1>1, <1>3, CleanedFacts DEF IsCleaned
<1>5. AllSized(dirs')
  BY <1>2, <1>4 DEF AllSized, SameBlocks
<1> QED BY <1>1, <1>5 DEF Quiet

(* The root header makes the new directory loadable.                       *)
LEMMA WriteRootStaysQuiet == KeepsFiles /\ Quiet /\ WriteRoot => Quiet'
<1> SUFFICES ASSUME KeepsFiles, Quiet, WriteRoot PROVE Quiet'
  OBVIOUS
<1>1. /\ source' = source /\ phase = "update" /\ phase' = "out"
      /\ IsPut(cells, cells', 0, Root(curend, curwaste)) /\ Changed = {}
  BY DEF WriteRoot, Write, NoMemory, IsPut
<1>2. TypeInv /\ Fresh(cells, source) /\ RunInv
  BY <1>1 DEF KeepsFiles, PhaseInv
<1>3. /\ CellTypes(cells) /\ cells[0].kind = "root" /\ Layout(dirs) /\ Behind(cells, source, dirs)
      /\ Fits(dirs, curend) /\ MemFresh(cells, source, dirs) /\ Witnessed(cells, dirs, todo)
  BY <1>2 DEF TypeInv, RunInv
<1>4. AllWritten(dirs)
  BY <1>1 DEF Changed, AllWritten
<1>5. DirOf(cells, dirs)
  BY <1>3, <1>4, AllWrittenTidy
<1>6. DirOf(cells', dirs) /\ cells'[0].kind = "root" /\ cells'[0].curend = curend
  BY <1>1, <1>2, <1>3, <1>5, RootWritten
<1>7. Loadable(cells')
  BY <1>1, <1>3, <1>6 DEF Loadable, Quiet
<1> QED BY <1>1, <1>7 DEF Quiet

(* No step makes the disk unloadable.                                      *)
LEMMA StepStaysQuiet ==
  ASSUME Crashes = FALSE, 0 \notin Sizes
  PROVE  KeepsFiles /\ Quiet /\ Step => Quiet'
<1> SUFFICES ASSUME KeepsFiles, Quiet, Step PROVE Quiet'
  OBVIOUS
<1>1. CASE LoadEmpty
  BY <1>1 DEF LoadEmpty, Quiet
<1>2. CASE Load BY <1>2, LoadStaysQuiet
<1>3. CASE MakeRoot
  BY <1>3 DEF MakeRoot, Quiet
<1>4. CASE MakeDir BY <1>4, StepKeeps, MakeDirStaysQuiet
<1>5. ASSUME NEW n \in Names, Skip(n) PROVE Quiet'
  BY <1>5 DEF Skip, Quiet, memory
<1>6. ASSUME NEW n \in Names, Replace(n) PROVE Quiet' BY <1>6, ReplaceStaysQuiet
<1>7. ASSUME NEW n \in Names, Add(n) PROVE Quiet' BY <1>7, AddStaysQuiet
<1>8. CASE StartUpdate
  BY <1>8 DEF StartUpdate, NoMemory, KeepsFiles, PhaseInv, Quiet, memory
<1>9. CASE WriteBody
  BY <1>9 DEF WriteBody, Quiet, memory
<1>10. CASE WriteHeader BY <1>10, WriteHeaderStaysQuiet
<1>11. CASE WriteRoot BY <1>11, WriteRootStaysQuiet
<1>12. ASSUME NEW n \in Names, CrashInCopy(n) PROVE Quiet'
  BY <1>12 DEF CrashInCopy
<1>13. ASSUME NEW n \in Names, Edit(n) PROVE Quiet'
  <2>1. PICK size \in Sizes :
          source' = [source EXCEPT ![n] = [size |-> size, time |-> source[n].time + 1]]
    BY <1>13 DEF Edit
  <2>2. \A m \in Names : source'[m].size = source[m].size \/ source'[m].size = size
    BY <2>1 DEF KeepsFiles, TypeInv, SourceFiles
  <2>3. \A m \in Names : source'[m].size # 0
    BY <2>2 DEF Quiet
  <2>4. phase = "out" /\ phase' = "out" /\ cells' = cells
    BY <1>13 DEF Edit
  <2> QED BY <2>3, <2>4 DEF Quiet
<1> QED
  BY <1>1, <1>2, <1>3, <1>4, <1>5, <1>6, <1>7, <1>8, <1>9, <1>10, <1>11, <1>12, <1>13 DEF Step

QuietInv == failures = 0 /\ torn = FALSE /\ KeepsFiles /\ Quiet

(* What kguibig leaves behind passes the checks of Load, when it is not    *)
(* interrupted, no write fails and no source file is empty: each of these  *)
(* can leave a bigfile that does not.                                      *)
THEOREM LoadsAgainHolds ==
  ASSUME Crashes = FALSE, MaxFails = 0, 0 \notin Sizes
  PROVE  Spec => []LoadsAgain
<1>1. Init => QuietInv
  <2> SUFFICES ASSUME Init PROVE QuietInv
    OBVIOUS
  <2>1. failures = 0 /\ torn = FALSE /\ KeepsFiles
    BY InitKeeps DEF Init, BigFileInv
  <2>2. phase = "out" /\ cells[0] = Blank
    BY UnitOne DEF Init
  <2>3. \A n \in Names : source[n].size \in Sizes
    BY DEF Init
  <2> QED BY <2>1, <2>2, <2>3 DEF QuietInv, Quiet
<1>2. QuietInv /\ [Next]_vars => QuietInv'
  <2> SUFFICES ASSUME QuietInv, [Next]_vars PROVE QuietInv'
    OBVIOUS
  <2>1. failures = 0 /\ torn = FALSE /\ KeepsFiles /\ Quiet
    BY DEF QuietInv
  <2>2. CASE Failure
    BY <2>1, <2>2 DEF Failure
  <2>3. CASE Crash
    BY <2>3 DEF Crash
  <2>4. CASE Step /\ UNCHANGED <<failures, torn>>
    BY <2>1, <2>4, StepKeeps, StepStaysQuiet DEF QuietInv
  <2>5. CASE UNCHANGED vars
    <3>1. failures' = 0 /\ torn' = FALSE /\ source' = source /\ cells' = cells
          /\ phase' = phase /\ dirs' = dirs
      BY <2>1, <2>5 DEF vars, memory
    <3>2. BigFileInv'
      BY <2>1, <2>5, NextKeepsInv DEF BigFileInv
    <3>3. KeepsFiles' /\ Quiet'
      BY <2>1, <3>1, <3>2 DEF BigFileInv, Quiet
    <3> QED BY <3>1, <3>3 DEF QuietInv
  <2> QED BY <2>2, <2>3, <2>4, <2>5 DEF Next
<1>3. QuietInv => LoadsAgain
  <2> SUFFICES ASSUME QuietInv, phase = "out", cells[0] # Blank
               PROVE  Readable(DiskBlocks) /\ \A e \in DiskEntries : InsideFile(e)
    BY DEF LoadsAgain
  <2>1. Loadable(cells) /\ CellTypes(cells)
    BY DEF QuietInv, Quiet, KeepsFiles, TypeInv
  <2> QED BY <2>1, LoadableLoads DEF Loadable
<1> QED BY <1>1, <1>2, <1>3, PTL DEF Spec

-----------------------------------------------------------------------------
(* The sum of the sizes of a set of entries.  It is a fold: the fold has a  *)
(* value for finite sets, which does not depend on the order of choosing.  *)
Chosen(S) == CHOOSE x \in S : TRUE
SumOf(S) == MapThenSumSet(LAMBDA e : e.size, S)
Folding(f, D) ==
  f = [s \in D |-> IF s = {} THEN 0
                   ELSE Chosen(s).size + f[s \ {Chosen(s)}]]

(* The subsets of S with fewer than n elements.                            *)
Below(S, n) == {s \in SUBSET S : Cardinality(s) < n}

LEMMA OneLess ==
  ASSUME NEW s, IsFiniteSet(s), s # {}
  PROVE  /\ Chosen(s) \in s
         /\ \A x \in s : IsFiniteSet(s \ {x}) /\ Cardinality(s \ {x}) = Cardinality(s) - 1
         /\ Cardinality(s) \in Nat /\ Cardinality(s) # 0
<1>1. ASSUME NEW x \in s PROVE IsFiniteSet(s \ {x}) /\ Cardinality(s \ {x}) = Cardinality(s) - 1
  BY FS_RemoveElement
<1>2. Cardinality(s) \in Nat /\ Cardinality(s) # 0
  BY FS_CardinalityType, FS_EmptySet
<1>3. Chosen(s) \in s
  BY DEF Chosen
<1> QED BY <1>1, <1>2, <1>3

LEMMA FoldExists ==
  ASSUME NEW S, IsFiniteSet(S)
  PROVE  \E f : Folding(f, SUBSET S)
<1>0. \A s \in SUBSET S : IsFiniteSet(s) /\ Cardinality(s) \in Nat /\ Cardinality(s) <= Cardinality(S)
  BY FS_Subset, FS_CardinalityType
<1>c. Cardinality(S) \in Nat
  BY FS_CardinalityType
<1>1. \A n \in Nat : \E f : Folding(f, Below(S, n))
  <2> DEFINE T == {n \in Nat : ~\E f : Folding(f, Below(S, n))}
  <2> SUFFICES ASSUME T # {} PROVE FALSE
    OBVIOUS
  <2>1. PICK n \in T : \A y \in T : n <= y
    <3>1. T \subseteq Nat
      OBVIOUS
    <3> HIDE DEF T
    <3> QED BY <3>1, Least
  <2>2. CASE n = 0
    <3>1. Below(S, n) = {}
      BY <1>0, <2>2 DEF Below
    <3> DEFINE f == [s \in {} |-> s]
    <3>2. Folding(f, Below(S, n))
      BY <3>1 DEF Folding
    <3> QED BY <3>2
  <2>3. CASE n # 0
    <3>1. n \in Nat /\ n - 1 \in Nat /\ n - 1 \notin T
      BY <2>1, <2>3
    <3>2. PICK g : Folding(g, Below(S, n - 1))
      BY <3>1
    <3> DEFINE f == [s \in Below(S, n) |->
                       IF s = {} THEN 0
                       ELSE Chosen(s).size + g[s \ {Chosen(s)}]]
    <3>3. ASSUME NEW s \in Below(S, n - 1) PROVE s \in Below(S, n) /\ f[s] = g[s]
      <4>1. s \in Below(S, n)
        BY <1>0, <3>1 DEF Below
      <4>2. g[s] = IF s = {} THEN 0
                   ELSE Chosen(s).size + g[s \ {Chosen(s)}]
        BY <3>2 DEF Folding
      <4> QED BY <4>1, <4>2
    <3>4. \A s \in Below(S, n) :
             f[s] = IF s = {} THEN 0
                    ELSE Chosen(s).size + g[s \ {Chosen(s)}]
      OBVIOUS
    <3>5. f = [s \in Below(S, n) |-> f[s]]
      OBVIOUS
    <3> HIDE DEF f
    <3>6. ASSUME NEW s \in Below(S, n), s # {}
          PROVE  s \ {Chosen(s)} \in Below(S, n - 1)
      <4>1. s \in SUBSET S /\ IsFiniteSet(s) /\ Cardinality(s) < n
        BY <1>0 DEF Below
      <4>2. PICK c : c = Chosen(s)
        OBVIOUS
      <4>3. Cardinality(s \ {c}) = Cardinality(s) - 1 /\ Cardinality(s) \in Nat
        BY <3>6, <4>1, <4>2, OneLess
      <4>4. s \ {c} \in SUBSET S /\ Cardinality(s \ {c}) < n - 1
        BY <4>1, <4>3, <3>1
      <4> QED BY <4>2, <4>4 DEF Below
    <3>7. \A s \in Below(S, n) :
             f[s] = IF s = {} THEN 0
                    ELSE Chosen(s).size + f[s \ {Chosen(s)}]
      BY <3>3, <3>4, <3>6
    <3>8. Folding(f, Below(S, n))
      BY <3>5, <3>7 DEF Folding
    <3> QED BY <3>8
  <2> QED BY <2>2, <2>3
<1>2. Below(S, Cardinality(S) + 1) = SUBSET S
  BY <1>0, <1>c DEF Below
<1>3. PICK n \in Nat : n = Cardinality(S) + 1
  BY <1>c
<1>4. \E f : Folding(f, Below(S, n))
  BY <1>1
<1> QED BY <1>2, <1>3, <1>4

LEMMA FoldOnSubset ==
  ASSUME NEW S, IsFiniteSet(S), NEW T \in SUBSET S,
         NEW f, Folding(f, SUBSET S), NEW g, Folding(g, SUBSET T)
  PROVE  f[T] = g[T]
<1>0. \A s \in SUBSET T : IsFiniteSet(s) /\ Cardinality(s) \in Nat
  BY FS_Subset, FS_CardinalityType
<1> DEFINE N == {n \in Nat : \E s \in SUBSET T : Cardinality(s) = n /\ f[s] # g[s]}
<1> SUFFICES ASSUME N # {} PROVE FALSE
  BY <1>0
<1>1. PICK n \in N : \A y \in N : n <= y
  <2>1. N \subseteq Nat
    OBVIOUS
  <2> HIDE DEF N
  <2> QED BY <2>1, Least
<1>2. PICK s \in SUBSET T : Cardinality(s) = n /\ f[s] # g[s]
  BY <1>1
<1>3. PICK c : c = Chosen(s)
  OBVIOUS
<1>4. /\ f[s] = IF s = {} THEN 0 ELSE c.size + f[s \ {c}]
      /\ g[s] = IF s = {} THEN 0 ELSE c.size + g[s \ {c}]
  <2>1. s \in SUBSET S
    OBVIOUS
  <2>2. f[s] = IF s = {} THEN 0 ELSE c.size + f[s \ {c}]
    BY <1>3, <2>1 DEF Folding
  <2>3. g[s] = IF s = {} THEN 0 ELSE c.size + g[s \ {c}]
    BY <1>3 DEF Folding
  <2> QED BY <2>2, <2>3
<1>5. s # {}
  BY <1>2, <1>4
<1>6. s \ {c} \in SUBSET T /\ Cardinality(s \ {c}) \in Nat /\ Cardinality(s \ {c}) < n
  BY <1>0, <1>2, <1>3, <1>5, OneLess
<1>7. Cardinality(s \ {c}) \notin N
  BY <1>1, <1>6
<1>8. f[s \ {c}] = g[s \ {c}]
  BY <1>6, <1>7
<1> QED BY <1>2, <1>4, <1>8

LEMMA SumIsFold ==
  ASSUME NEW S
  PROVE  SumOf(S) = (CHOOSE f : Folding(f, SUBSET S))[S]
BY DEF SumOf, MapThenSumSet, MapThenFoldSet, Folding, Chosen

(* The sum over a set that is not empty, by one element of it.             *)
LEMMA SumByChoice ==
  ASSUME NEW S, IsFiniteSet(S)
  PROVE  /\ S = {} => SumOf(S) = 0
         /\ S # {} => SumOf(S) = Chosen(S).size + SumOf(S \ {Chosen(S)})
<1> DEFINE f == CHOOSE g : Folding(g, SUBSET S)
<1>1. Folding(f, SUBSET S)
  BY FoldExists
<1>2. SumOf(S) = f[S]
  BY SumIsFold
<1> HIDE DEF f
<1>3. S \in SUBSET S
  OBVIOUS
<1>4. PICK c : c = Chosen(S)
  OBVIOUS
<1>5. f[S] = IF S = {} THEN 0 ELSE c.size + f[S \ {c}]
  BY <1>1, <1>3, <1>4 DEF Folding
<1>6. f[S \ {c}] = SumOf(S \ {c})
  <2> DEFINE R == S \ {c}
             g == CHOOSE h : Folding(h, SUBSET R)
  <2>1. R \in SUBSET S /\ IsFiniteSet(R)
    BY FS_Subset
  <2> HIDE DEF R
  <2>2. Folding(g, SUBSET R)
    BY <2>1, FoldExists
  <2>3. SumOf(R) = g[R]
    BY SumIsFold
  <2> HIDE DEF g
  <2>4. f[R] = g[R]
    BY <1>1, <2>1, <2>2, FoldOnSubset
  <2> QED BY <2>3, <2>4 DEF R
<1> QED BY <1>2, <1>4, <1>5, <1>6

SizesAreNat(S) == IsFiniteSet(S) /\ \A e \in S : e.size \in Nat

(* ... by any element, and it is a number.                                 *)
LEMMA SumByAny ==
  ASSUME NEW S, SizesAreNat(S)
  PROVE  SumOf(S) \in Nat /\ \A e \in S : SumOf(S) = e.size + SumOf(S \ {e})
<1> DEFINE Right(s) == SumOf(s) \in Nat /\ \A e \in s : SumOf(s) = e.size + SumOf(s \ {e})
           N == {n \in Nat : \E s \in SUBSET S : Cardinality(s) = n /\ ~Right(s)}
<1>0. \A s \in SUBSET S : IsFiniteSet(s) /\ Cardinality(s) \in Nat
  BY FS_Subset, FS_CardinalityType DEF SizesAreNat
<1> SUFFICES ASSUME N # {} PROVE FALSE
  BY <1>0
<1>1. PICK n \in N : \A y \in N : n <= y
  <2>1. N \subseteq Nat
    OBVIOUS
  <2> HIDE DEF N
  <2> QED BY <2>1, Least
<1>2. PICK s \in SUBSET S : Cardinality(s) = n /\ ~Right(s)
  BY <1>1
<1>3. ASSUME NEW r \in SUBSET s, Cardinality(r) < Cardinality(s) PROVE Right(r)
  <2>1. r \in SUBSET S /\ Cardinality(r) \in Nat /\ Cardinality(r) < n
    BY <1>0, <1>2, <1>3
  <2>2. Cardinality(r) \notin N
    BY <1>1, <2>1
  <2> QED BY <2>1, <2>2
<1>4. IsFiniteSet(s)
  BY <1>0
<1>5. s # {}
  <2> SUFFICES ASSUME s = {} PROVE Right(s)
    BY <1>2
  <2>1. SumOf(s) = 0
    BY <1>4, SumByChoice
  <2> QED BY <2>1
<1>6. PICK c : c = Chosen(s)
  OBVIOUS
<1>7. /\ c \in s /\ SumOf(s) = c.size + SumOf(s \ {c})
      /\ \A x \in s : IsFiniteSet(s \ {x}) /\ Cardinality(s \ {x}) < Cardinality(s)
  <2>1. c \in s /\ \A x \in s : IsFiniteSet(s \ {x}) /\ Cardinality(s \ {x}) = Cardinality(s) - 1
        /\ Cardinality(s) \in Nat
    BY <1>4, <1>5, <1>6, OneLess
  <2>2. SumOf(s) = c.size + SumOf(s \ {c})
    BY <1>4, <1>5, <1>6, SumByChoice
  <2> QED BY <2>1, <2>2
<1>8. \A x \in s : Right(s \ {x}) /\ x.size \in Nat
  BY <1>3, <1>7 DEF SizesAreNat
<1>9. SumOf(s) \in Nat
  BY <1>7, <1>8
<1>10. ASSUME NEW e \in s PROVE SumOf(s) = e.size + SumOf(s \ {e})
  <2>1. CASE e = c
    BY <1>7, <2>1
  <2>2. CASE e # c
    <3>1. e \in s \ {c} /\ c \in s \ {e}
      BY <1>7, <2>2
    <3>2. SumOf(s \ {c}) = e.size + SumOf((s \ {c}) \ {e})
      BY <1>7, <1>8, <3>1
    <3>3. SumOf(s \ {e}) = c.size + SumOf((s \ {e}) \ {c})
      BY <1>8, <3>1
    <3>4. (s \ {c}) \ {e} = (s \ {e}) \ {c}
      OBVIOUS
    <3>5. PICK R : R = (s \ {e}) \ {c}
      OBVIOUS
    <3>6. SumOf(R) \in Nat
      <4>1. R \in SUBSET s /\ R = (s \ {e}) \ {c} /\ IsFiniteSet(s \ {e}) /\ IsFiniteSet(s) /\ e \in s
        BY <1>4, <1>7, <3>5
      <4>2. Cardinality(R) <= Cardinality(s \ {e}) /\ Cardinality(s \ {e}) < Cardinality(s)
        <5>1. R \in SUBSET (s \ {e})
          BY <4>1
        <5> QED BY <4>1, <5>1, <1>7, FS_Subset
      <4>3. Cardinality(R) \in Nat /\ Cardinality(s \ {e}) \in Nat /\ Cardinality(s) \in Nat
        BY <1>0, <4>1
      <4>4. Cardinality(R) < Cardinality(s)
        BY <4>2, <4>3
      <4> QED BY <1>3, <4>1, <4>4
    <3> QED BY <1>7, <1>8, <3>2, <3>3, <3>4, <3>5, <3>6
  <2> QED BY <2>1, <2>2
<1> QED BY <1>2, <1>9, <1>10

(* What one element more, or another in its place, makes of the sum.       *)
LEMMA SumChanges ==
  ASSUME NEW S, SizesAreNat(S), NEW e, e.size \in Nat
  PROVE  /\ SumOf({}) = 0
         /\ e \notin S => SizesAreNat(S \cup {e}) /\ SumOf(S \cup {e}) = SumOf(S) + e.size
         /\ SumOf(S) \in Nat
         /\ \A d \in S : e \notin S \ {d} =>
               /\ SizesAreNat((S \ {d}) \cup {e})
               /\ SumOf((S \ {d}) \cup {e}) = SumOf(S) - d.size + e.size
<1>1. SumOf({}) = 0
  BY FS_EmptySet, SumByChoice
<1>2. ASSUME NEW R, SizesAreNat(R), e \notin R
      PROVE  SizesAreNat(R \cup {e}) /\ SumOf(R \cup {e}) = SumOf(R) + e.size
  <2> DEFINE Q == R \cup {e}
  <2>1. SizesAreNat(Q)
    BY <1>2, FS_AddElement DEF SizesAreNat
  <2>2. e \in Q /\ Q \ {e} = R
    BY <1>2
  <2> HIDE DEF Q
  <2>3. SumOf(Q) = e.size + SumOf(R)
    BY <2>1, <2>2, SumByAny
  <2>4. SumOf(R) \in Nat
    BY <1>2, SumByAny
  <2> QED BY <2>1, <2>3, <2>4 DEF Q
<1>3. SumOf(S) \in Nat
  BY SumByAny
<1>4. ASSUME NEW d \in S, e \notin S \ {d}
      PROVE  /\ SizesAreNat((S \ {d}) \cup {e})
             /\ SumOf((S \ {d}) \cup {e}) = SumOf(S) - d.size + e.size
  <2> DEFINE R == S \ {d}
  <2>1. SizesAreNat(R)
    BY FS_RemoveElement DEF SizesAreNat
  <2>2. SumOf(S) = d.size + SumOf(R)
    BY SumByAny
  <2>3. SumOf(R) \in Nat /\ d.size \in Nat
    BY <2>1, SumByAny DEF SizesAreNat
  <2>4. SizesAreNat(R \cup {e}) /\ SumOf(R \cup {e}) = SumOf(R) + e.size
    BY <1>2, <1>4, <2>1
  <2> QED BY <2>2, <2>3, <2>4
<1> QED BY <1>1, <1>2, <1>3, <1>4

-----------------------------------------------------------------------------
(* m_curend counts units: the root header, the blocks, the waste, the files. *)
EntriesOf(ds) ==
  {e \in Stored : \E b \in 1 .. Len(ds) : \E i \in 1 .. Len(ds[b].entries) : e = ds[b].entries[i]}
Counted(ds, end, waste) ==
  /\ IsFiniteSet(EntriesOf(ds)) /\ waste \in Int
  /\ end = 1 + Len(ds) + waste + SumOf(EntriesOf(ds))
CountedOn(c) ==
  c[0].kind = "root" /\ \E ds : DirOf(c, ds) /\ Counted(ds, c[0].curend, c[0].curwaste)

(* In memory while kguibig runs, on the disk when it does not and until it  *)
(* begins to write the directory.                                          *)
UnitsCounted ==
  /\ phase = "out" => cells[0] = Blank \/ CountedOn(cells)
  /\ phase = "make" => cells[0] = Root(FirstDir + 1, 0) /\ curwaste = 0
  /\ phase = "add" => CountedOn(cells)
  /\ phase \in {"add", "update", "header"} => Counted(dirs, curend, curwaste)

LEMMA EntriesSized ==
  ASSUME NEW ds, IsFiniteSet(EntriesOf(ds))
  PROVE  SizesAreNat(EntriesOf(ds))
BY StoredTypes DEF SizesAreNat, EntriesOf

LEMMA EntryIn ==
  ASSUME NEW ds, ds \in Seq(Block), NEW b \in 1 .. Len(ds), NEW i \in 1 .. Len(ds[b].entries)
  PROVE  ds[b].entries[i] \in EntriesOf(ds)
BY EntryTypes DEF EntriesOf

(* Replacing an entry replaces it in the set, where no other one is its     *)
(* equal.                                                                  *)
LEMMA ReplacedEntries ==
  ASSUME NEW ds, Layout(ds), ds \in Seq(Block), NEW b0 \in 1 .. Len(ds), NEW i0 \in 1 .. Len(ds[b0].entries),
         NEW e \in Stored, e.name = ds[b0].entries[i0].name,
         NEW ds2, IsReplaced(ds, ds2, b0, i0, e)
  PROVE  /\ EntriesOf(ds2) = (EntriesOf(ds) \ {ds[b0].entries[i0]}) \cup {e}
         /\ ds[b0].entries[i0] \in EntriesOf(ds)
         /\ e \notin EntriesOf(ds) \ {ds[b0].entries[i0]}
<1> DEFINE d == ds[b0].entries[i0]
<1>1. d \in EntriesOf(ds)
  BY EntryIn
<1>2. ASSUME NEW b \in 1 .. Len(ds), NEW i \in 1 .. Len(ds[b].entries), b # b0 \/ i # i0
      PROVE  /\ ds[b].entries[i] # d /\ ds[b].entries[i].name # e.name
             /\ ds[b].entries[i] \in EntriesOf(ds2)
  <2>1. ds[b].entries[i].name # d.name
    BY <1>2 DEF Layout, ApartFiles
  <2>2. ds2[b].entries[i] = ds[b].entries[i]
    BY <1>2 DEF IsReplaced
  <2>3. b \in 1 .. Len(ds2) /\ i \in 1 .. Len(ds2[b].entries) /\ ds2 \in Seq(Block)
    BY DEF IsReplaced
  <2>4. ds2[b].entries[i] \in EntriesOf(ds2)
    BY <2>3, EntryIn
  <2> QED BY <2>1, <2>2, <2>4
<1>3. e \in EntriesOf(ds2)
  <2>1. ds2[b0].entries[i0] = e /\ b0 \in 1 .. Len(ds2) /\ i0 \in 1 .. Len(ds2[b0].entries)
        /\ ds2 \in Seq(Block)
    BY DEF IsReplaced
  <2> QED BY <2>1, EntryIn
<1>4. ASSUME NEW x \in EntriesOf(ds), x # d
      PROVE  x \in EntriesOf(ds2) /\ x.name # e.name
  <2>b. PICK b \in 1 .. Len(ds) : \E i \in 1 .. Len(ds[b].entries) : x = ds[b].entries[i]
    BY DEF EntriesOf
  <2>1. PICK i \in 1 .. Len(ds[b].entries) : x = ds[b].entries[i]
    BY <2>b
  <2>2. b # b0 \/ i # i0
    BY <1>4, <2>1
  <2> QED BY <1>2, <2>1, <2>2
<1>5. ASSUME NEW x \in EntriesOf(ds2), x # e
      PROVE  x \in EntriesOf(ds) \ {d}
  <2>b. PICK b \in 1 .. Len(ds2) : \E i \in 1 .. Len(ds2[b].entries) : x = ds2[b].entries[i]
    BY DEF EntriesOf
  <2>1. PICK i \in 1 .. Len(ds2[b].entries) : x = ds2[b].entries[i]
    BY <2>b
  <2>2. b \in 1 .. Len(ds) /\ i \in 1 .. Len(ds[b].entries)
    BY DEF IsReplaced
  <2>3. b # b0 \/ i # i0
    BY <1>5, <2>1 DEF IsReplaced
  <2>4. x = ds[b].entries[i]
    BY <2>1, <2>2, <2>3 DEF IsReplaced
  <2>5. x \in EntriesOf(ds)
    BY <2>2, <2>4, EntryIn
  <2>6. x # d
    BY <1>2, <2>2, <2>3, <2>4
  <2> QED BY <2>5, <2>6
<1>6. e \notin EntriesOf(ds) \ {d}
  BY <1>4
<1> HIDE DEF d
<1> QED BY <1>1, <1>3, <1>4, <1>5, <1>6 DEF d

(* What Replacement does to the end and the waste fits the sizes.          *)
LEMMA ReplacementCounts ==
  ASSUME NEW old, old.off \in Nat, old.size \in Nat, NEW size \in Nat,
         curend \in Nat, curwaste \in Int,
         NEW p, p = Replacement(old, size)
  PROVE  /\ p.curwaste \in Int /\ p.curend \in Int
         /\ p.curend - p.curwaste = (curend - curwaste) - old.size + size
<1>1. CASE old.off + old.size = curend
  BY <1>1 DEF Replacement, Placed
<1>2. CASE old.off + old.size # curend /\ size <= old.size
  BY <1>2 DEF Replacement, Placed
<1>3. CASE old.off + old.size # curend /\ ~(size <= old.size)
  BY <1>3 DEF Replacement, Placed
<1> QED BY <1>1, <1>2, <1>3

(* Data written elsewhere leaves the count on the disk.                    *)
LEMMA SameCounted ==
  ASSUME NEW c, NEW c2, SameDirs(c, c2), CountedOn(c)
  PROVE  CountedOn(c2)
<1>1. PICK ds : DirOf(c, ds) /\ Counted(ds, c[0].curend, c[0].curwaste)
  BY DEF CountedOn
<1>2. c2[0] = c[0]
  BY DEF SameDirs
<1>3. DirOf(c2, ds)
  BY <1>1, SameDirOf
<1> QED BY <1>1, <1>2, <1>3 DEF CountedOn

LEMMA ReplaceCounts ==
  ASSUME NEW n \in Names PROVE KeepsFiles /\ UnitsCounted /\ Replace(n) => UnitsCounted'
<1> SUFFICES ASSUME KeepsFiles, UnitsCounted, Replace(n) PROVE UnitsCounted'
  OBVIOUS
<1>p. PICK b0 : b0 = hash[n].block
  OBVIOUS
<1>q. PICK i0 : i0 = hash[n].place
  OBVIOUS
<1>r. PICK p : p = Replacement(Old(n), source[n].size)
  OBVIOUS
<1>t. PICK size : size = source[n].size
  OBVIOUS
<1>u. PICK e : e = Entry(n, p.off)
  OBVIOUS
<1>1. /\ source' = source /\ phase = "add" /\ phase' = "add" /\ Wanted(n) /\ hash[n] # NoRef
      /\ p.curend <= MaxUnits /\ Copy(n, p.off, size) /\ dirs' = ReplacedIn(dirs, b0, i0, e)
      /\ curend' = p.curend /\ curwaste' = p.curwaste
  BY <1>p, <1>q, <1>r, <1>t, <1>u DEF Replace, Wanted, ReplacedIn
<1>2. /\ source \in SourceFiles /\ CellTypes(cells) /\ Fresh(cells, source)
      /\ Layout(dirs) /\ Behind(cells, source, dirs) /\ Fits(dirs, curend)
      /\ MemFresh(cells, source, dirs) /\ dirs \in Seq(Block)
  BY <1>1, WhileAdding
<1>3. /\ b0 \in 1 .. Len(dirs) /\ i0 \in 1 .. Len(dirs[b0].entries)
      /\ dirs[b0].entries[i0].name = n /\ Old(n) = dirs[b0].entries[i0]
  BY <1>1, <1>p, <1>q, OldEntry
<1>4. p.off \in Nat /\ SpaceFor(source, dirs, p.off, size) /\ size \in Nat
  <2>1. size \in Nat BY <1>2, <1>t DEF SourceFiles
  <2>2. p.off \in Nat /\ \A k \in 0 .. size : SpaceFor(source, dirs, p.off, k)
    BY <1>1, <1>p, <1>q, <1>r, <1>t, ReplacePlace
  <2> QED BY <2>1, <2>2
<1>5. SameDirs(cells, cells')
  <2>1. cells' = Copied(cells, source, n, p.off, size) BY <1>1, CopyIsCopied
  <2> QED BY <1>2, <1>4, <2>1, CopyInMemory
<1>6. e \in Stored /\ e.size = size /\ e.name = n
  BY <1>2, <1>4, <1>t, <1>u, EntryIs
<1>7. IsReplaced(dirs, dirs', b0, i0, e)
  BY <1>1, <1>2, <1>3, <1>6, ReplacedFacts
<1>8. Counted(dirs', curend', curwaste')
  <2> DEFINE S == EntriesOf(dirs)
             d == dirs[b0].entries[i0]
  <2>1. IsFiniteSet(S) /\ curwaste \in Int /\ curend = 1 + Len(dirs) + curwaste + SumOf(S)
    BY <1>1 DEF UnitsCounted, Counted
  <2>2. EntriesOf(dirs') = (S \ {d}) \cup {e} /\ d \in S /\ e \notin S \ {d}
    BY <1>2, <1>3, <1>6, <1>7, ReplacedEntries
  <2>3. SizesAreNat(S)
    BY <2>1, EntriesSized
  <2>4. d.off \in Nat /\ d.size \in Nat /\ Old(n) = d
    BY <1>2, <1>3, EntryTypes
  <2> HIDE DEF S, d
  <2>5. /\ SizesAreNat((S \ {d}) \cup {e}) /\ SumOf(S) \in Nat
        /\ SumOf((S \ {d}) \cup {e}) = SumOf(S) - d.size + e.size
    <3>1. e.size \in Nat
      BY <1>4, <1>6
    <3>2. SumOf(S) \in Nat /\ \A x \in S : e \notin S \ {x} =>
             /\ SizesAreNat((S \ {x}) \cup {e})
             /\ SumOf((S \ {x}) \cup {e}) = SumOf(S) - x.size + e.size
      BY <2>3, <3>1, SumChanges, Zenon
    <3> QED BY <2>2, <3>2, Zenon
  <2>6. curend \in Nat
    BY <1>2 DEF Fits
  <2>7. /\ p.curwaste \in Int /\ p.curend \in Int
        /\ p.curend - p.curwaste = (curend - curwaste) - d.size + size
    <3>1. Old(n).off \in Nat /\ Old(n).size \in Nat /\ p = Replacement(Old(n), size)
      BY <1>r, <1>t, <2>4
    <3>2. /\ p.curwaste \in Int /\ p.curend \in Int
          /\ p.curend - p.curwaste = (curend - curwaste) - Old(n).size + size
      BY <1>4, <2>1, <2>6, <3>1, ReplacementCounts
    <3> QED BY <2>4, <3>2
  <2>8. Len(dirs') = Len(dirs) /\ Len(dirs) \in Nat
    BY <1>2, <1>7 DEF IsReplaced
  <2>9. p.curend = 1 + Len(dirs) + p.curwaste + (SumOf(S) - d.size + e.size)
    <3> DEFINE total == SumOf(S)
               was == d.size
               blocks == Len(dirs)
    <3>1. /\ curend \in Int /\ curwaste \in Int /\ p.curend \in Int /\ p.curwaste \in Int
          /\ blocks \in Int /\ total \in Int /\ was \in Int /\ size \in Int
      BY <1>4, <2>1, <2>4, <2>5, <2>6, <2>7, <2>8
    <3>2. curend = 1 + blocks + curwaste + total
      BY <2>1
    <3>3. p.curend - p.curwaste = (curend - curwaste) - was + size
      BY <2>7
    <3>4. e.size = size
      BY <1>6
    <3> HIDE DEF total, was, blocks
    <3>5. p.curend = 1 + blocks + p.curwaste + (total - was + size)
      BY <3>1, <3>2, <3>3
    <3> QED BY <3>4, <3>5 DEF total, was, blocks
  <2> QED BY <1>1, <2>2, <2>5, <2>7, <2>8, <2>9 DEF Counted, SizesAreNat
<1>9. CountedOn(cells')
  BY <1>1, <1>5, SameCounted DEF UnitsCounted
<1> QED BY <1>1, <1>8, <1>9 DEF UnitsCounted

(* A new block takes a unit and holds no entry; a new entry is one more.    *)
LEMMA GrownEntries ==
  ASSUME NEW ds, ds \in Seq(Block), NEW off, NEW ds2, IsGrown(ds, ds2, off)
  PROVE  EntriesOf(ds2) = EntriesOf(ds)
<1>1. /\ Len(ds) \in Nat /\ Len(ds2) = Len(ds) + 1
      /\ \A b \in 1 .. Len(ds) : b \in 1 .. Len(ds2) /\ ds2[b].entries = ds[b].entries
  BY DEF IsGrown
<1>2. ds2[Len(ds) + 1].entries = <<>>
  BY DEF IsGrown, NewBlock
<1>3. 1 .. Len(ds2[Len(ds) + 1].entries) = {}
  BY <1>2
<1>4. \A b \in 1 .. Len(ds2) : b \in 1 .. Len(ds) \/ b = Len(ds) + 1
  BY <1>1
<1>5. ASSUME NEW x \in EntriesOf(ds2) PROVE x \in EntriesOf(ds)
  <2>b. PICK b \in 1 .. Len(ds2) : \E i \in 1 .. Len(ds2[b].entries) : x = ds2[b].entries[i]
    BY DEF EntriesOf
  <2>1. PICK i \in 1 .. Len(ds2[b].entries) : x = ds2[b].entries[i]
    BY <2>b
  <2>2. b \in 1 .. Len(ds)
    BY <1>3, <1>4
  <2>3. i \in 1 .. Len(ds[b].entries) /\ x = ds[b].entries[i] /\ x \in Stored
    BY <1>1, <2>1, <2>2 DEF EntriesOf
  <2> QED BY <2>2, <2>3 DEF EntriesOf
<1>6. ASSUME NEW x \in EntriesOf(ds) PROVE x \in EntriesOf(ds2)
  BY <1>1 DEF EntriesOf
<1> QED BY <1>5, <1>6

LEMMA AddedEntries ==
  ASSUME NEW ds, ds \in Seq(Block), Len(ds) >= 1, NEW e \in Stored, Unlisted(ds, e.name),
         NEW ds2, IsAdded(ds, ds2, e)
  PROVE  EntriesOf(ds2) = EntriesOf(ds) \cup {e} /\ e \notin EntriesOf(ds)
<1>1. ds2 \in Seq(Block) /\ Len(ds2) = Len(ds) /\ Len(ds) \in Nat
  BY DEF IsAdded
<1>2. ASSUME NEW x \in EntriesOf(ds) PROVE x \in EntriesOf(ds2)
  <2>b. PICK b \in 1 .. Len(ds) : \E i \in 1 .. Len(ds[b].entries) : x = ds[b].entries[i]
    BY DEF EntriesOf
  <2>1. PICK i \in 1 .. Len(ds[b].entries) : x = ds[b].entries[i]
    BY <2>b
  <2>2. b \in 1 .. Len(ds2) /\ i \in 1 .. Len(ds2[b].entries) /\ ds2[b].entries[i] = x
    BY <1>1, <2>1, AddedPlaces
  <2> QED BY <1>1, <2>2, EntryIn
<1>3. ASSUME NEW x \in EntriesOf(ds2) PROVE x \in EntriesOf(ds) \cup {e}
  <2>b. PICK b \in 1 .. Len(ds2) : \E i \in 1 .. Len(ds2[b].entries) : x = ds2[b].entries[i]
    BY DEF EntriesOf
  <2>1. PICK i \in 1 .. Len(ds2[b].entries) : x = ds2[b].entries[i]
    BY <2>b
  <2>2. b \in 1 .. Len(ds) /\ (i \in 1 .. Len(ds[b].entries) \/ x = e)
    BY <1>1, <2>1, AddedPlaces
  <2>3. CASE i \in 1 .. Len(ds[b].entries)
    <3>1. x = ds[b].entries[i]
      BY <1>1, <2>1, <2>2, <2>3, AddedPlaces
    <3> QED BY <2>2, <2>3, <3>1, EntryIn
  <2> QED BY <2>2, <2>3
<1>4. e \in EntriesOf(ds2)
  <2> DEFINE m == Len(ds)
             k == Len(ds[m].entries) + 1
  <2>1. m \in 1 .. Len(ds2) /\ Len(ds[m].entries) \in Nat /\ Len(ds2[m].entries) = k
        /\ ds2[m].entries[k] = e
    BY <1>1, AddedPlaces DEF IsAdded
  <2>2. k \in 1 .. Len(ds2[m].entries)
    BY <2>1
  <2> QED BY <1>1, <2>1, <2>2, EntryIn
<1>5. e \notin EntriesOf(ds)
  BY DEF Unlisted, EntriesOf
<1> QED BY <1>2, <1>3, <1>4, <1>5

LEMMA AddCounts ==
  ASSUME NEW n \in Names PROVE KeepsFiles /\ UnitsCounted /\ Add(n) => UnitsCounted'
<1> SUFFICES ASSUME KeepsFiles, UnitsCounted, Add(n) PROVE UnitsCounted'
  OBVIOUS
<1>p. PICK g : g = Grown
  OBVIOUS
<1>q. PICK off : off = DataEnd
  OBVIOUS
<1>r. PICK size : size = source[n].size
  OBVIOUS
<1>s. PICK e : e = Entry(n, off)
  OBVIOUS
<1>1. /\ source' = source /\ phase = "add" /\ phase' = "add" /\ Wanted(n) /\ hash[n] = NoRef
      /\ off + size <= MaxUnits /\ Copy(n, off, size) /\ dirs' = AddedTo(g, e)
      /\ curend' = off + size /\ curwaste' = curwaste
  BY <1>p, <1>q, <1>r, <1>s DEF Add, Wanted, AddedTo
<1>2. /\ source \in SourceFiles /\ CellTypes(cells) /\ Fresh(cells, source)
      /\ Fits(dirs, curend) /\ dirs \in Seq(Block) /\ Len(dirs) >= 1
  BY <1>1, WhileAdding
<1>c. curend \in Nat
  BY <1>2 DEF Fits
<1>3. off \in Nat /\ size \in Nat /\ off <= MaxUnits
  <2>1. off \in Nat BY <1>c, <1>2, <1>q, GrownCases
  <2>2. size \in Nat BY <1>2, <1>r DEF SourceFiles
  <2> QED BY <2>1, <2>2, <1>1, BigFileAssumption
<1>4. /\ Layout(g) /\ Fits(g, off) /\ Behind(cells, source, g)
      /\ MemFresh(cells, source, g) /\ Unlisted(g, n) /\ g \in Seq(Block) /\ Len(g) >= 1
  <2>1. DataEnd <= MaxUnits BY <1>3, <1>q
  <2> QED BY <2>1, <1>1, <1>p, <1>q, GrownReady
<1>5. SameDirs(cells, cells')
  <2>1. cells' = Copied(cells, source, n, off, size) BY <1>1, CopyIsCopied
  <2>2. SpaceFor(source, g, off, size) BY <1>3, <1>4, EndSpace
  <2> QED BY <1>2, <1>4, <2>1, <2>2, CopyInMemory
<1>6. e \in Stored /\ e.size = size /\ e.name = n
  BY <1>2, <1>3, <1>r, <1>s, EntryIs
<1>7. IsAdded(g, dirs', e)
  BY <1>1, <1>4, <1>6, AddedFacts
<1>8. Counted(g, off, curwaste)
  <2>1. Counted(dirs, curend, curwaste)
    BY <1>1 DEF UnitsCounted
  <2>2. CASE g = dirs /\ off = curend
    BY <2>1, <2>2
  <2>3. CASE g = GrownTo(dirs, curend) /\ off = curend + 1
    <3>1. IsGrown(dirs, g, curend)
      BY <1>2, <1>c, <2>3, GrownFacts
    <3>a. EntriesOf(g) = EntriesOf(dirs)
      BY <1>2, <3>1, GrownEntries
    <3>b. Len(g) = Len(dirs) + 1 /\ Len(dirs) \in Nat
      BY <1>2, <3>1 DEF IsGrown
    <3>2. EntriesOf(g) = EntriesOf(dirs) /\ Len(g) = Len(dirs) + 1 /\ Len(dirs) \in Nat
      BY <3>a, <3>b
    <3>3. SumOf(EntriesOf(dirs)) \in Nat
      BY <2>1, EntriesSized, SumByAny DEF Counted
    <3> QED BY <2>1, <2>3, <3>2, <3>3 DEF Counted
  <2> QED BY <1>2, <1>c, <1>p, <1>q, <2>2, <2>3, GrownCases
<1>9. Counted(dirs', curend', curwaste')
  <2> DEFINE S == EntriesOf(g)
  <2>1. IsFiniteSet(S) /\ curwaste \in Int /\ off = 1 + Len(g) + curwaste + SumOf(S)
    BY <1>8 DEF Counted
  <2>2. EntriesOf(dirs') = S \cup {e} /\ e \notin S
    BY <1>4, <1>6, <1>7, AddedEntries
  <2>3. SizesAreNat(S)
    BY <2>1, EntriesSized
  <2> HIDE DEF S
  <2>4. SizesAreNat(S \cup {e}) /\ SumOf(S \cup {e}) = SumOf(S) + e.size /\ SumOf(S) \in Nat
    BY <1>3, <1>6, <2>2, <2>3, SumChanges
  <2>5. Len(dirs') = Len(g) /\ Len(g) \in Nat
    BY <1>4, <1>7 DEF IsAdded
  <2>6. off + size = 1 + Len(g) + curwaste + (SumOf(S) + e.size)
    BY <1>3, <1>6, <2>1, <2>4, <2>5
  <2> QED BY <1>1, <2>1, <2>2, <2>4, <2>5, <2>6 DEF Counted, SizesAreNat
<1>10. CountedOn(cells')
  BY <1>1, <1>5, SameCounted DEF UnitsCounted
<1> QED BY <1>1, <1>9, <1>10 DEF UnitsCounted

(* Load takes the end and the waste from the root header.                  *)
LEMMA LoadCounts == KeepsFiles /\ UnitsCounted /\ Load => UnitsCounted'
<1> SUFFICES ASSUME KeepsFiles, UnitsCounted, Load PROVE UnitsCounted'
  OBVIOUS
<1>1. /\ cells' = cells /\ phase = "out" /\ cells[0] # Blank
      /\ \/ phase' = "dead"
         \/ /\ phase' = "add" /\ dirs' = LoadedDirs
            /\ curend' = cells[0].curend /\ curwaste' = cells[0].curwaste
  BY DEF Load
<1>2. CountedOn(cells)
  BY <1>1 DEF UnitsCounted
<1>3. PICK ds : DirOf(cells, ds) /\ Counted(ds, cells[0].curend, cells[0].curwaste)
  BY <1>2 DEF CountedOn
<1>4. LoadedDirs = ds
  BY <1>2, <1>3, DirOfLoads, OnTheDisk DEF CountedOn
<1> QED BY <1>1, <1>2, <1>3, <1>4 DEF UnitsCounted

(* A new bigfile has a root header and a block.                            *)
LEMMA MakeDirCounts == KeepsFiles /\ KeepsFiles' /\ UnitsCounted /\ MakeDir => UnitsCounted'
<1> SUFFICES ASSUME KeepsFiles, KeepsFiles', UnitsCounted, MakeDir PROVE UnitsCounted'
  OBVIOUS
<1> DEFINE d == [offset |-> FirstDir, next |-> 0, entries |-> <<>>, changed |-> FALSE]
<1>1. /\ phase = "make" /\ phase' = "add" /\ curend' = curend /\ curwaste' = curwaste
      /\ cells' = [cells EXCEPT ![FirstDir] =
                     [kind |-> "dir", body |-> <<>>, num |-> 0, next |-> 0]]
      /\ dirs' = <<d>>
  BY DEF MakeDir, Write
<1>2. /\ cells = [u \in Units |-> cells[u]] /\ curend = FirstDir + 1
      /\ cells[0] = Root(FirstDir + 1, 0) /\ curwaste = 0
  BY <1>1 DEF KeepsFiles, TypeInv, PhaseInv, CellTypes, UnitsCounted
<1>3. /\ cells'[0].kind = "root" /\ cells'[0].curend = FirstDir + 1 /\ cells'[0].curwaste = 0
  <2>1. cells'[0] = cells[0]
    BY <1>1, <1>2, UnitOne DEF FirstDir
  <2> QED BY <1>2, <2>1 DEF Root
<1>4. RunInv'
  BY <1>1 DEF KeepsFiles, PhaseInv
<1>5. Layout(dirs') /\ Behind(cells', source', dirs') /\ Witnessed(cells', dirs', todo')
  BY <1>4 DEF RunInv
<1>6. Len(dirs') = 1 /\ dirs'[1] = d /\ ~d.changed /\ d.entries = <<>>
  BY <1>1
<1>7. \A b \in 1 .. Len(dirs') : b = 1 /\ dirs'[b] = d
  BY <1>6
<1>8. AllWritten(dirs')
  BY <1>6, <1>7 DEF AllWritten
<1>9. DirOf(cells', dirs')
  BY <1>3, <1>5, <1>8, AllWrittenTidy
<1>10. EntriesOf(dirs') = {}
  <2>1. 1 .. Len(d.entries) = {}
    BY <1>6
  <2> QED BY <1>7, <2>1 DEF EntriesOf
<1>11. SumOf({}) = 0 /\ IsFiniteSet({})
  BY FS_EmptySet, SumByChoice
<1>12. Counted(dirs', FirstDir + 1, 0)
  BY <1>6, <1>10, <1>11 DEF Counted, FirstDir
<1>13. CountedOn(cells')
  BY <1>3, <1>9, <1>12 DEF CountedOn
<1> QED BY <1>1, <1>2, <1>12, <1>13 DEF UnitsCounted

(* Writing the directory leaves the entries in memory as they are.         *)
LEMMA WriteHeaderCounts == KeepsFiles /\ UnitsCounted /\ WriteHeader => UnitsCounted'
<1> SUFFICES ASSUME KeepsFiles, UnitsCounted, WriteHeader PROVE UnitsCounted'
  OBVIOUS
<1>1. /\ phase = "header" /\ phase' = "update" /\ curend' = curend /\ curwaste' = curwaste
      /\ dirs' = [dirs EXCEPT ![FirstChanged].changed = FALSE]
  BY DEF WriteHeader
<1>2. RunInv /\ Counted(dirs, curend, curwaste)
  BY <1>1 DEF KeepsFiles, PhaseInv, UnitsCounted
<1>3. dirs \in Seq(Block) /\ FirstChanged \in 1 .. Len(dirs)
  BY <1>1, <1>2, TheFirstChanged DEF RunInv, Layout, Linked, HalfWritten
<1>4. SameBlocks(dirs, dirs')
  BY <1>1, <1>3, CleanedFacts DEF IsCleaned
<1>5. EntriesOf(dirs') = EntriesOf(dirs) /\ Len(dirs') = Len(dirs)
  BY <1>4 DEF EntriesOf, SameBlocks
<1>6. Counted(dirs', curend', curwaste')
  BY <1>1, <1>2, <1>5 DEF Counted
<1> QED BY <1>1, <1>6 DEF UnitsCounted

LEMMA WriteRootCounts == KeepsFiles /\ UnitsCounted /\ WriteRoot => UnitsCounted'
<1> SUFFICES ASSUME KeepsFiles, UnitsCounted, WriteRoot PROVE UnitsCounted'
  OBVIOUS
<1>1. /\ source' = source /\ phase = "update" /\ phase' = "out"
      /\ IsPut(cells, cells', 0, Root(curend, curwaste)) /\ Changed = {}
  BY DEF WriteRoot, Write, NoMemory, IsPut
<1>2. TypeInv /\ Fresh(cells, source) /\ RunInv /\ Counted(dirs, curend, curwaste)
  BY <1>1 DEF KeepsFiles, PhaseInv, UnitsCounted
<1>3. /\ CellTypes(cells) /\ cells[0].kind = "root" /\ Layout(dirs) /\ Behind(cells, source, dirs)
      /\ Fits(dirs, curend) /\ MemFresh(cells, source, dirs) /\ Witnessed(cells, dirs, todo)
  BY <1>2 DEF TypeInv, RunInv
<1>4. AllWritten(dirs)
  BY <1>1 DEF Changed, AllWritten
<1>5. DirOf(cells, dirs)
  BY <1>3, <1>4, AllWrittenTidy
<1>6. DirOf(cells', dirs) /\ cells'[0].kind = "root"
  BY <1>1, <1>2, <1>3, <1>5, RootWritten
<1>7. cells'[0] = Root(curend, curwaste)
  <2>1. cells = [u \in Units |-> cells[u]]
    BY <1>3 DEF CellTypes
  <2> QED BY <1>1, <2>1, UnitOne DEF IsPut
<1>8. cells'[0].curend = curend /\ cells'[0].curwaste = curwaste
  BY <1>7 DEF Root
<1>9. CountedOn(cells')
  BY <1>2, <1>6, <1>8 DEF CountedOn
<1> QED BY <1>1, <1>9 DEF UnitsCounted

LEMMA StepCounts ==
  ASSUME Crashes = FALSE
  PROVE  KeepsFiles /\ UnitsCounted /\ Step => UnitsCounted'
<1> SUFFICES ASSUME KeepsFiles, UnitsCounted, Step PROVE UnitsCounted'
  OBVIOUS
<1>1. CASE LoadEmpty
  BY <1>1 DEF LoadEmpty, UnitsCounted
<1>2. CASE Load BY <1>2, LoadCounts
<1>3. CASE MakeRoot
  <2>1. /\ phase' = "make" /\ curwaste' = 0
        /\ cells' = [cells EXCEPT ![0] = Root(FirstDir + 1, 0)]
    BY <1>3 DEF MakeRoot, Write
  <2>2. cells = [u \in Units |-> cells[u]]
    BY DEF KeepsFiles, TypeInv, CellTypes
  <2>3. cells'[0] = Root(FirstDir + 1, 0)
    BY <2>1, <2>2, UnitOne
  <2> QED BY <2>1, <2>3 DEF UnitsCounted
<1>4. CASE MakeDir BY <1>4, StepKeeps, MakeDirCounts
<1>5. ASSUME NEW n \in Names, Skip(n) PROVE UnitsCounted'
  BY <1>5 DEF Skip, UnitsCounted, memory
<1>6. ASSUME NEW n \in Names, Replace(n) PROVE UnitsCounted' BY <1>6, ReplaceCounts
<1>7. ASSUME NEW n \in Names, Add(n) PROVE UnitsCounted' BY <1>7, AddCounts
<1>8. CASE StartUpdate
  BY <1>8 DEF StartUpdate, NoMemory, KeepsFiles, PhaseInv, UnitsCounted, memory
<1>9. CASE WriteBody
  BY <1>9 DEF WriteBody, UnitsCounted, memory
<1>10. CASE WriteHeader BY <1>10, WriteHeaderCounts
<1>11. CASE WriteRoot BY <1>11, WriteRootCounts
<1>12. ASSUME NEW n \in Names, CrashInCopy(n) PROVE UnitsCounted'
  BY <1>12 DEF CrashInCopy
<1>13. ASSUME NEW n \in Names, Edit(n) PROVE UnitsCounted'
  BY <1>13 DEF Edit, UnitsCounted
<1> QED
  BY <1>1, <1>2, <1>3, <1>4, <1>5, <1>6, <1>7, <1>8, <1>9, <1>10, <1>11, <1>12, <1>13 DEF Step

(* What the disk's directory is and what WasteIsGaps says of it.           *)
LEMMA CountedIsGaps ==
  ASSUME CountedOn(cells)
  PROVE  cells[0].curend = 1 + Len(DiskBlocks) + cells[0].curwaste + SumOf(DiskEntries)
<1>1. PICK ds : DirOf(cells, ds) /\ Counted(ds, cells[0].curend, cells[0].curwaste)
  BY DEF CountedOn
<1>2. /\ ds \in Seq(Block) /\ DiskBlocks = Offsets(ds)
  BY <1>1, DirOfLoads, OnTheDisk DEF CountedOn, DirOf, Layout, Linked
<1>3. Len(DiskBlocks) = Len(ds)
  BY <1>2 DEF Offsets
<1>4. ASSUME NEW b \in 1 .. Len(ds) PROVE Visible(DiskBlocks[b]) = ds[b].entries
  BY <1>1, <1>2, OnTheDisk DEF Offsets, DirOf, Written
<1>5. DiskEntries = EntriesOf(ds)
  <2>1. ASSUME NEW x \in DiskEntries PROVE x \in EntriesOf(ds)
    <3>1. PICK b \in 1 .. Len(ds) : \E i \in 1 .. Len(ds[b].entries) : x = ds[b].entries[i]
      BY <1>3, <1>4 DEF DiskEntries
    <3> QED BY <1>2, <3>1, EntryIn
  <2>2. ASSUME NEW x \in EntriesOf(ds) PROVE x \in DiskEntries
    <3>b. PICK b \in 1 .. Len(ds) : \E i \in 1 .. Len(ds[b].entries) : x = ds[b].entries[i]
      BY DEF EntriesOf
    <3>1. PICK i \in 1 .. Len(ds[b].entries) : x = ds[b].entries[i]
      BY <3>b
    <3>2. x = Visible(DiskBlocks[b])[i] /\ i \in 1 .. Len(Visible(DiskBlocks[b]))
      BY <1>4, <3>1
    <3> QED BY <1>3, <3>2 DEF DiskEntries
  <2> QED BY <2>1, <2>2
<1> QED BY <1>1, <1>3, <1>5 DEF Counted

GapsInv == torn = FALSE /\ failures \in Nat /\ (failures = 0 => KeepsFiles /\ UnitsCounted)

(* The waste of a bigfile is the sum of the gaps between its files, when no *)
(* update of it was interrupted, and until a write fails; files of size     *)
(* zero count as any other.                                                *)
THEOREM WasteIsGapsHolds ==
  ASSUME Crashes = FALSE
  PROVE  Spec => [](failures = 0 => WasteIsGaps)
<1>1. Init => GapsInv
  <2> SUFFICES ASSUME Init PROVE GapsInv
    OBVIOUS
  <2>1. failures = 0 /\ torn = FALSE /\ KeepsFiles
    BY InitKeeps DEF Init, BigFileInv
  <2>2. phase = "out" /\ cells[0] = Blank
    BY UnitOne DEF Init
  <2> QED BY <2>1, <2>2 DEF GapsInv, UnitsCounted
<1>2. GapsInv /\ [Next]_vars => GapsInv'
  <2> SUFFICES ASSUME GapsInv, [Next]_vars PROVE GapsInv'
    OBVIOUS
  <2>1. torn = FALSE /\ failures \in Nat /\ (failures = 0 => KeepsFiles /\ UnitsCounted)
    BY DEF GapsInv
  <2>2. CASE Failure /\ UNCHANGED torn
    <3>1. failures' = failures + 1 /\ torn' = FALSE
      BY <2>1, <2>2 DEF Failure
    <3>2. failures' \in Nat /\ failures' # 0
      BY <2>1, <3>1
    <3> QED BY <3>1, <3>2 DEF GapsInv
  <2>3. CASE Crash
    BY <2>3 DEF Crash
  <2>4. CASE Step /\ UNCHANGED <<failures, torn>>
    BY <2>1, <2>4, StepKeeps, StepCounts DEF GapsInv
  <2>5. CASE UNCHANGED vars
    <3>1. /\ failures' = failures /\ torn' = FALSE /\ source' = source /\ cells' = cells
          /\ phase' = phase /\ dirs' = dirs /\ curend' = curend /\ curwaste' = curwaste
      BY <2>1, <2>5 DEF vars, memory
    <3>2. BigFileInv => BigFileInv'
      BY <2>5, NextKeepsInv
    <3>3. failures = 0 => KeepsFiles' /\ UnitsCounted'
      BY <2>1, <3>1, <3>2 DEF BigFileInv, UnitsCounted
    <3> QED BY <2>1, <3>1, <3>3 DEF GapsInv
  <2> QED BY <2>2, <2>3, <2>4, <2>5 DEF Next
<1>3. GapsInv => (failures = 0 => WasteIsGaps)
  <2> SUFFICES ASSUME GapsInv, failures = 0, phase = "out", cells[0] # Blank
               PROVE  cells[0].curend = 1 + Len(DiskBlocks) + cells[0].curwaste
                                          + SumOf(DiskEntries)
    BY DEF WasteIsGaps, SumOf
  <2>1. CountedOn(cells)
    BY DEF GapsInv, UnitsCounted
  <2> QED BY <2>1, CountedIsGaps
<1> QED BY <1>1, <1>2, <1>3, PTL DEF Spec
=============================================================================
