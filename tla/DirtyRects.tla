----------------------------- MODULE DirtyRects -----------------------------
(***************************************************************************)
(* The dirty rectangles of the screen (kgui.cpp): kGUI::Dirty keeps a list  *)
(* of at most MAXDIRTY areas whose pixels are out of date, kGUI::Draw takes *)
(* the list, repaints each area and returns the box around all of them,     *)
(* which the platform layer copies to the window.                          *)
(*                                                                         *)
(* A new area is split around an entry it overlaps and the pieces are added *)
(* recursively, while the caller still holds a pointer into the array that  *)
(* the recursive calls change.                                             *)
(***************************************************************************)
EXTENDS Integers, Sequences, FiniteSets, FiniteSetsExt

CONSTANTS
    Width, Height,  \* of the screen surface
    MaxDirty,       \* MAXDIRTY
    DrawChanges,    \* the areas objects invalidate while they are drawn
    MaxDuring,      \* bound: entries made while a frame is drawn
    CopiesUp        \* memcpy of an overlapping range moves as memmove does

ASSUME SurfaceAssumption == Width \in Nat \ {0} /\ Height \in Nat \ {0}
ASSUME MaxDirtyAssumption == MaxDirty \in Nat \ {0}
ASSUME CopiesUpAssumption == CopiesUp \in BOOLEAN

VARIABLES
    m_dirtycorners, \* the first m_dirtyindex entries of the array
    dirtycorners,   \* Draw's copy: the areas it has not drawn yet
    drawn,          \* the corners Draw returns: the box around what it drew
    drawing,        \* Draw runs, or its result is not yet in the window
    asked,          \* history: pixels asked for since the list was emptied
    unpainted,      \* history: pixels whose object changed since their painting
    unshown         \* history: pixels painted and not copied to the window

screenvars == <<m_dirtycorners, dirtycorners, drawn, drawing, asked, unpainted, unshown>>

Corner(l, t, r, b) == [lx |-> l, ty |-> t, rx |-> r, by |-> b]
NoArea == Corner(0, 0, 0, 0)
Whole == Corner(0, 0, Width, Height)

\* The areas that pass the assertion at the top of Dirty and its first test.
ValidArea(c) == c.lx < c.rx /\ c.ty < c.by
Corners == [lx : 0..Width, ty : 0..Height, rx : 0..Width, by : 0..Height]
Areas == {c \in Corners : ValidArea(c)}

ASSUME DrawChangesAssumption == DrawChanges \subseteq Areas /\ MaxDuring \in Nat

Pixels(c) == (c.lx .. (c.rx - 1)) \X (c.ty .. (c.by - 1))
Covered(list) == UNION {Pixels(list[i]) : i \in 1..Len(list)}

Inside(c1, c2) ==
    /\ c1.lx >= c2.lx /\ c1.rx <= c2.rx
    /\ c1.ty >= c2.ty /\ c1.by <= c2.by

Overlap(c1, c2) ==
    /\ c1.lx < c2.rx /\ c2.lx < c1.rx
    /\ c1.ty < c2.by /\ c2.ty < c1.by

Larger(x, y) == IF x > y THEN x ELSE y
Smaller(x, y) == IF x < y THEN x ELSE y

\* The smallest area around two.
Around(c1, c2) ==
    Corner(Smaller(c1.lx, c2.lx), Smaller(c1.ty, c2.ty),
           Larger(c1.rx, c2.rx), Larger(c1.by, c2.by))
-----------------------------------------------------------------------------
(* Dirty works on the whole array: an index of a caller may lie beyond the   *)
(* count a recursive call left, so a "table" is the array with its count.    *)
(* The recursion is a function and not an operator, for the proofs.          *)

Tables == [a : [1..MaxDirty -> Corners], n : 0..MaxDirty]

\* memcpy(dc, dc+1, num): the ranges overlap, which C leaves undefined.
MovedDown(a, d, n) ==
    [k \in 1..MaxDirty |-> IF k < d \/ k >= n THEN a[k]
                           ELSE IF CopiesUp THEN a[k + 1] ELSE a[n]]

\* Removes the entries that lie inside c: the array, the count and the index
\* of the loop when it has looked at k entries.
Purged(t, c) ==
    LET Loop[k \in 0..t.n] ==
            IF k = 0 THEN [a |-> t.a, n |-> t.n, d |-> 1]
            ELSE LET s == Loop[k - 1]
                 IN IF Inside(s.a[s.d], c)
                    THEN [s EXCEPT !.a = MovedDown(s.a, s.d, s.n), !.n = s.n - 1]
                    ELSE [s EXCEPT !.d = s.d + 1]
    IN Loop[t.n]

WithoutInside(t, c) == [a |-> Purged(t, c).a, n |-> Purged(t, c).n]

BugAdjacent(c, e) ==    \* the other sides are not compared
    \/ c.lx = e.lx /\ (c.by = e.ty \/ c.ty = e.by)
    \/ c.ty = e.ty /\ (c.lx = e.rx \/ c.rx = e.lx)

\* Two areas with a whole side in common.
Adjacent(c, e) ==
    \/ c.lx = e.lx /\ c.rx = e.rx /\ (c.by = e.ty \/ c.ty = e.by)
    \/ c.ty = e.ty /\ c.by = e.by /\ (c.lx = e.rx \/ c.rx = e.lx)

BugAddedFull(t, c) ==   \* a full array takes nothing more
    LET next == {d \in 1..t.n : Adjacent(c, t.a[d])}
    IN IF next # {} THEN [t EXCEPT !.a[Min(next)] = Around(c, @)]
       ELSE IF t.n = MaxDirty THEN t
            ELSE [a |-> [t.a EXCEPT ![t.n + 1] = c], n |-> t.n + 1]

BugAddedCount(t, c) ==  \* the count is not reset with the whole surface
    LET next == {d \in 1..t.n : Adjacent(c, t.a[d])}
    IN IF next # {} THEN [t EXCEPT !.a[Min(next)] = Around(c, @)]
       ELSE IF t.n = MaxDirty THEN [t EXCEPT !.a[1] = Whole]
            ELSE [a |-> [t.a EXCEPT ![t.n + 1] = c], n |-> t.n + 1]

\* c overlaps nothing: it widens the first entry it is adjacent to, becomes an
\* entry, or makes the whole surface dirty when the array is full.
Added(t, c) ==
    LET next == {d \in 1..t.n : Adjacent(c, t.a[d])}
    IN IF next # {}
       THEN [t EXCEPT !.a[Min(next)] = Around(c, @)]
       ELSE IF t.n = MaxDirty
            THEN [a |-> [t.a EXCEPT ![1] = Whole], n |-> 1]
            ELSE [a |-> [t.a EXCEPT ![t.n + 1] = c], n |-> t.n + 1]

\* The pieces of c around entry d, each computed from what the entry holds
\* after the piece before it has been added.
AbovePiece(c, e) == [c EXCEPT !.by = e.ty]
BelowPiece(c, e) == [c EXCEPT !.ty = e.by]
LeftPiece(c, e)  == Corner(c.lx, Larger(c.ty, e.ty), e.lx, Smaller(c.by, e.by))
RightPiece(c, e) == Corner(e.rx, Larger(c.ty, e.ty), c.rx, Smaller(c.by, e.by))

WithAbove(add, t, c, d) ==
    IF c.ty < t.a[d].ty THEN add[AbovePiece(c, t.a[d])][t] ELSE t
WithBelow(add, t, c, d) ==
    IF c.by > t.a[d].by THEN add[BelowPiece(c, t.a[d])][t] ELSE t
WithLeft(add, t, c, d) ==
    IF c.lx < t.a[d].lx THEN add[LeftPiece(c, t.a[d])][t] ELSE t
WithRight(add, t, c, d) ==
    IF c.rx > t.a[d].rx THEN add[RightPiece(c, t.a[d])][t] ELSE t

\* All of Dirty; add is what a recursive call does.
DirtyBody(add, t, c) ==
    IF ~ValidArea(c) \/ \E d \in 1..t.n : Inside(c, t.a[d])
    THEN t
    ELSE LET kept == WithoutInside(t, c)
             hits == {d \in 1..kept.n : Overlap(c, kept.a[d])}
         IN IF hits = {}
            THEN Added(kept, c)
            ELSE LET d  == Min(hits)
                     t1 == WithAbove(add, kept, c, d)
                     t2 == WithBelow(add, t1, c, d)
                     t3 == WithLeft(add, t2, c, d)
                 IN WithRight(add, t3, c, d)

Dirtied[c \in Corners] == [t \in Tables |-> DirtyBody(Dirtied, t, c)]

\* The entries after a call. What lies behind them is written before it is
\* read again, so the list need not keep it.
Dirty(list, c) ==
    LET array == [k \in 1..MaxDirty |-> IF k <= Len(list) THEN list[k] ELSE NoArea]
        t == Dirtied[c][[a |-> array, n |-> Len(list)]]
    IN [k \in 1..t.n |-> t.a[k]]
-----------------------------------------------------------------------------
ScreenInit ==
    /\ m_dirtycorners = <<Whole>>
    /\ dirtycorners = <<>> /\ drawn = NoArea /\ drawing = FALSE
    /\ asked = Pixels(Whole) /\ unpainted = Pixels(Whole) /\ unshown = {}

Invalidate(c) ==
    /\ m_dirtycorners' = Dirty(m_dirtycorners, c)
    /\ asked' = asked \cup Pixels(c)
    /\ unpainted' = unpainted \cup Pixels(c)
    /\ UNCHANGED <<dirtycorners, drawn, drawing, unshown>>

\* An object changes and marks its area, between frames ...
Change(c) == ~drawing /\ Invalidate(c)

\* ... or in a callback of the frame that is being drawn.
ChangeDuringDraw(c) ==
    /\ drawing /\ dirtycorners # <<>>
    /\ Len(m_dirtycorners) < MaxDuring
    /\ Invalidate(c)

\* Draw has the mutex and takes the list. Without the mutex it does nothing.
StartDraw ==
    /\ ~drawing
    /\ drawing' = TRUE
    /\ dirtycorners' = m_dirtycorners
    /\ m_dirtycorners' = <<>>
    /\ drawn' = NoArea
    /\ asked' = {}
    /\ UNCHANGED <<unpainted, unshown>>

BugDrawArea ==  \* the box is the last area's
    /\ drawing /\ dirtycorners # <<>>
    /\ LET dc == Head(dirtycorners)
       IN /\ drawn' = dc
          /\ unpainted' = unpainted \ Pixels(dc)
          /\ unshown' = unshown \cup Pixels(dc)
    /\ dirtycorners' = Tail(dirtycorners)
    /\ UNCHANGED <<m_dirtycorners, drawing, asked>>

\* The loop's body: the objects paint one area.
DrawArea ==
    /\ drawing /\ dirtycorners # <<>>
    /\ LET dc == Head(dirtycorners)
       IN /\ drawn' = IF ValidArea(drawn) THEN Around(drawn, dc) ELSE dc
          /\ unpainted' = unpainted \ Pixels(dc)
          /\ unshown' = unshown \cup Pixels(dc)
    /\ dirtycorners' = Tail(dirtycorners)
    /\ UNCHANGED <<m_dirtycorners, drawing, asked>>

\* The platform copies the returned box, when it is not empty, to the window.
ShowDrawn ==
    /\ drawing /\ dirtycorners = <<>>
    /\ drawing' = FALSE
    /\ unshown' = unshown \ Pixels(drawn)
    /\ drawn' = NoArea
    /\ UNCHANGED <<m_dirtycorners, dirtycorners, asked, unpainted>>

ScreenNext ==
    \/ \E c \in Areas : Change(c)
    \/ \E c \in DrawChanges : ChangeDuringDraw(c)
    \/ StartDraw \/ DrawArea \/ ShowDrawn

ScreenSpec == ScreenInit /\ [][ScreenNext]_screenvars
-----------------------------------------------------------------------------
\* Nothing that changed is forgotten: a pixel that is out of date is in the list
\* or among the areas the frame being drawn still has to paint, however the
\* areas were split, joined, removed or replaced by the whole surface.
ChangedIsDirty == unpainted \subseteq Covered(m_dirtycorners) \cup Covered(dirtycorners)

\* No pixel is painted twice in a frame: the pieces an area is split into are
\* disjoint from every entry, also from those the recursive calls made.
Disjoint ==
    \A i, j \in 1..Len(m_dirtycorners) :
        i # j => Pixels(m_dirtycorners[i]) \cap Pixels(m_dirtycorners[j]) = {}

\* Only what was asked for is painted, unless the array was full: joining and
\* splitting never adds a pixel.
NothingExtra == Covered(m_dirtycorners) \subseteq asked \/ m_dirtycorners = <<Whole>>

\* What a frame painted reaches the window: the returned box contains it.
PaintedIsShown == IF drawing THEN unshown \subseteq Pixels(drawn) ELSE unshown = {}
=============================================================================
