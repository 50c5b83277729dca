-------------------------- MODULE BrowseTabsProofs --------------------------
(***************************************************************************)
(* The properties of BrowseTabs, for any number of tabs, pages, URLs and    *)
(* downloads.                                                              *)
(*                                                                         *)
(* Core is what the tabs, the downloads and the requesters have to do with  *)
(* each other.  The handlers change it in few ways: they stop the loads of  *)
(* some tabs and free what a requester kept (FewerKeepCore), start a load   *)
(* (StartKeepsCore), or take a finished download off the list               *)
(* (UpdateKeepsCore).                                                      *)
(***************************************************************************)
EXTENDS BrowseTabs, SequenceTheorems, TLAPS

A == ToSet(m_dlactive)
W == ToSet(windows)

\* A download that is somebody's can be told from a free one, and it was
\* started for an entry, which its tab still has.
InUse == \A d \in Dls : dls[d] # FreeDl => dls[d].state # "free"

EntriesShown ==
    \A d \in ToSet(m_dlactive) : dls[d].tab # NoTab => m_histindex[dls[d].tab] > 0

Core ==
    /\ LoadsMatchTabs
    /\ LoadIsForCurrentEntry
    /\ OneOwnerEach
    /\ RequesterTabExists
    /\ InUse
    /\ EntriesShown

TabsOnce == IsInjective(m_tabrecords)
TimersOfTabs == refreshing \subseteq Open

Inv == TypeOK /\ Core /\ TabsOnce /\ TimersOfTabs

-----------------------------------------------------------------------------
(* Sequences as sets.                                                      *)

LEMMA AppendSet ==
    ASSUME NEW S, NEW s \in Seq(S), NEW e \in S
    PROVE  /\ Append(s, e) \in Seq(S)
           /\ ToSet(Append(s, e)) = ToSet(s) \cup {e}
           /\ IsInjective(s) /\ e \notin ToSet(s) => IsInjective(Append(s, e))
<1>1. /\ Append(s, e) \in Seq(S) /\ Len(Append(s, e)) = Len(s) + 1 /\ Len(s) \in Nat
      /\ \A i \in 1..Len(s) : Append(s, e)[i] = s[i]
      /\ Append(s, e)[Len(s) + 1] = e
  OBVIOUS
<1>2. DOMAIN s = 1..Len(s) /\ DOMAIN Append(s, e) = 1..(Len(s) + 1)
  BY <1>1
<1>3. \A i \in 1..(Len(s) + 1) : i \in 1..Len(s) \/ i = Len(s) + 1
  BY <1>1
<1>4. ToSet(Append(s, e)) = ToSet(s) \cup {e}
  BY <1>1, <1>2, <1>3 DEF ToSet
<1>5. IsInjective(s) /\ e \notin ToSet(s) => IsInjective(Append(s, e))
  BY <1>1, <1>2, <1>3 DEF ToSet, IsInjective
<1> QED
  BY <1>1, <1>4, <1>5

LEMMA RemoveSet ==
    ASSUME NEW S, NEW s \in Seq(S), NEW p \in 1..Len(s)
    PROVE  /\ RemoveAt(s, p) \in Seq(S)
           /\ Len(RemoveAt(s, p)) = Len(s) - 1
           /\ IsInjective(s) => /\ IsInjective(RemoveAt(s, p))
                                /\ ToSet(RemoveAt(s, p)) = ToSet(s) \ {s[p]}
<1> DEFINE front == SubSeq(s, 1, p - 1)
           back == SubSeq(s, p + 1, Len(s))
           r == RemoveAt(s, p)
<1>1. Len(s) \in Nat /\ p \in Nat /\ p >= 1 /\ p <= Len(s)
  OBVIOUS
<1>2. /\ front \in Seq(S) /\ Len(front) = p - 1
      /\ \A j \in 1..(p - 1) : front[j] = s[j]
  BY <1>1
<1>3. /\ back \in Seq(S) /\ Len(back) = Len(s) - p
      /\ \A j \in 1..(Len(s) - p) : back[j] = s[j + p]
  BY <1>1
<1>4. r = front \o back
  BY DEF RemoveAt
<1> HIDE DEF front, back, r
<1>5. /\ r \in Seq(S) /\ Len(r) = Len(s) - 1
      /\ \A j \in 1..(Len(s) - 1) : r[j] = IF j < p THEN s[j] ELSE s[j + 1]
  <2>1. /\ r \in Seq(S) /\ Len(r) = (p - 1) + (Len(s) - p)
        /\ \A j \in 1..((p - 1) + (Len(s) - p)) :
              r[j] = IF j <= p - 1 THEN front[j] ELSE back[j - (p - 1)]
    <3>1. /\ front \o back \in Seq(S) /\ Len(front \o back) = Len(front) + Len(back)
          /\ \A j \in 1..(Len(front) + Len(back)) :
                (front \o back)[j] = IF j <= Len(front) THEN front[j]
                                     ELSE back[j - Len(front)]
      BY <1>2, <1>3, ConcatProperties
    <3> QED
      BY <1>2, <1>3, <1>4, <3>1
  <2> QED
    BY <1>1, <1>2, <1>3, <2>1, SMTT(30)
<1>6. DOMAIN s = 1..Len(s) /\ DOMAIN r = 1..(Len(s) - 1)
  BY <1>1, <1>5
<1>7. ASSUME IsInjective(s) PROVE IsInjective(r) /\ ToSet(r) = ToSet(s) \ {s[p]}
  <2>1. \A i, j \in 1..Len(s) : s[i] = s[j] => i = j
    BY <1>6, <1>7 DEF IsInjective
  <2>2. \A i, j \in 1..(Len(s) - 1) : r[i] = r[j] => i = j
    <3>1. \A i \in 1..(Len(s) - 1) :
            \/ i < p /\ i \in 1..Len(s) /\ r[i] = s[i]
            \/ i >= p /\ i + 1 \in 1..Len(s) /\ r[i] = s[i + 1]
      BY <1>1, <1>5
    <3> QED
      BY <1>1, <2>1, <3>1
  <2>3. ASSUME NEW j \in 1..(Len(s) - 1) PROVE r[j] \in ToSet(s) \ {s[p]}
    BY <1>1, <1>5, <1>6, <2>1, SMTT(30) DEF ToSet
  <2>4. ASSUME NEW j \in 1..Len(s), s[j] # s[p] PROVE s[j] \in ToSet(r)
    <3>1. CASE j < p
      <4>1. j \in 1..(Len(s) - 1) /\ r[j] = s[j]
        BY <1>1, <1>5, <3>1
      <4> QED
        BY <1>6, <4>1 DEF ToSet
    <3>2. CASE j > p
      <4>1. j - 1 \in 1..(Len(s) - 1) /\ r[j - 1] = s[j]
        BY <1>1, <1>5, <3>2
      <4> QED
        BY <1>6, <4>1 DEF ToSet
    <3>3. j # p
      BY <2>4
    <3> QED
      BY <1>1, <3>1, <3>2, <3>3
  <2>5. IsInjective(r)
    BY <1>6, <2>2 DEF IsInjective
  <2>6. ToSet(r) = ToSet(s) \ {s[p]}
    BY <1>6, <2>3, <2>4 DEF ToSet
  <2> QED
    BY <2>5, <2>6
<1> QED
  BY <1>5, <1>7 DEF r

LEMMA FrontSet ==
    ASSUME NEW S, NEW s \in Seq(S), s # <<>>
    PROVE  /\ Front(s) \in Seq(S)
           /\ Last(s) \in ToSet(s)
           /\ IsInjective(s) => /\ IsInjective(Front(s))
                                /\ ToSet(Front(s)) = ToSet(s) \ {Last(s)}
<1>1. Len(s) \in Nat \ {0} /\ DOMAIN s = 1..Len(s)
  BY EmptySeq, LenProperties
<1>2. PICK n \in Nat : Len(s) = n + 1
  <2>1. Len(s) - 1 \in Nat /\ Len(s) = (Len(s) - 1) + 1
    BY <1>1
  <2> QED
    BY <2>1
<1>3. Last(s) = s[n + 1] /\ Front(s) = SubSeq(s, 1, n)
  BY <1>2 DEF Last, Front
<1>4. /\ Front(s) \in Seq(S) /\ Len(Front(s)) = n
      /\ \A j \in 1..n : Front(s)[j] = s[j]
  <2>1. \A j \in 1..n : s[j] \in S
    BY <1>2, ElementOfSeq
  <2>2. /\ Front(s) \in Seq(S)
        /\ Len(Front(s)) = IF 1 <= n THEN n - 1 + 1 ELSE 0
        /\ \A j \in 1..(n - 1 + 1) : Front(s)[j] = s[1 + j - 1]
    BY <1>3, <2>1, SubSeqProperties, 1 \in Int, n \in Int
  <2> QED
    BY <2>2
<1>5. DOMAIN Front(s) = 1..n /\ DOMAIN s = 1..(n + 1)
  BY <1>1, <1>2, <1>4, LenProperties
<1> HIDE DEF Front
<1>6. Last(s) \in ToSet(s)
  BY <1>3, <1>5 DEF ToSet
<1>7. ASSUME IsInjective(s) PROVE IsInjective(Front(s))
  BY <1>4, <1>5, <1>7 DEF IsInjective
<1>8. ASSUME IsInjective(s) PROVE ToSet(Front(s)) = ToSet(s) \ {Last(s)}
  <2>1. ASSUME NEW j \in 1..n PROVE s[j] # Last(s) /\ j \in 1..(n + 1)
    BY <1>3, <1>5, <1>8 DEF IsInjective
  <2>2. \A j \in 1..(n + 1) : j \in 1..n \/ j = n + 1
    OBVIOUS
  <2> QED
    BY <1>3, <1>4, <1>5, <2>1, <2>2 DEF ToSet
<1> QED
  BY <1>4, <1>6, <1>7, <1>8

-----------------------------------------------------------------------------
(* The three ways Core changes.                                            *)

\* What the invariant says of the three kinds of records.
LEMMA CoreFacts ==
    ASSUME Inv
    PROVE  /\ A \subseteq Dls /\ W \subseteq Dls /\ A \cap W = {}
           /\ IsInjective(m_dlactive) /\ IsInjective(windows)
           /\ \A d \in A : /\ dls[d].state # "free"
                           /\ dls[d].tab # NoTab =>
                                 /\ dls[d].tab \in Open /\ m_curdl[dls[d].tab] = d
                                 /\ GetCurHist(dls[d].tab) = dls[d].url
                                 /\ m_histindex[dls[d].tab] > 0
           /\ \A d \in W : /\ dls[d].state # "free"
                           /\ dls[d].tab \in Open /\ m_histindex[dls[d].tab] > 0
           /\ \A d \in Dls : d \in A \/ d \in W \/ dls[d] = FreeDl
           /\ \A x \in TabRecords : m_curdl[x] # NoDl =>
                 x \in Open /\ m_curdl[x] \in A /\ dls[m_curdl[x]].tab = x
           /\ Open \subseteq TabRecords
<1>1. A \subseteq Dls /\ W \subseteq Dls /\ Open \subseteq TabRecords
  BY DEF Inv, TypeOK, A, W, Open, ToSet
<1>2. LoadsMatchTabs /\ LoadIsForCurrentEntry /\ OneOwnerEach /\ RequesterTabExists
      /\ InUse /\ EntriesShown
  BY DEF Inv, Core
<1>3. /\ A \cap W = {} /\ IsInjective(m_dlactive) /\ IsInjective(windows)
      /\ \A d \in Dls : dls[d] # FreeDl <=> d \in A \/ d \in W
  BY <1>1, <1>2 DEF OneOwnerEach, A, W
<1>4. \A d \in Dls : d \in A \/ d \in W => dls[d].state # "free"
  BY <1>2, <1>3 DEF InUse
<1>5. \A d \in A : dls[d].tab # NoTab =>
         /\ dls[d].tab \in Open /\ m_curdl[dls[d].tab] = d
         /\ GetCurHist(dls[d].tab) = dls[d].url
         /\ m_histindex[dls[d].tab] > 0
  BY <1>2 DEF LoadsMatchTabs, LoadIsForCurrentEntry, EntriesShown, A
<1>6. \A d \in W : dls[d].tab \in Open /\ m_histindex[dls[d].tab] > 0
  BY <1>2 DEF RequesterTabExists, W
<1>7. \A x \in TabRecords : m_curdl[x] # NoDl =>
         x \in Open /\ m_curdl[x] \in A /\ dls[m_curdl[x]].tab = x
  BY <1>2 DEF LoadsMatchTabs, A
<1> QED
  BY <1>1, <1>3, <1>4, <1>5, <1>6, <1>7

\* The loads of the tabs T are stopped, and requesters give up the downloads in
\* gone.
LEMMA FewerKeepCore ==
    ASSUME Inv, NEW T \in SUBSET TabRecords, NEW gone \in SUBSET W,
           \A d \in Dls : dls'[d] =
              IF d \in gone THEN FreeDl
              ELSE IF \E x \in T : d = m_curdl[x] THEN [dls[d] EXCEPT !.tab = NoTab]
              ELSE dls[d],
           \A x \in TabRecords : m_curdl'[x] = IF x \in T THEN NoDl ELSE m_curdl[x],
           m_dlactive' = m_dlactive,
           ToSet(windows') = W \ gone, IsInjective(windows'),
           \A x \in TabRecords \ T : GetCurHist(x)' = GetCurHist(x),
           Open \ T \subseteq Open',
           \A x \in Open \ T : m_histindex[x] > 0 => m_histindex'[x] > 0,
           \/ W = {}
           \/ \A x \in Open : /\ x \in Open'
                              /\ m_histindex[x] > 0 => m_histindex'[x] > 0
    PROVE  Core'
<1> USE CoreFacts
<1>0. A' = A /\ W' = W \ gone
  BY DEF A, W
<1>t. dls \in [Dls -> [tab : TabRecords \cup {NoTab}, url : Urls \cup {NoUrl},
                       state : {"free", "loading", "ended"}]]
  BY DEF Inv, TypeOK
<1>m. ASSUME NEW d \in Dls, d \notin A PROVE ~(\E x \in T : d = m_curdl[x])
  BY <1>m, NothingAssumption
<1>1. ASSUME NEW d \in W, d \notin gone PROVE dls'[d] = dls[d]
  <2>1. d \in Dls /\ d \notin A
    OBVIOUS
  <2> QED
    BY <1>1, <1>m, <2>1
<1>2. ASSUME NEW d \in A
      PROVE  /\ dls'[d].url = dls[d].url /\ dls'[d].state = dls[d].state
             /\ dls'[d].tab # NoTab => /\ dls'[d].tab = dls[d].tab
                                       /\ dls[d].tab \in TabRecords \ T
  <2>1. d \in Dls /\ d \notin gone
    OBVIOUS
  <2>2. CASE \E x \in T : d = m_curdl[x]
    <3>1. dls'[d] = [dls[d] EXCEPT !.tab = NoTab]
      BY <2>1, <2>2
    <3>2. /\ dls'[d].tab = NoTab /\ dls'[d].url = dls[d].url
          /\ dls'[d].state = dls[d].state
      BY <2>1, <3>1, <1>t
    <3> QED
      BY <3>2
  <2>3. CASE ~(\E x \in T : d = m_curdl[x])
    <3>1. dls'[d] = dls[d]
      BY <2>1, <2>3
    <3> QED
      BY <2>3, <3>1
  <2> QED
    BY <2>2, <2>3
<1>3. ASSUME NEW d \in Dls, d \notin A, d \notin W PROVE dls'[d] = FreeDl
  BY <1>3, <1>m
<1>4. FreeDl.state = "free"
  BY DEF FreeDl
<1>5. LoadsMatchTabs'
  <2>1. ASSUME NEW t \in TabRecords, m_curdl'[t] # NoDl
        PROVE  t \in Open' /\ m_curdl'[t] \in A' /\ dls'[m_curdl'[t]].tab = t
    <3>1. t \notin T /\ m_curdl'[t] = m_curdl[t] /\ m_curdl[t] # NoDl
      BY <2>1
    <3>2. t \in Open /\ m_curdl[t] \in A /\ dls[m_curdl[t]].tab = t
      BY <3>1
    <3>3. ~(\E x \in T : m_curdl[t] = m_curdl[x])
      BY <3>1, <3>2
    <3>4. dls'[m_curdl[t]] = dls[m_curdl[t]]
      BY <3>2, <3>3
    <3> QED
      BY <3>1, <3>2, <3>4, <1>0
  <2>2. ASSUME NEW d \in A', dls'[d].tab # NoTab
        PROVE  dls'[d].tab \in Open' /\ m_curdl'[dls'[d].tab] = d
    BY <1>0, <1>2, <2>2
  <2> QED
    BY <2>1, <2>2 DEF LoadsMatchTabs, A
<1>6. LoadIsForCurrentEntry'
  <2>1. ASSUME NEW d \in A, dls'[d].tab # NoTab, NEW x, x = dls'[d].tab
        PROVE  GetCurHist(x)' = dls'[d].url
    <3>1. x \in TabRecords \ T /\ x = dls[d].tab /\ dls'[d].url = dls[d].url
      BY <1>2, <2>1
    <3>2. GetCurHist(x) = dls[d].url
      BY <3>1, <2>1
    <3> QED
      BY <3>1, <3>2
  <2>2. \A d \in A : dls'[d].tab # NoTab => GetCurHist(dls[d].tab)' = dls'[d].url
    BY <2>1
  <2> QED
    BY <1>0, <2>2 DEF LoadIsForCurrentEntry, A
<1>7. \A d \in Dls : dls'[d] # FreeDl <=> d \in A \/ d \in W \ gone
  <2>1. ASSUME NEW d \in A PROVE dls'[d] # FreeDl
    BY <1>2, <1>4
  <2>2. ASSUME NEW d \in W \ gone PROVE dls'[d] # FreeDl
    BY <1>1, <1>4
  <2>3. ASSUME NEW d \in gone PROVE dls'[d] = FreeDl /\ d \notin A /\ d \notin W \ gone
    OBVIOUS
  <2> QED
    BY <1>3, <2>1, <2>2, <2>3
<1>8. OneOwnerEach'
  BY <1>0, <1>7 DEF OneOwnerEach, A, W
<1>9. RequesterTabExists'
  BY <1>0, <1>1 DEF RequesterTabExists, W
<1>10. InUse'
  BY <1>1, <1>2, <1>7 DEF InUse
<1>11. EntriesShown'
  BY <1>0, <1>2 DEF EntriesShown, A
<1> QED
  BY <1>5, <1>6, <1>8, <1>9, <1>10, <1>11 DEF Core

\* A load of u is started for the tab t, which stops the one it had.
LEMMA StartKeepsCore ==
    ASSUME Inv, NEW t \in TabRecords, NEW u \in Urls \cup {NoUrl}, NEW new \in Dls,
           dls[new] = FreeDl, NEW gone \in SUBSET W,
           dls'[new].tab = t, dls'[new].url = u, dls'[new].state = "loading",
           \A d \in Dls \ {new} : dls'[d] =
              IF d \in gone THEN FreeDl
              ELSE IF d = m_curdl[t] THEN [dls[d] EXCEPT !.tab = NoTab]
              ELSE dls[d],
           \A x \in TabRecords : m_curdl'[x] = IF x = t THEN new ELSE m_curdl[x],
           ToSet(m_dlactive') = A \cup {new}, IsInjective(m_dlactive'),
           ToSet(windows') = W \ gone, IsInjective(windows'),
           GetCurHist(t)' = u,
           \A x \in TabRecords \ {t} : GetCurHist(x)' = GetCurHist(x),
           t \in Open', Open \subseteq Open', m_histindex'[t] > 0,
           \A x \in Open : m_histindex[x] > 0 => m_histindex'[x] > 0
    PROVE  Core'
<1> USE CoreFacts
<1>t. dls \in [Dls -> [tab : TabRecords \cup {NoTab}, url : Urls \cup {NoUrl},
                       state : {"free", "loading", "ended"}]]
  BY DEF Inv, TypeOK
<1>f. FreeDl.state = "free"
  BY DEF FreeDl
<1>n. new \notin A /\ new \notin W /\ new # NoDl
  BY <1>f, NothingAssumption
<1>0. A' = A \cup {new} /\ W' = W \ gone
  BY DEF A, W
<1>1. ASSUME NEW d \in W, d \notin gone PROVE dls'[d] = dls[d]
  <2>1. d \in Dls /\ d # new /\ d \notin A
    BY <1>n
  <2>2. d # m_curdl[t]
    BY <2>1, NothingAssumption
  <2> QED
    BY <1>1, <2>1, <2>2
<1>2. ASSUME NEW d \in A
      PROVE  /\ dls'[d].url = dls[d].url /\ dls'[d].state = dls[d].state
             /\ dls'[d].tab # NoTab => /\ dls'[d].tab = dls[d].tab
                                       /\ dls[d].tab \in TabRecords \ {t}
  <2>1. d \in Dls /\ d \notin gone /\ d # new
    BY <1>n
  <2>2. CASE d = m_curdl[t]
    <3>1. dls'[d] = [dls[d] EXCEPT !.tab = NoTab]
      BY <2>1, <2>2
    <3>2. /\ dls'[d].tab = NoTab /\ dls'[d].url = dls[d].url
          /\ dls'[d].state = dls[d].state
      BY <2>1, <3>1, <1>t
    <3> QED
      BY <3>2
  <2>3. CASE d # m_curdl[t]
    <3>1. dls'[d] = dls[d]
      BY <2>1, <2>3
    <3> QED
      BY <2>3, <3>1
  <2> QED
    BY <2>2, <2>3
<1>3. ASSUME NEW d \in Dls, d \notin A, d \notin W, d # new PROVE dls'[d] = FreeDl
  <2>1. d # m_curdl[t]
    BY <1>3, NothingAssumption
  <2> QED
    BY <1>3, <2>1
<1>5. LoadsMatchTabs'
  <2>1. ASSUME NEW x \in TabRecords, m_curdl'[x] # NoDl
        PROVE  x \in Open' /\ m_curdl'[x] \in A' /\ dls'[m_curdl'[x]].tab = x
    <3>1. CASE x = t
      BY <3>1, <1>0
    <3>2. CASE x # t
      <4>1. m_curdl'[x] = m_curdl[x] /\ m_curdl[x] # NoDl
        BY <2>1, <3>2
      <4>2. x \in Open /\ m_curdl[x] \in A /\ dls[m_curdl[x]].tab = x
        BY <4>1
      <4>3. m_curdl[x] # m_curdl[t] /\ m_curdl[x] # new
        BY <4>1, <4>2, <3>2, <1>n
      <4>4. dls'[m_curdl[x]] = dls[m_curdl[x]]
        BY <4>2, <4>3
      <4> QED
        BY <4>1, <4>2, <4>4, <1>0
    <3> QED
      BY <3>1, <3>2
  <2>2. ASSUME NEW d \in A', dls'[d].tab # NoTab
        PROVE  dls'[d].tab \in Open' /\ m_curdl'[dls'[d].tab] = d
    <3>1. CASE d = new
      BY <3>1
    <3>2. CASE d \in A
      <4>1. dls'[d].tab = dls[d].tab /\ dls[d].tab \in TabRecords \ {t}
            /\ dls[d].tab \in Open /\ m_curdl[dls[d].tab] = d
        BY <1>2, <2>2, <3>2
      <4> QED
        BY <4>1
    <3> QED
      BY <3>1, <3>2, <1>0
  <2> QED
    BY <2>1, <2>2 DEF LoadsMatchTabs, A
<1>6. LoadIsForCurrentEntry'
  <2>1. ASSUME NEW d \in A, dls'[d].tab # NoTab, NEW x, x = dls'[d].tab
        PROVE  GetCurHist(x)' = dls'[d].url
    <3>1. x \in TabRecords \ {t} /\ x = dls[d].tab /\ dls'[d].url = dls[d].url
      BY <1>2, <2>1
    <3>2. GetCurHist(x) = dls[d].url
      BY <3>1, <2>1
    <3> QED
      BY <3>1, <3>2
  <2>2. \A d \in A \cup {new} : dls'[d].tab # NoTab =>
           GetCurHist(dls[d].tab)' = dls'[d].url
    BY <2>1
  <2> QED
    BY <1>0, <2>2 DEF LoadIsForCurrentEntry, A
<1>7. \A d \in Dls : dls'[d] # FreeDl <=> d \in A \/ d = new \/ d \in W \ gone
  <2>1. ASSUME NEW d \in A PROVE dls'[d] # FreeDl
    BY <1>2, <1>f
  <2>2. ASSUME NEW d \in W \ gone PROVE dls'[d] # FreeDl
    BY <1>1, <1>f
  <2>3. ASSUME NEW d \in gone
        PROVE  dls'[d] = FreeDl /\ d \notin A /\ d \notin W \ gone /\ d # new
    <3>1. d \in Dls /\ d # new /\ d \notin A /\ d \notin W \ gone
      BY <1>n
    <3> QED
      BY <3>1
  <2>4. dls'[new] # FreeDl
    BY <1>f
  <2> QED
    BY <1>3, <2>1, <2>2, <2>3, <2>4
<1>8. OneOwnerEach'
  BY <1>0, <1>7, <1>n DEF OneOwnerEach, A, W
<1>9. RequesterTabExists'
  BY <1>0, <1>1 DEF RequesterTabExists, W
<1>10. InUse'
  BY <1>1, <1>2, <1>7 DEF InUse
<1>11. EntriesShown'
  BY <1>0, <1>2 DEF EntriesShown, A
<1> QED
  BY <1>5, <1>6, <1>8, <1>9, <1>10, <1>11 DEF Core

\* Update takes d off its list; a requester may keep it.
LEMMA UpdateKeepsCore ==
    ASSUME Inv, NEW d \in A, NEW kept \in SUBSET {d},
           ToSet(m_dlactive') = A \ {d}, IsInjective(m_dlactive'),
           ToSet(windows') = W \cup kept, IsInjective(windows'),
           kept # {} => dls[d].tab # NoTab,
           \A e \in Dls : dls'[e] = IF e = d /\ d \notin kept THEN FreeDl ELSE dls[e],
           \A x \in TabRecords : m_curdl'[x] =
              IF x = dls[d].tab THEN NoDl ELSE m_curdl[x],
           \A x \in TabRecords : x # dls[d].tab => GetCurHist(x)' = GetCurHist(x),
           m_histindex' = m_histindex, Open' = Open
    PROVE  Core'
<1> USE CoreFacts
<1>0. A' = A \ {d} /\ W' = W \cup kept
  BY DEF A, W
<1>f. FreeDl.state = "free"
  BY DEF FreeDl
<1>1. ASSUME NEW e \in A \ {d}
      PROVE  /\ dls'[e] = dls[e]
             /\ dls[e].tab # NoTab => dls[e].tab # dls[d].tab
  OBVIOUS
<1>2. ASSUME NEW e \in W PROVE dls'[e] = dls[e]
  OBVIOUS
<1>3. ASSUME kept # {}
      PROVE  dls'[d] = dls[d] /\ dls[d].tab \in Open /\ m_histindex[dls[d].tab] > 0
  <2>1. d \in kept /\ dls'[d] = dls[d] /\ dls[d].tab \in Open
    BY <1>3
  <2> QED
    BY <1>3, <2>1
<1>5. LoadsMatchTabs'
  <2>1. ASSUME NEW x \in TabRecords, m_curdl'[x] # NoDl
        PROVE  x \in Open' /\ m_curdl'[x] \in A' /\ dls'[m_curdl'[x]].tab = x
    <3>1. x # dls[d].tab /\ m_curdl'[x] = m_curdl[x] /\ m_curdl[x] # NoDl
      BY <2>1
    <3>2. x \in Open /\ m_curdl[x] \in A /\ dls[m_curdl[x]].tab = x
      BY <3>1
    <3>3. m_curdl[x] \in A \ {d}
      BY <3>1, <3>2
    <3> QED
      BY <3>1, <3>2, <3>3, <1>0, <1>1
  <2>2. ASSUME NEW e \in A', dls'[e].tab # NoTab
        PROVE  dls'[e].tab \in Open' /\ m_curdl'[dls'[e].tab] = e
    BY <1>0, <1>1, <2>2
  <2> QED
    BY <2>1, <2>2 DEF LoadsMatchTabs, A
<1>6. LoadIsForCurrentEntry'
  <2>1. ASSUME NEW e \in A \ {d}, dls'[e].tab # NoTab, NEW x, x = dls'[e].tab
        PROVE  GetCurHist(x)' = dls'[e].url
    <3>1. x = dls[e].tab /\ dls'[e] = dls[e] /\ x # dls[d].tab /\ x \in TabRecords
      BY <1>1, <2>1
    <3>2. GetCurHist(x) = dls[e].url
      BY <3>1, <2>1
    <3> QED
      BY <3>1, <3>2
  <2>2. \A e \in A \ {d} : dls'[e].tab # NoTab => GetCurHist(dls[e].tab)' = dls'[e].url
    BY <2>1
  <2> QED
    BY <1>0, <2>2 DEF LoadIsForCurrentEntry, A
<1>7. \A e \in Dls : dls'[e] # FreeDl <=> e \in A \ {d} \/ e \in W \cup kept
  <2>1. ASSUME NEW e \in A \ {d} PROVE dls'[e] # FreeDl
    BY <1>1, <1>f
  <2>2. ASSUME NEW e \in W \cup kept PROVE dls'[e] # FreeDl
    BY <1>2, <1>3, <1>f
  <2>3. d \notin kept => dls'[d] = FreeDl /\ d \notin W \cup kept
    OBVIOUS
  <2>4. ASSUME NEW e \in Dls, e \notin A, e \notin W PROVE dls'[e] = FreeDl
    BY <2>4
  <2> QED
    BY <2>1, <2>2, <2>3, <2>4
<1>8. OneOwnerEach'
  BY <1>0, <1>7 DEF OneOwnerEach, A, W
<1>9. RequesterTabExists'
  BY <1>0, <1>2, <1>3 DEF RequesterTabExists, W
<1>10. InUse'
  BY <1>1, <1>2, <1>3, <1>7 DEF InUse
<1>11. EntriesShown'
  BY <1>0, <1>1 DEF EntriesShown, A
<1> QED
  BY <1>5, <1>6, <1>8, <1>9, <1>10, <1>11 DEF Core

-----------------------------------------------------------------------------
(* The parts of the handlers.                                              *)

DlRecords == [tab : TabRecords \cup {NoTab}, url : Urls \cup {NoUrl},
              state : {"free", "loading", "ended"}]

LEMMA CurTabOpen ==
    ASSUME Inv
    PROVE  CurTab \in Open /\ CurTab \in TabRecords
<1>1. m_tabrecords \in Seq(TabRecords) /\ m_curtab \in 1..Len(m_tabrecords)
  BY DEF Inv, TypeOK
<1> QED
  BY <1>1 DEF CurTab, Open, ToSet

\* The free record is one, and it is nobody's.
LEMMA FreeDlType == FreeDl \in DlRecords
BY DEF FreeDl, DlRecords

LEMMA GetCurHistType ==
    ASSUME Inv, NEW t \in TabRecords
    PROVE  GetCurHist(t) \in Urls \cup {NoUrl}
<1>1. m_histindex[t] \in 0..MaxPages /\ m_history[t] \in [1..MaxPages -> Urls \cup {NoUrl}]
  BY DEF Inv, TypeOK
<1> QED
  BY <1>1, PagesAssumption DEF GetCurHist

LEMMA NextPageFacts ==
    ASSUME Inv, NEW t \in TabRecords, NEW u \in Urls, NextPage(t, u)
    PROVE  /\ m_histindex' \in [TabRecords -> 0..MaxPages]
           /\ m_histend' \in [TabRecords -> 0..MaxPages]
           /\ m_history' \in [TabRecords -> [1..MaxPages -> Urls \cup {NoUrl}]]
           /\ GetCurHist(t)' = u
           /\ \A x \in TabRecords \ {t} : GetCurHist(x)' = GetCurHist(x)
           /\ \A x \in TabRecords : m_histindex[x] > 0 => m_histindex'[x] > 0
           /\ m_histindex'[t] > 0
<1>1. /\ m_histindex \in [TabRecords -> 0..MaxPages]
      /\ m_histend \in [TabRecords -> 0..MaxPages]
      /\ m_history \in [TabRecords -> [1..MaxPages -> Urls \cup {NoUrl}]]
  BY DEF Inv, TypeOK
<1>2. m_histindex[t] \in 0..MaxPages /\ MaxPages \in Nat /\ MaxPages >= 1
  BY <1>1, PagesAssumption
<1>3. NextIndex(t) \in 1..MaxPages
  BY <1>2 DEF NextIndex
<1>4. NextHistory(t, u) \in [1..MaxPages -> Urls \cup {NoUrl}]
      /\ NextHistory(t, u)[NextIndex(t)] = u
  <2>1. ASSUME NEW k \in 1..MaxPages, k # NextIndex(t), m_histindex[t] = MaxPages
        PROVE  k + 1 \in 1..MaxPages
    BY <1>2, <2>1 DEF NextIndex
  <2>2. m_history[t] \in [1..MaxPages -> Urls \cup {NoUrl}]
    BY <1>1
  <2>3. ASSUME NEW k \in 1..MaxPages
        PROVE  (IF k = NextIndex(t) THEN u
                ELSE IF m_histindex[t] = MaxPages THEN m_history[t][k + 1]
                ELSE m_history[t][k]) \in Urls \cup {NoUrl}
    BY <2>1, <2>2
  <2> QED
    BY <1>3, <2>3 DEF NextHistory
<1>5. /\ m_histindex' = [m_histindex EXCEPT ![t] = NextIndex(t)]
      /\ m_histend' = [m_histend EXCEPT ![t] = NextIndex(t)]
      /\ m_history' = [m_history EXCEPT ![t] = NextHistory(t, u)]
  BY DEF NextPage
<1> HIDE DEF NextPage
<1>6. NextIndex(t) \in 0..MaxPages /\ NextIndex(t) > 0
  BY <1>2, <1>3
<1>7. /\ m_histindex' \in [TabRecords -> 0..MaxPages]
      /\ m_histend' \in [TabRecords -> 0..MaxPages]
      /\ m_history' \in [TabRecords -> [1..MaxPages -> Urls \cup {NoUrl}]]
  BY <1>1, <1>4, <1>5, <1>6
<1>8. m_histindex'[t] = NextIndex(t) /\ m_history'[t] = NextHistory(t, u)
  BY <1>1, <1>5
<1>9. GetCurHist(t)' = u
  BY <1>4, <1>6, <1>8 DEF GetCurHist
<1>10. \A x \in TabRecords \ {t} :
          m_histindex'[x] = m_histindex[x] /\ m_history'[x] = m_history[x]
  BY <1>1, <1>5
<1>11. \A x \in TabRecords \ {t} : GetCurHist(x)' = GetCurHist(x)
  BY <1>10 DEF GetCurHist
<1> QED
  BY <1>6, <1>7, <1>8, <1>9, <1>10, <1>11

\* A load of the entry its tab is at, of a file or with a thread; a requester
\* may be closed with it.
LEMMA LoadKeeps ==
    ASSUME Inv, NEW t \in TabRecords, NEW u \in Urls \cup {NoUrl},
           NEW gone \in SUBSET W,
           LoadFile(t, u, gone) \/ LoadPage(t, u, gone),
           ToSet(windows') = W \ gone, IsInjective(windows'),
           GetCurHist(t)' = u,
           \A x \in TabRecords \ {t} : GetCurHist(x)' = GetCurHist(x),
           t \in Open', Open \subseteq Open', m_histindex'[t] > 0,
           \A x \in Open : m_histindex[x] > 0 => m_histindex'[x] > 0
    PROVE  /\ Core'
           /\ m_curdl' \in [TabRecords -> Dls \cup {NoDl}]
           /\ dls' \in [Dls -> DlRecords]
           /\ m_dlactive' \in Seq(Dls)
<1>t. /\ m_curdl \in [TabRecords -> Dls \cup {NoDl}]
      /\ dls \in [Dls -> DlRecords]
      /\ m_dlactive \in Seq(Dls)
  BY DEF Inv, TypeOK, DlRecords
<1>s. /\ Stopped(t) \in [Dls -> DlRecords]
      /\ \A d \in Dls : Stopped(t)[d] =
            IF d = m_curdl[t] THEN [dls[d] EXCEPT !.tab = NoTab] ELSE dls[d]
  <2>1. ASSUME NEW d \in Dls PROVE [dls[d] EXCEPT !.tab = NoTab] \in DlRecords
    BY <1>t DEF DlRecords
  <2>2. \A d \in Dls : (IF d = m_curdl[t] THEN [dls[d] EXCEPT !.tab = NoTab] ELSE dls[d])
                       \in DlRecords
    BY <1>t, <2>1
  <2> QED
    BY <2>2 DEF Stopped
<1> HIDE DEF Stopped
<1>1. CASE LoadFile(t, u, gone)
  <2>1. /\ dls' = [d \in Dls |-> IF d \in gone THEN FreeDl ELSE Stopped(t)[d]]
        /\ m_curdl' = [m_curdl EXCEPT ![t] = NoDl]
        /\ m_dlactive' = m_dlactive
    BY <1>1 DEF LoadFile
  <2>2. dls' \in [Dls -> DlRecords] /\ m_curdl' \in [TabRecords -> Dls \cup {NoDl}]
    BY <1>t, <1>s, <2>1, FreeDlType
  <2>3. \A d \in Dls : dls'[d] =
           IF d \in gone THEN FreeDl
           ELSE IF \E x \in {t} : d = m_curdl[x] THEN [dls[d] EXCEPT !.tab = NoTab]
           ELSE dls[d]
    BY <1>s, <2>1
  <2>4. \A x \in TabRecords : m_curdl'[x] = IF x \in {t} THEN NoDl ELSE m_curdl[x]
    BY <1>t, <2>1
  <2>5. {t} \in SUBSET TabRecords /\ Open \ {t} \subseteq Open'
    OBVIOUS
  <2>6. \A x \in Open : x \in Open' /\ (m_histindex[x] > 0 => m_histindex'[x] > 0)
    OBVIOUS
  <2>7. Core'
    BY <2>1, <2>3, <2>4, <2>5, <2>6, FewerKeepCore
  <2> QED
    BY <1>t, <2>1, <2>2, <2>7
<1>2. CASE LoadPage(t, u, gone)
  <2>0. NewDl \in Dls /\ dls[NewDl] = FreeDl
    BY <1>2 DEF LoadPage, NewDl
  <2>n. PICK new \in Dls : new = NewDl
    BY <2>0
  <2>1. /\ dls' = [d \in Dls |->
                     IF d = new THEN [tab |-> t, url |-> u, state |-> "loading"]
                     ELSE IF d \in gone THEN FreeDl ELSE Stopped(t)[d]]
        /\ m_curdl' = [m_curdl EXCEPT ![t] = new]
        /\ m_dlactive' = Append(m_dlactive, new)
    BY <1>2, <2>n DEF LoadPage
  <2>2. [tab |-> t, url |-> u, state |-> "loading"] \in DlRecords
    BY DEF DlRecords
  <2>3. dls' \in [Dls -> DlRecords] /\ m_curdl' \in [TabRecords -> Dls \cup {NoDl}]
    BY <1>t, <1>s, <2>1, <2>2, FreeDlType
  <2>f. new \notin A
    BY <2>0, <2>n, CoreFacts DEF FreeDl
  <2>4. /\ m_dlactive' \in Seq(Dls)
        /\ ToSet(m_dlactive') = A \cup {new} /\ IsInjective(m_dlactive')
    BY <1>t, <2>1, <2>f, CoreFacts, AppendSet DEF A
  <2>o. dls'[new] = [tab |-> t, url |-> u, state |-> "loading"]
    BY <2>1
  <2>p. dls'[new].tab = t /\ dls'[new].url = u /\ dls'[new].state = "loading"
    BY <2>o
  <2>5. \A d \in Dls \ {new} : dls'[d] =
           IF d \in gone THEN FreeDl
           ELSE IF d = m_curdl[t] THEN [dls[d] EXCEPT !.tab = NoTab]
           ELSE dls[d]
    BY <1>s, <2>1
  <2>6. \A x \in TabRecords : m_curdl'[x] = IF x = t THEN new ELSE m_curdl[x]
    BY <1>t, <2>1
  <2>7. dls[new] = FreeDl
    BY <2>0, <2>n
  <2>9. Core'
    BY <2>4, <2>5, <2>6, <2>7, <2>p, StartKeepsCore, ZenonT(30)
  <2> QED
    BY <2>3, <2>4, <2>9
<1> QED
  BY <1>1, <1>2

\* StopLoad of the tab t, with what the caller does to the tabs.
LEMMA StopKeeps ==
    ASSUME Inv, NEW t \in TabRecords, StopLoad(t), W = {},
           UNCHANGED <<m_dlactive, windows>>,
           \A x \in TabRecords \ {t} : GetCurHist(x)' = GetCurHist(x),
           Open \ {t} \subseteq Open',
           \A x \in Open \ {t} : m_histindex'[x] = m_histindex[x]
    PROVE  /\ Core'
           /\ m_curdl' \in [TabRecords -> Dls \cup {NoDl}]
           /\ dls' \in [Dls -> DlRecords]
<1>t. m_curdl \in [TabRecords -> Dls \cup {NoDl}] /\ dls \in [Dls -> DlRecords]
  BY DEF Inv, TypeOK, DlRecords
<1>1. /\ dls' = [d \in Dls |->
                   IF d = m_curdl[t] THEN [dls[d] EXCEPT !.tab = NoTab] ELSE dls[d]]
      /\ m_curdl' = [m_curdl EXCEPT ![t] = NoDl]
  BY DEF StopLoad, Stopped
<1>2. ASSUME NEW d \in Dls PROVE [dls[d] EXCEPT !.tab = NoTab] \in DlRecords
  BY <1>t DEF DlRecords
<1>3. dls' \in [Dls -> DlRecords] /\ m_curdl' \in [TabRecords -> Dls \cup {NoDl}]
  BY <1>t, <1>1, <1>2
<1>4. \A d \in Dls : dls'[d] =
         IF d \in {} THEN FreeDl
         ELSE IF \E x \in {t} : d = m_curdl[x] THEN [dls[d] EXCEPT !.tab = NoTab]
         ELSE dls[d]
  BY <1>1
<1>5. \A x \in TabRecords : m_curdl'[x] = IF x \in {t} THEN NoDl ELSE m_curdl[x]
  BY <1>t, <1>1
<1>6. ToSet(windows') = W \ {} /\ IsInjective(windows') /\ {t} \in SUBSET TabRecords
      /\ {} \in SUBSET W
  BY CoreFacts DEF W
<1>7. Core'
  BY <1>4, <1>5, <1>6, FewerKeepCore, ZenonT(30)
<1> QED
  BY <1>3, <1>7

-----------------------------------------------------------------------------
(* The actions.                                                            *)

LEMMA InitInv == Init => Inv
<1> SUFFICES ASSUME Init PROVE Inv
  OBVIOUS
<1>1. PICK t \in TabRecords : m_tabrecords = <<t>>
  BY DEF Init
<1>2. /\ m_tabrecords \in Seq(TabRecords) /\ Len(m_tabrecords) = 1
      /\ DOMAIN m_tabrecords = 1..1
  BY <1>1
<1>3. /\ m_curtab = 1 /\ m_dlactive = <<>> /\ windows = <<>> /\ refreshing = {}
      /\ m_gomenu = {}
      /\ m_histindex = [x \in TabRecords |-> 0] /\ m_histend = [x \in TabRecords |-> 0]
      /\ m_history = [x \in TabRecords |-> [i \in 1..MaxPages |-> NoUrl]]
      /\ m_curdl = [x \in TabRecords |-> NoDl] /\ dls = [d \in Dls |-> FreeDl]
  BY DEF Init, NoHistory
<1>4. FreeDl \in [tab : TabRecords \cup {NoTab}, url : Urls \cup {NoUrl},
                  state : {"free", "loading", "ended"}]
  BY FreeDlType DEF DlRecords
<1>5. m_dlactive \in Seq(Dls) /\ windows \in Seq(Dls)
  BY <1>3
<1>6. 0 \in 0..MaxPages /\ {} \subseteq 1..MaxPages /\ 1 \in 1..1
  BY PagesAssumption
<1>7. /\ m_histindex \in [TabRecords -> 0..MaxPages]
      /\ m_histend \in [TabRecords -> 0..MaxPages]
      /\ m_history \in [TabRecords -> [1..MaxPages -> Urls \cup {NoUrl}]]
      /\ m_curdl \in [TabRecords -> Dls \cup {NoDl}]
  BY <1>3, <1>6
<1>8. TypeOK
  BY <1>2, <1>3, <1>4, <1>5, <1>6, <1>7 DEF TypeOK
<1>9. ToSet(m_dlactive) = {} /\ ToSet(windows) = {}
      /\ IsInjective(m_dlactive) /\ IsInjective(windows)
  BY <1>3 DEF ToSet, IsInjective
<1>10. Core
  BY <1>3, <1>9 DEF Core, LoadsMatchTabs, LoadIsForCurrentEntry, OneOwnerEach,
                    RequesterTabExists, InUse, EntriesShown
<1>11. TabsOnce
  BY <1>2 DEF TabsOnce, IsInjective
<1> QED
  BY <1>3, <1>8, <1>10, <1>11 DEF Inv, TimersOfTabs

\* What only changes where the user is looking.
LEMMA LookingKeeps ==
    ASSUME Inv,
           UNCHANGED <<m_tabrecords, records, dls, m_dlactive, refreshing, windows>>,
           m_curtab' \in 1..Len(m_tabrecords), m_gomenu' \subseteq 1..MaxPages
    PROVE  Inv'
<1>1. TypeOK'
  BY DEF Inv, TypeOK, records
<1>2. Core'
  BY DEF Inv, Core, LoadsMatchTabs, LoadIsForCurrentEntry, OneOwnerEach,
         RequesterTabExists, InUse, EntriesShown, Open, GetCurHist, records
<1>3. TabsOnce' /\ TimersOfTabs'
  BY DEF Inv, TabsOnce, TimersOfTabs, Open
<1> QED
  BY <1>1, <1>2, <1>3 DEF Inv

\* NextPage and a load of the new entry, in a tab that is open.  There may be
\* requesters.
LEMMA NextPageAndLoad ==
    ASSUME Inv, NEW t \in Open, NEW u \in Urls, NextPage(t, u),
           LoadFile(t, u, {}) \/ LoadPage(t, u, {}),
           refreshing' \subseteq refreshing \cup {t},
           UNCHANGED <<m_tabrecords, m_curtab, windows, m_gomenu>>
    PROVE  Inv'
<1>0. t \in TabRecords
  BY CoreFacts
<1>1. /\ m_histindex' \in [TabRecords -> 0..MaxPages]
      /\ m_histend' \in [TabRecords -> 0..MaxPages]
      /\ m_history' \in [TabRecords -> [1..MaxPages -> Urls \cup {NoUrl}]]
      /\ GetCurHist(t)' = u
      /\ \A x \in TabRecords \ {t} : GetCurHist(x)' = GetCurHist(x)
      /\ \A x \in TabRecords : m_histindex[x] > 0 => m_histindex'[x] > 0
      /\ m_histindex'[t] > 0
  BY <1>0, NextPageFacts
<1>2. Open' = Open /\ ToSet(windows') = W \ {} /\ IsInjective(windows')
      /\ {} \in SUBSET W
  BY CoreFacts DEF Open, W
<1>2a. \A x \in Open : m_histindex[x] > 0 => m_histindex'[x] > 0
  BY <1>1, CoreFacts
<1>2b. t \in Open' /\ Open \subseteq Open'
  BY <1>2
<1>3. /\ Core'
      /\ m_curdl' \in [TabRecords -> Dls \cup {NoDl}]
      /\ dls' \in [Dls -> DlRecords]
      /\ m_dlactive' \in Seq(Dls)
  BY <1>0, <1>1, <1>2, <1>2a, <1>2b, LoadKeeps
<1>4. TypeOK'
  BY <1>1, <1>3 DEF Inv, TypeOK, DlRecords
<1>5. TabsOnce' /\ TimersOfTabs'
  BY <1>2 DEF Inv, TabsOnce, TimersOfTabs
<1> QED
  BY <1>3, <1>4, <1>5 DEF Inv

LEMMA UrlChangedKeeps ==
    ASSUME Inv, NEW u \in Urls, UrlChanged(u) \/ ClickLink(u)
    PROVE  Inv'
<1>1. PICK t \in Open : t = CurTab
  BY CurTabOpen
<1>2. /\ NextPage(t, u) /\ Load(t, u, {})
      /\ UNCHANGED <<m_tabrecords, m_curtab, windows, m_gomenu>>
  BY <1>1 DEF UrlChanged, ClickLink
<1>3. /\ LoadFile(t, u, {}) \/ LoadPage(t, u, {})
      /\ refreshing' \subseteq refreshing \cup {t}
  BY <1>2 DEF Load, LoadFile, Goto
<1> QED
  BY <1>2, <1>3, NextPageAndLoad

LEMMA TimerEventKeeps ==
    ASSUME Inv, NEW t \in TabRecords, NEW u \in Urls, TimerEvent(t, u)
    PROVE  Inv'
<1>1. t \in Open
  BY DEF TimerEvent, Inv, TimersOfTabs
<1>2. /\ NextPage(t, u)
      /\ UNCHANGED <<m_tabrecords, m_curtab, windows, m_gomenu>>
      /\ LoadFile(t, u, {}) \/ LoadPage(t, u, {})
  BY DEF TimerEvent
<1>3. refreshing' \subseteq refreshing \cup {t}
  BY DEF TimerEvent, LoadFile, Goto
<1> QED
  BY <1>1, <1>2, <1>3, NextPageAndLoad

LEMMA AddTabFacts ==
    ASSUME Inv, NEW t \in TabRecords, AddTab(t)
    PROVE  /\ m_tabrecords' \in Seq(TabRecords)
           /\ m_curtab' \in 1..Len(m_tabrecords')
           /\ t \notin Open /\ Open' = Open \cup {t}
           /\ TabsOnce'
<1>1. m_tabrecords \in Seq(TabRecords) /\ IsInjective(m_tabrecords)
      /\ Len(m_tabrecords) \in Nat
  BY DEF Inv, TypeOK, TabsOnce
<1>2. /\ t \notin Open
      /\ m_tabrecords' = Append(m_tabrecords, t)
      /\ m_curtab' = Len(m_tabrecords) + 1
  BY DEF AddTab
<1>3. Len(m_tabrecords') = Len(m_tabrecords) + 1
  BY <1>1, <1>2
<1>4. /\ m_tabrecords' \in Seq(TabRecords)
      /\ ToSet(m_tabrecords') = Open \cup {t} /\ IsInjective(m_tabrecords')
  BY <1>1, <1>2, AppendSet DEF Open
<1>5. m_curtab' \in 1..Len(m_tabrecords')
  BY <1>1, <1>2, <1>3
<1> QED
  BY <1>2, <1>4, <1>5 DEF Open, TabsOnce

LEMMA ClickNewTabKeeps ==
    ASSUME Inv, NEW u \in Urls, ClickNewTab(u)
    PROVE  Inv'
<1>1. PICK t \in TabRecords : AddTab(t) /\ NextPage(t, u) /\ Load(t, u, {})
  BY DEF ClickNewTab
<1>2. UNCHANGED <<windows, m_gomenu>>
  BY DEF ClickNewTab
<1>3. /\ m_tabrecords' \in Seq(TabRecords)
      /\ m_curtab' \in 1..Len(m_tabrecords')
      /\ Open' = Open \cup {t} /\ TabsOnce'
  BY <1>1, AddTabFacts
<1>4. /\ m_histindex' \in [TabRecords -> 0..MaxPages]
      /\ m_histend' \in [TabRecords -> 0..MaxPages]
      /\ m_history' \in [TabRecords -> [1..MaxPages -> Urls \cup {NoUrl}]]
      /\ GetCurHist(t)' = u
      /\ \A x \in TabRecords \ {t} : GetCurHist(x)' = GetCurHist(x)
      /\ \A x \in TabRecords : m_histindex[x] > 0 => m_histindex'[x] > 0
      /\ m_histindex'[t] > 0
  BY <1>1, NextPageFacts
<1>5. ToSet(windows') = W \ {} /\ IsInjective(windows') /\ {} \in SUBSET W
  BY <1>2, CoreFacts DEF W
<1>6. \A x \in Open : m_histindex[x] > 0 => m_histindex'[x] > 0
  BY <1>4, CoreFacts
<1>7. /\ LoadFile(t, u, {}) \/ LoadPage(t, u, {})
      /\ refreshing' \subseteq refreshing \cup {t}
  BY <1>1 DEF Load, LoadFile, Goto
<1>8. t \in Open' /\ Open \subseteq Open'
  BY <1>3
<1>9. /\ Core'
      /\ m_curdl' \in [TabRecords -> Dls \cup {NoDl}]
      /\ dls' \in [Dls -> DlRecords]
      /\ m_dlactive' \in Seq(Dls)
  BY <1>4, <1>5, <1>6, <1>7, <1>8, LoadKeeps
<1>10. TypeOK'
  BY <1>2, <1>3, <1>4, <1>9 DEF Inv, TypeOK, DlRecords
<1>11. TimersOfTabs'
  BY <1>3, <1>7 DEF Inv, TimersOfTabs
<1> QED
  BY <1>3, <1>9, <1>10, <1>11 DEF Inv

LEMMA NewTabKeeps ==
    ASSUME Inv, NewTab
    PROVE  Inv'
<1>1. PICK t \in TabRecords : AddTab(t)
  BY DEF NewTab
<1>2. UNCHANGED <<records, dls, m_dlactive, refreshing, windows, m_gomenu>>
  BY DEF NewTab
<1>3. /\ m_tabrecords' \in Seq(TabRecords)
      /\ m_curtab' \in 1..Len(m_tabrecords')
      /\ Open' = Open \cup {t} /\ TabsOnce'
  BY <1>1, AddTabFacts
<1>4. Core'
  BY <1>2, <1>3 DEF Inv, Core, LoadsMatchTabs, LoadIsForCurrentEntry, OneOwnerEach,
                    RequesterTabExists, InUse, EntriesShown, GetCurHist, records
<1>5. TypeOK'
  BY <1>2, <1>3 DEF Inv, TypeOK, records
<1>6. TimersOfTabs'
  BY <1>2, <1>3 DEF Inv, TimersOfTabs
<1> QED
  BY <1>3, <1>4, <1>5, <1>6 DEF Inv

LEMMA CloseTabKeeps ==
    ASSUME Inv, CloseTab
    PROVE  Inv'
<1>1. PICK t \in Open : t = CurTab
  BY CurTabOpen
<1>2. /\ StopLoad(t) /\ windows = <<>>
      /\ \E x \in TabRecords : m_tabrecords' = IF Rest = <<>> THEN <<x>> ELSE Rest
      /\ m_curtab' = IF m_curtab = Len(m_tabrecords) /\ m_curtab > 1
                     THEN m_curtab - 1 ELSE m_curtab
      /\ m_histindex' = [m_histindex EXCEPT ![t] = 0]
      /\ m_histend' = [m_histend EXCEPT ![t] = 0]
      /\ m_history' = [m_history EXCEPT ![t] = NoHistory]
      /\ refreshing' = refreshing \ {t}
      /\ UNCHANGED <<m_dlactive, windows, m_gomenu>>
  BY <1>1 DEF CloseTab, BrowserOnTop, RequesterOnTop
<1>3. /\ m_tabrecords \in Seq(TabRecords) /\ IsInjective(m_tabrecords)
      /\ m_curtab \in 1..Len(m_tabrecords) /\ Len(m_tabrecords) \in Nat
      /\ t = m_tabrecords[m_curtab] /\ t \in TabRecords
  BY <1>1, CurTabOpen DEF Inv, TypeOK, TabsOnce, CurTab
<1>4. /\ Rest \in Seq(TabRecords) /\ Len(Rest) = Len(m_tabrecords) - 1
      /\ IsInjective(Rest) /\ ToSet(Rest) = Open \ {t}
  BY <1>3, RemoveSet DEF Rest, Open
<1> HIDE DEF Rest
<1>5. /\ m_tabrecords' \in Seq(TabRecords) /\ TabsOnce'
      /\ m_curtab' \in 1..Len(m_tabrecords')
      /\ Open \ {t} \subseteq Open'
  <2>1. CASE Rest = <<>>
    <3>1. PICK x \in TabRecords : m_tabrecords' = <<x>>
      BY <1>2, <2>1
    <3>2. Len(m_tabrecords') = 1 /\ DOMAIN m_tabrecords' = 1..1
          /\ m_tabrecords' \in Seq(TabRecords)
      BY <3>1
    <3>3. m_curtab' = 1
      <4>1. Len(m_tabrecords) = 1
        BY <1>3, <1>4, <2>1
      <4>2. m_curtab = 1
        BY <1>3, <4>1
      <4> QED
        BY <1>2, <4>1, <4>2
    <3>4. ToSet(Rest) = {}
      BY <2>1 DEF ToSet
    <3> QED
      BY <1>4, <3>2, <3>3, <3>4 DEF TabsOnce, IsInjective
  <2>2. CASE Rest # <<>>
    <3>1. m_tabrecords' = Rest
      BY <1>2, <2>2
    <3>2. Len(Rest) >= 1
      BY <1>3, <1>4, <2>2, EmptySeq, LenProperties
    <3>3. m_curtab' \in 1..Len(Rest)
      BY <1>2, <1>3, <1>4, <3>2
    <3> QED
      BY <1>4, <3>1, <3>3 DEF TabsOnce, Open
  <2> QED
    BY <2>1, <2>2
<1>6. W = {}
  BY <1>2 DEF W, ToSet
<1>7. /\ m_histindex \in [TabRecords -> 0..MaxPages]
      /\ m_histend \in [TabRecords -> 0..MaxPages]
      /\ m_history \in [TabRecords -> [1..MaxPages -> Urls \cup {NoUrl}]]
  BY DEF Inv, TypeOK
<1>8. 0 \in 0..MaxPages /\ NoHistory \in [1..MaxPages -> Urls \cup {NoUrl}]
  BY PagesAssumption DEF NoHistory
<1>9. /\ m_histindex' \in [TabRecords -> 0..MaxPages]
      /\ m_histend' \in [TabRecords -> 0..MaxPages]
      /\ m_history' \in [TabRecords -> [1..MaxPages -> Urls \cup {NoUrl}]]
  BY <1>2, <1>7, <1>8
<1>10. \A x \in TabRecords \ {t} : GetCurHist(x)' = GetCurHist(x)
                                    /\ m_histindex'[x] = m_histindex[x]
  BY <1>2, <1>7 DEF GetCurHist
<1>10a. \A x \in Open \ {t} : m_histindex'[x] = m_histindex[x]
  BY <1>10, CoreFacts
<1>11. UNCHANGED <<m_dlactive, windows>>
  BY <1>2
<1>12. /\ Core'
       /\ m_curdl' \in [TabRecords -> Dls \cup {NoDl}]
       /\ dls' \in [Dls -> DlRecords]
  BY <1>2, <1>3, <1>5, <1>6, <1>10, <1>10a, <1>11, StopKeeps
<1>13. TypeOK'
  BY <1>2, <1>5, <1>9, <1>12 DEF Inv, TypeOK, DlRecords
<1>14. TimersOfTabs'
  BY <1>2, <1>5 DEF Inv, TimersOfTabs
<1> QED
  BY <1>5, <1>12, <1>13, <1>14 DEF Inv

LEMMA GotoEntryKeeps ==
    ASSUME Inv, NEW i \in 1..MaxPages, GotoEntry(i), windows = <<>>,
           m_gomenu' \subseteq 1..MaxPages
    PROVE  Inv'
<1>1. PICK t \in Open : t = CurTab
  BY CurTabOpen
<1>2. /\ StopLoad(t)
      /\ m_histindex' = [m_histindex EXCEPT ![t] = i]
      /\ refreshing' \subseteq refreshing \cup {t}
      /\ UNCHANGED <<m_tabrecords, m_curtab, m_histend, m_history, m_dlactive, windows>>
  BY <1>1 DEF GotoEntry, Goto
<1>3. /\ m_histindex \in [TabRecords -> 0..MaxPages] /\ i \in 0..MaxPages
      /\ t \in TabRecords
  BY CoreFacts, PagesAssumption DEF Inv, TypeOK
<1>4. m_histindex' \in [TabRecords -> 0..MaxPages]
  BY <1>2, <1>3
<1>5. \A x \in TabRecords \ {t} : GetCurHist(x)' = GetCurHist(x)
                                   /\ m_histindex'[x] = m_histindex[x]
  BY <1>2, <1>3 DEF GetCurHist
<1>5a. \A x \in Open \ {t} : m_histindex'[x] = m_histindex[x]
  BY <1>5, CoreFacts
<1>6. W = {} /\ Open' = Open
  BY <1>2 DEF W, ToSet, Open
<1>7. /\ Core'
      /\ m_curdl' \in [TabRecords -> Dls \cup {NoDl}]
      /\ dls' \in [Dls -> DlRecords]
  BY <1>2, <1>3, <1>5, <1>5a, <1>6, StopKeeps
<1>8. TypeOK'
  BY <1>2, <1>4, <1>7 DEF Inv, TypeOK, DlRecords
<1>9. TabsOnce' /\ TimersOfTabs'
  BY <1>2, <1>6 DEF Inv, TabsOnce, TimersOfTabs
<1> QED
  BY <1>7, <1>8, <1>9 DEF Inv

LEMMA HistoryKeeps ==
    ASSUME Inv, GoBack \/ GoForward \/ DoGotoMenu
    PROVE  Inv'
<1>1. PICK t \in TabRecords : t = CurTab
  BY CurTabOpen
<1>2. /\ m_histindex[t] \in 0..MaxPages /\ m_histend[t] \in 0..MaxPages
      /\ m_gomenu \subseteq 1..MaxPages
  BY DEF Inv, TypeOK
<1>3. PICK i \in 1..MaxPages :
         GotoEntry(i) /\ windows = <<>> /\ m_gomenu' \in {m_gomenu, {}}
  <2>1. CASE GoBack
    <3>1. m_histindex[t] - 1 \in 1..MaxPages
      BY <1>1, <1>2, <2>1, PagesAssumption DEF GoBack
    <3> QED
      BY <1>1, <2>1, <3>1 DEF GoBack, BrowserOnTop, RequesterOnTop
  <2>2. CASE GoForward
    <3>1. m_histindex[t] + 1 \in 1..MaxPages
      BY <1>1, <1>2, <2>2, PagesAssumption DEF GoForward
    <3> QED
      BY <1>1, <2>2, <3>1 DEF GoForward, BrowserOnTop, RequesterOnTop
  <2>3. CASE DoGotoMenu
    BY <1>2, <2>3 DEF DoGotoMenu, MenuOnTop, RequesterOnTop
  <2> QED
    BY <2>1, <2>2, <2>3
<1> QED
  BY <1>2, <1>3, GotoEntryKeeps

\* A load of the entry a tab is at.
LEMMA LoadAgain ==
    ASSUME Inv, NEW gone \in SUBSET W, m_histindex[CurTab] > 0,
           Load(CurTab, GetCurHist(CurTab), gone),
           windows' \in Seq(Dls), ToSet(windows') = W \ gone, IsInjective(windows'),
           UNCHANGED <<m_tabrecords, m_curtab, m_histindex, m_histend, m_history, m_gomenu>>
    PROVE  Inv'
<1>1. PICK t \in Open : t = CurTab
  BY CurTabOpen
<1>2. PICK u \in Urls \cup {NoUrl} : u = GetCurHist(t)
  BY <1>1, CoreFacts, GetCurHistType
<1>3. m_histindex'[t] > 0 /\ t \in TabRecords /\ Open' = Open
  <2>1. t \in TabRecords /\ Open' = Open
    BY CoreFacts DEF Open
  <2> QED
    BY <1>1, <2>1
<1>4. /\ LoadFile(t, u, gone) \/ LoadPage(t, u, gone)
      /\ refreshing' \subseteq refreshing \cup {t}
  BY <1>1, <1>2 DEF Load, LoadFile, Goto
<1>5. \A x \in TabRecords : GetCurHist(x)' = GetCurHist(x)
  BY DEF GetCurHist
<1>6. GetCurHist(t)' = u
  BY <1>2, <1>3, <1>5
<1>7. \A x \in Open : m_histindex[x] > 0 => m_histindex'[x] > 0
  OBVIOUS
<1>8. /\ Core'
      /\ m_curdl' \in [TabRecords -> Dls \cup {NoDl}]
      /\ dls' \in [Dls -> DlRecords]
      /\ m_dlactive' \in Seq(Dls)
  BY <1>3, <1>4, <1>5, <1>6, <1>7, LoadKeeps
<1>9. TypeOK'
  BY <1>8 DEF Inv, TypeOK, DlRecords
<1>10. TabsOnce' /\ TimersOfTabs'
  BY <1>3, <1>4 DEF Inv, TabsOnce, TimersOfTabs
<1> QED
  BY <1>8, <1>9, <1>10 DEF Inv

LEMMA RefreshKeeps ==
    ASSUME Inv, Refresh
    PROVE  Inv'
<1>1. /\ m_histindex[CurTab] > 0
      /\ Load(CurTab, GetCurHist(CurTab), {})
      /\ UNCHANGED <<m_tabrecords, m_curtab, m_histindex, m_histend, m_history,
                     windows, m_gomenu>>
  BY DEF Refresh
<1>2. /\ windows' \in Seq(Dls) /\ ToSet(windows') = W \ {} /\ IsInjective(windows')
      /\ {} \in SUBSET W
  BY <1>1, CoreFacts DEF Inv, TypeOK, W
<1> QED
  BY <1>1, <1>2, LoadAgain

\* The requester on top is closed.
LEMMA CloseWindowFacts ==
    ASSUME Inv, RequesterOnTop, CloseWindow
    PROVE  /\ Last(windows) \in W
           /\ windows' \in Seq(Dls)
           /\ ToSet(windows') = W \ {Last(windows)} /\ IsInjective(windows')
<1>1. windows \in Seq(Dls) /\ windows # <<>> /\ IsInjective(windows)
  BY CoreFacts DEF Inv, TypeOK, RequesterOnTop
<1>2. windows' = Front(windows)
  BY DEF CloseWindow
<1> QED
  BY <1>1, <1>2, FrontSet DEF W

LEMMA AuthenticateOKKeeps ==
    ASSUME Inv, AuthenticateOK
    PROVE  Inv'
<1>1. RequesterOnTop /\ CloseWindow
  BY DEF AuthenticateOK
<1>2. PICK d \in W : d = Last(windows)
  BY <1>1, CloseWindowFacts
<1>3. windows' \in Seq(Dls) /\ ToSet(windows') = W \ {d} /\ IsInjective(windows')
      /\ {d} \in SUBSET W
  BY <1>1, <1>2, CloseWindowFacts
<1>4. /\ m_histindex[CurTab] > 0
      /\ Load(CurTab, GetCurHist(CurTab), {d})
      /\ UNCHANGED <<m_tabrecords, m_curtab, m_histindex, m_histend, m_history, m_gomenu>>
  BY <1>2 DEF AuthenticateOK
<1> QED
  BY <1>3, <1>4, LoadAgain

\* The requester on top is closed without a load; its tab may show something.
LEMMA GiveUpKeeps ==
    ASSUME Inv, AuthenticateCancel \/ AuthenticateClose
    PROVE  Inv'
<1>1. RequesterOnTop /\ CloseWindow
  BY DEF AuthenticateCancel, AuthenticateClose
<1>2. PICK d \in W : d = Last(windows)
  BY <1>1, CloseWindowFacts
<1>3. windows' \in Seq(Dls) /\ ToSet(windows') = W \ {d} /\ IsInjective(windows')
      /\ {d} \in SUBSET W /\ {} \in SUBSET TabRecords
  BY <1>1, <1>2, CloseWindowFacts
<1>4. /\ dls' = [dls EXCEPT ![d] = FreeDl]
      /\ UNCHANGED <<m_tabrecords, m_curtab, m_histindex, m_histend, m_history,
                     m_curdl, m_dlactive, m_gomenu>>
  BY <1>2 DEF AuthenticateCancel, AuthenticateClose, Freed, records
<1>5. dls[d].tab \in Open
  BY CoreFacts
<1>6. refreshing' \subseteq refreshing \cup {dls[d].tab}
  BY <1>2 DEF AuthenticateCancel, AuthenticateClose, Goto, Asking
<1>7. dls \in [Dls -> DlRecords] /\ d \in Dls
  BY CoreFacts DEF Inv, TypeOK, DlRecords
<1>8. dls' \in [Dls -> DlRecords]
  BY <1>4, <1>7, FreeDlType
<1>9. \A e \in Dls : dls'[e] =
         IF e \in {d} THEN FreeDl
         ELSE IF \E x \in {} : e = m_curdl[x] THEN [dls[e] EXCEPT !.tab = NoTab]
         ELSE dls[e]
  BY <1>4, <1>7
<1>10. \A x \in TabRecords : m_curdl'[x] = IF x \in {} THEN NoDl ELSE m_curdl[x]
  BY <1>4
<1>11. \A x \in TabRecords : GetCurHist(x)' = GetCurHist(x)
  BY <1>4 DEF GetCurHist
<1>12. Open' = Open /\ \A x \in Open : m_histindex[x] > 0 => m_histindex'[x] > 0
  BY <1>4 DEF Open
<1>13. m_dlactive' = m_dlactive
  BY <1>4
<1>14. Core'
  BY <1>3, <1>9, <1>10, <1>11, <1>12, <1>13, FewerKeepCore
<1>15. TypeOK'
  BY <1>3, <1>4, <1>8 DEF Inv, TypeOK, DlRecords
<1>16. TabsOnce' /\ TimersOfTabs'
  BY <1>4, <1>5, <1>6, <1>12 DEF Inv, TabsOnce, TimersOfTabs
<1> QED
  BY <1>14, <1>15, <1>16 DEF Inv

LEMMA DownloadEndsKeeps ==
    ASSUME Inv, NEW d \in Dls, DownloadEnds(d)
    PROVE  Inv'
<1>1. /\ dls[d].state = "loading" /\ dls' = [dls EXCEPT ![d].state = "ended"]
      /\ UNCHANGED <<m_tabrecords, m_curtab, m_histindex, m_histend, m_history,
                     m_curdl, m_dlactive, refreshing, windows, m_gomenu>>
  BY DEF DownloadEnds, records
<1>2. dls \in [Dls -> DlRecords]
  BY DEF Inv, TypeOK, DlRecords
<1>3. dls'[d] = [tab |-> dls[d].tab, url |-> dls[d].url, state |-> "ended"]
  BY <1>1, <1>2 DEF DlRecords
<1>4. dls' \in [Dls -> DlRecords]
  BY <1>1, <1>2, <1>3 DEF DlRecords
<1>5. \A e \in Dls : /\ dls'[e].tab = dls[e].tab /\ dls'[e].url = dls[e].url
                     /\ e # d => dls'[e] = dls[e]
  BY <1>1, <1>2, <1>3
<1>6. FreeDl.state = "free"
  BY DEF FreeDl
<1>7. dls'[d].state = "ended" /\ dls[d] # FreeDl /\ dls'[d] # FreeDl
  BY <1>1, <1>3, <1>6
<1>8. \A e \in Dls : dls'[e] # FreeDl <=> dls[e] # FreeDl
  BY <1>5, <1>7
<1>9. /\ A \subseteq Dls /\ W \subseteq Dls
      /\ A' = A /\ W' = W /\ Open' = Open /\ m_histindex' = m_histindex
      /\ m_curdl' = m_curdl
      /\ \A x \in TabRecords : m_curdl[x] # NoDl => m_curdl[x] \in Dls
  BY <1>1, CoreFacts DEF A, W, Open
<1>10. \A x : GetCurHist(x)' = GetCurHist(x)
  BY <1>1 DEF GetCurHist
<1>11. LoadsMatchTabs'
  BY <1>5, <1>9 DEF Inv, Core, LoadsMatchTabs, A
<1>12. LoadIsForCurrentEntry'
  <2>1. ASSUME NEW e \in A, dls'[e].tab # NoTab, NEW x, x = dls'[e].tab
        PROVE  GetCurHist(x)' = dls'[e].url
    <3>1. x = dls[e].tab /\ dls[e].tab # NoTab /\ dls'[e].url = dls[e].url
      BY <2>1, <1>5, <1>9
    <3>2. GetCurHist(x) = dls[e].url
      BY <3>1, CoreFacts
    <3> QED
      BY <3>1, <3>2, <1>10
  <2>2. \A e \in A : dls'[e].tab # NoTab => GetCurHist(dls[e].tab)' = dls'[e].url
    BY <2>1
  <2> QED
    BY <1>9, <2>2 DEF LoadIsForCurrentEntry, A
<1>13. OneOwnerEach'
  BY <1>1, <1>8 DEF Inv, Core, OneOwnerEach
<1>14. RequesterTabExists'
  BY <1>5, <1>9 DEF Inv, Core, RequesterTabExists, W
<1>15. InUse'
  BY <1>5, <1>7, <1>8 DEF Inv, Core, InUse
<1>16. EntriesShown'
  BY <1>5, <1>9 DEF Inv, Core, EntriesShown, A
<1>17. Core'
  BY <1>11, <1>12, <1>13, <1>14, <1>15, <1>16 DEF Core
<1>18. TypeOK'
  BY <1>1, <1>4 DEF Inv, TypeOK, DlRecords
<1>19. TabsOnce' /\ TimersOfTabs'
  BY <1>1 DEF Inv, TabsOnce, TimersOfTabs, Open
<1> QED
  BY <1>17, <1>18, <1>19 DEF Inv

LEMMA UpdateKeeps ==
    ASSUME Inv, NEW d \in Dls, Update(d)
    PROVE  Inv'
<1>1. PICK i \in 1..Len(m_dlactive) :
         m_dlactive[i] = d /\ m_dlactive' = RemoveAt(m_dlactive, i)
  BY DEF Update
<1>2. UNCHANGED <<m_tabrecords, m_curtab, m_histindex, m_histend, m_gomenu>>
  BY DEF Update
<1>3. /\ m_dlactive \in Seq(Dls) /\ windows \in Seq(Dls)
      /\ m_curdl \in [TabRecords -> Dls \cup {NoDl}] /\ dls \in [Dls -> DlRecords]
      /\ m_history \in [TabRecords -> [1..MaxPages -> Urls \cup {NoUrl}]]
      /\ IsInjective(m_dlactive) /\ IsInjective(windows)
  BY CoreFacts DEF Inv, TypeOK, DlRecords
<1>4. /\ m_dlactive' \in Seq(Dls)
      /\ ToSet(m_dlactive') = A \ {d} /\ IsInjective(m_dlactive')
  BY <1>1, <1>3, RemoveSet DEF A
<1>5. d \in A
  <2>1. i \in DOMAIN m_dlactive
    BY <1>1, <1>3
  <2> QED
    BY <1>1, <2>1 DEF A, ToSet
<1>6. Open' = Open
  BY <1>2 DEF Open
\* The three things that can become of d.
<1>7. PICK kept \in SUBSET {d} :
         /\ kept # {} => dls[d].tab # NoTab
         /\ dls' = IF d \in kept THEN dls ELSE [dls EXCEPT ![d] = FreeDl]
         /\ windows' = IF d \in kept THEN Append(windows, d) ELSE windows
         /\ m_curdl' = [x \in TabRecords |-> IF x = dls[d].tab THEN NoDl ELSE m_curdl[x]]
         /\ m_history' \in [TabRecords -> [1..MaxPages -> Urls \cup {NoUrl}]]
         /\ \A x \in TabRecords : x # dls[d].tab => m_history'[x] = m_history[x]
         /\ refreshing' \subseteq refreshing \cup Open
  <2>1. CASE dls[d].tab = NoTab
    <3>1. /\ dls' = [dls EXCEPT ![d] = FreeDl]
          /\ UNCHANGED <<m_curdl, m_history, refreshing, windows>>
      BY <2>1 DEF Update, Freed
    <3>2. m_curdl' = [x \in TabRecords |-> IF x = dls[d].tab THEN NoDl ELSE m_curdl[x]]
      BY <1>3, <2>1, <3>1, NothingAssumption
    <3>3. WITNESS {} \in SUBSET {d}
    <3> QED
      BY <1>3, <3>1, <3>2
  <2>2. CASE dls[d].tab # NoTab
    <3>1. PICK t \in Open : t = dls[d].tab
      BY <1>5, <2>2, CoreFacts
    <3>2. t \in TabRecords
      BY CoreFacts
    <3>3. PageLoaded(d)
      BY <2>2 DEF Update
    <3>4. m_curdl' = [m_curdl EXCEPT ![t] = NoDl]
      BY <3>1, <3>3 DEF PageLoaded
    <3>5. m_curdl' = [x \in TabRecords |-> IF x = dls[d].tab THEN NoDl ELSE m_curdl[x]]
      BY <1>3, <3>1, <3>2, <3>4
    <3>6. CASE AskForPassword(d)
      <4>1. /\ dls' = dls /\ windows' = Append(windows, d)
            /\ UNCHANGED <<m_history, refreshing>>
        BY <3>6 DEF AskForPassword
      <4>2. WITNESS {d} \in SUBSET {d}
      <4> QED
        BY <1>3, <2>2, <3>5, <4>1
    <3>7. CASE ShowNothing(d)
      <4>1. /\ dls' = [dls EXCEPT ![d] = FreeDl]
            /\ UNCHANGED <<windows, m_history, refreshing>>
        BY <3>7 DEF ShowNothing, Freed
      <4>2. WITNESS {} \in SUBSET {d}
      <4> QED
        BY <1>3, <3>5, <4>1
    <3>8. CASE \E u \in Urls \cup {NoUrl} : ShowPage(d, u)
      <4>1. PICK u \in Urls \cup {NoUrl} : ShowPage(d, u)
        BY <3>8
      <4>2. /\ m_history' = [m_history EXCEPT ![t] =
                                [m_history[t] EXCEPT ![m_histindex[t]] = u]]
            /\ refreshing' \subseteq refreshing \cup {t}
            /\ dls' = [dls EXCEPT ![d] = FreeDl]
            /\ windows' = windows
        BY <3>1, <4>1, <1>3, <3>2 DEF ShowPage, Goto, Freed
      <4>3. [m_history[t] EXCEPT ![m_histindex[t]] = u]
               \in [1..MaxPages -> Urls \cup {NoUrl}]
        BY <1>3, <3>2
      <4>4. /\ m_history' \in [TabRecords -> [1..MaxPages -> Urls \cup {NoUrl}]]
            /\ \A x \in TabRecords : x # t => m_history'[x] = m_history[x]
        BY <1>3, <3>2, <4>2, <4>3
      <4>5. WITNESS {} \in SUBSET {d}
      <4> QED
        BY <3>1, <3>5, <4>2, <4>4
    <3>9. GetCurHist(t) \in Urls \cup {NoUrl}
      BY <3>2, GetCurHistType
    <3> QED
      BY <3>1, <3>3, <3>6, <3>7, <3>8, <3>9 DEF PageLoaded
  <2> QED
    BY <2>1, <2>2
<1>8. \A e \in Dls : dls'[e] = IF e = d /\ d \notin kept THEN FreeDl ELSE dls[e]
  BY <1>3, <1>7
<1>9. dls' \in [Dls -> DlRecords] /\ m_curdl' \in [TabRecords -> Dls \cup {NoDl}]
  BY <1>3, <1>7, FreeDlType
<1>10. /\ windows' \in Seq(Dls)
       /\ ToSet(windows') = W \cup kept /\ IsInjective(windows')
  <2>1. CASE d \in kept
    <3>1. d \notin W /\ kept = {d} /\ windows' = Append(windows, d)
      BY <1>5, <1>7, <2>1, CoreFacts
    <3> QED
      BY <1>3, <3>1, AppendSet DEF W
  <2>2. CASE d \notin kept
    <3>1. kept = {} /\ windows' = windows
      BY <1>7, <2>2
    <3> QED
      BY <1>3, <3>1 DEF W
  <2> QED
    BY <2>1, <2>2
<1>11. \A x \in TabRecords : x # dls[d].tab => GetCurHist(x)' = GetCurHist(x)
  BY <1>2, <1>7 DEF GetCurHist
<1>12. \A x \in TabRecords : m_curdl'[x] = IF x = dls[d].tab THEN NoDl ELSE m_curdl[x]
  BY <1>7
<1>13. Core'
  BY <1>2, <1>4, <1>5, <1>6, <1>7, <1>8, <1>10, <1>11, <1>12, UpdateKeepsCore
<1>14. TypeOK'
  BY <1>2, <1>4, <1>7, <1>9, <1>10 DEF Inv, TypeOK, DlRecords
<1>15. TabsOnce' /\ TimersOfTabs'
  BY <1>2, <1>6, <1>7 DEF Inv, TabsOnce, TimersOfTabs
<1> QED
  BY <1>13, <1>14, <1>15 DEF Inv

-----------------------------------------------------------------------------
LEMMA NextKeeps == Inv /\ [Next]_vars => Inv'
<1> SUFFICES ASSUME Inv, [Next]_vars PROVE Inv'
  OBVIOUS
<1>1. CASE UNCHANGED vars
  <2>1. m_curtab \in 1..Len(m_tabrecords) /\ m_gomenu \subseteq 1..MaxPages
    BY DEF Inv, TypeOK
  <2> QED
    BY <1>1, <2>1, LookingKeeps DEF vars
<1>2. ASSUME NEW u \in Urls, UrlChanged(u) \/ ClickLink(u) \/ ClickNewTab(u)
      PROVE  Inv'
  BY <1>2, UrlChangedKeeps, ClickNewTabKeeps
<1>3. CASE NewTab \/ CloseTab \/ Refresh
  BY <1>3, NewTabKeeps, CloseTabKeeps, RefreshKeeps
<1>4. CASE GoBack \/ GoForward \/ DoGotoMenu
  BY <1>4, HistoryKeeps
<1>5. CASE TabChanged \/ GoBackMenu \/ GoForwardMenu \/ LeaveMenu \/ AuthenticateNoPage
  <2>1. /\ m_curtab \in 1..Len(m_tabrecords) /\ m_gomenu \subseteq 1..MaxPages
        /\ m_histindex \in [TabRecords -> 0..MaxPages]
        /\ m_histend \in [TabRecords -> 0..MaxPages] /\ CurTab \in TabRecords
    BY CurTabOpen DEF Inv, TypeOK
  <2>2. UNCHANGED <<m_tabrecords, records, dls, m_dlactive, refreshing, windows>>
    BY <1>5 DEF TabChanged, GoBackMenu, GoForwardMenu, LeaveMenu, AuthenticateNoPage
  <2>3. m_curtab' \in 1..Len(m_tabrecords)
    BY <1>5, <2>1 DEF TabChanged, GoBackMenu, GoForwardMenu, LeaveMenu, AuthenticateNoPage
  <2>4. m_gomenu' \subseteq 1..MaxPages
    <3>1. PICK i \in 0..MaxPages, e \in 0..MaxPages :
             i = m_histindex[CurTab] /\ e = m_histend[CurTab]
      BY <2>1
    <3>2. 1..(i - 1) \subseteq 1..MaxPages /\ (i + 1)..e \subseteq 1..MaxPages
      BY PagesAssumption
    <3> QED
      BY <1>5, <2>1, <3>1, <3>2
         DEF TabChanged, GoBackMenu, GoForwardMenu, LeaveMenu, AuthenticateNoPage
  <2> QED
    BY <2>2, <2>3, <2>4, LookingKeeps
<1>6. CASE AuthenticateOK \/ AuthenticateCancel \/ AuthenticateClose
  BY <1>6, AuthenticateOKKeeps, GiveUpKeeps
<1>7. ASSUME NEW t \in TabRecords, NEW u \in Urls, TimerEvent(t, u) PROVE Inv'
  BY <1>7, TimerEventKeeps
<1>8. ASSUME NEW d \in Dls, DownloadEnds(d) \/ Update(d) PROVE Inv'
  BY <1>8, DownloadEndsKeeps, UpdateKeeps
<1> QED
  BY <1>1, <1>2, <1>3, <1>4, <1>5, <1>6, <1>7, <1>8 DEF Next, UserAction

\* The tabs, the list of downloads and the requesters agree in every state the
\* user, the timers and the downloads can bring about.
THEOREM InvHolds == Spec => []Inv
<1>1. Init => Inv
  BY InitInv
<1>2. Inv /\ [Next]_vars => Inv'
  BY NextKeeps
<1> QED
  BY <1>1, <1>2, PTL DEF Spec

\* The variables have their types.
THEOREM TypeOKHolds == Spec => []TypeOK
<1>1. Inv => TypeOK
  BY DEF Inv
<1> QED
  BY <1>1, InvHolds, PTL

\* No tab waits for a download Update does not know, and no download is for a
\* tab that is closed or that waits for another one.
THEOREM LoadsMatchTabsHolds == Spec => []LoadsMatchTabs
<1>1. Inv => LoadsMatchTabs
  BY DEF Inv, Core
<1> QED
  BY <1>1, InvHolds, PTL

\* A page is written into the history entry it was loaded for.
THEOREM LoadIsForCurrentEntryHolds == Spec => []LoadIsForCurrentEntry
<1>1. Inv => LoadIsForCurrentEntry
  BY DEF Inv, Core
<1> QED
  BY <1>1, InvHolds, PTL

\* Every record of a download is freed once, by Update or by the requester
\* that keeps it.
THEOREM OneOwnerEachHolds == Spec => []OneOwnerEach
<1>1. Inv => OneOwnerEach
  BY DEF Inv, Core
<1> QED
  BY <1>1, InvHolds, PTL

\* The tab a requester asks for is open and has the entry for the error page.
THEOREM RequesterTabExistsHolds == Spec => []RequesterTabExists
<1>1. Inv => RequesterTabExists
  BY DEF Inv, Core
<1> QED
  BY <1>1, InvHolds, PTL
=============================================================================
