---------------------------- MODULE ScreenProofs ----------------------------
(***************************************************************************)
(* The properties of the frame: of UpdateTasks for any finite set of        *)
(* objects, and of DirtyRects for any surface, any size of the array and    *)
(* any list of areas.                                                      *)
(*                                                                         *)
(* The tasks' properties hold together: the flags keep the list free of     *)
(* repetitions, so a removal takes one entry off, so the loop's index       *)
(* divides the list into what the frame has passed and what is to come.     *)
(*                                                                         *)
(* The properties of the dirty areas rest on what one call of Dirty does to *)
(* the array (Result below), which is proved of a call from what it is for  *)
(* the calls it makes, and so, as each of these has a smaller area, of all. *)
(***************************************************************************)
EXTENDS UpdateTasks, DirtyRects, WellFoundedInduction, SequenceTheorems,
        FiniteSetTheorems, TLAPS

Once(list) == \A j, k \in 1..Len(list) : list[j] = list[k] => j = k

LoopOK == running # NoObj => i > 0

\* The frame has passed the place k.
Passed(k) == i > 0 /\ (k < i \/ (k = i /\ running # NoObj))

\* One for a task that EndFrame will count as skipped already.
Missed(k) == IF Passed(k) /\ m_updatetasks[k] \notin called THEN 1 ELSE 0

SkipsCounted ==
    \A k \in 1..num :
        skipped[m_updatetasks[k]] + k + Missed(k) <= Cardinality(Objs) + 1

Inv == TypeOK /\ LoopOK /\ TasksMatchFlags /\ NotCalledAgain /\ SkipsCounted

-----------------------------------------------------------------------------
(* What the two changes of the list do to it.                              *)

LEMMA WithoutEntry ==
    ASSUME NEW list \in Seq(Objs), NEW p \in 1..Len(list)
    PROVE  /\ RemoveAt(list, p) \in Seq(Objs)
           /\ Len(RemoveAt(list, p)) = Len(list) - 1
           /\ \A j \in 1..(Len(list) - 1) :
                 RemoveAt(list, p)[j] = IF j < p THEN list[j] ELSE list[j + 1]
<1> DEFINE front == SubSeq(list, 1, p - 1)
           back == SubSeq(list, p + 1, Len(list))
<1>1. Len(list) \in Nat /\ p \in Nat /\ p >= 1 /\ p <= Len(list)
  OBVIOUS
<1>2. /\ front \in Seq(Objs) /\ Len(front) = p - 1
      /\ \A j \in 1..(p - 1) : front[j] = list[j]
  BY <1>1
<1>3. /\ back \in Seq(Objs) /\ Len(back) = Len(list) - p
      /\ \A j \in 1..(Len(list) - p) : back[j] = list[j + p]
  BY <1>1
<1>4. RemoveAt(list, p) = front \o back
  BY DEF RemoveAt
<1> HIDE DEF front, back
<1> QED
  BY <1>1, <1>2, <1>3, <1>4

\* A list without repetitions has room in 1..Cardinality(Objs).
LEMMA ShortList ==
    ASSUME NEW list \in Seq(Objs), Once(list)
    PROVE  Len(list) <= Cardinality(Objs)
<1>1. list \in [1..Len(list) -> Objs]
  OBVIOUS
<1>2. \A x, y \in 1..Len(list) : list[x] = list[y] => x = y
  BY DEF Once
<1>3. list \in Injection(1..Len(list), Objs)
  BY <1>1, <1>2 DEF Injection, IsInjective
<1>4. Cardinality(1..Len(list)) <= Cardinality(Objs)
  BY <1>3, FS_Injection, ObjsAssumption
<1>5. Cardinality(1..Len(list)) = Len(list)
  <2>1. Len(list) \in Nat
    OBVIOUS
  <2>2. Cardinality(1..Len(list)) = IF 1 > Len(list) THEN 0 ELSE Len(list) - 1 + 1
    BY <2>1, FS_Interval, 1 \in Int, Len(list) \in Int
  <2> QED
    BY <2>1, <2>2
<1> QED
  BY <1>4, <1>5

\* AddUpdateTask: the new task comes last, and there is room for it to be skipped.
LEMMA AddKeepsInv ==
    ASSUME Inv, NEW o \in Objs, AddUpdateTask(o), ~Listed(o),
           o \in alive, alive' = alive, m_active' = [m_active EXCEPT ![o] = TRUE],
           UNCHANGED <<i, running>>
    PROVE  Inv'
<1> USE DEF Inv
<1>1. /\ m_updatetasks' = Append(m_updatetasks, o)
      /\ called' = called \ {o}
      /\ skipped' = [skipped EXCEPT ![o] = 0]
  BY DEF AddUpdateTask
<1>2. m_updatetasks \in Seq(Objs) /\ num \in Nat
  BY DEF TypeOK, num
<1>3. /\ m_updatetasks' \in Seq(Objs)
      /\ num' = num + 1
      /\ m_updatetasks'[num + 1] = o
      /\ \A k \in 1..num : m_updatetasks'[k] = m_updatetasks[k] /\ m_updatetasks[k] # o
  BY <1>1, <1>2 DEF num, Listed
<1>4. TypeOK'
  BY <1>1, <1>3 DEF TypeOK
<1>5. LoopOK'
  BY DEF LoopOK
<1>6. TasksMatchFlags'
  <2>1. \A j, k \in 1..num' : m_updatetasks'[j] = m_updatetasks'[k] => j = k
    BY <1>2, <1>3, SMTT(30) DEF TasksMatchFlags
  <2>2. ASSUME NEW x \in Objs
        PROVE  Listed(x)' <=> x \in alive' /\ m_active'[x]
    <3>1. Listed(x)' <=> Listed(x) \/ x = o
      <4>1. ASSUME NEW k \in 1..num', m_updatetasks'[k] = x
            PROVE  Listed(x) \/ x = o
        <5>1. k \in 1..num \/ k = num + 1
          BY <1>2, <1>3
        <5> QED
          BY <1>3, <4>1, <5>1 DEF Listed
      <4>2. ASSUME NEW k \in 1..num, m_updatetasks[k] = x
            PROVE  Listed(x)'
        <5>1. k \in 1..num' /\ m_updatetasks'[k] = x
          BY <1>2, <1>3, <4>2
        <5> QED
          BY <5>1 DEF Listed
      <4>3. num + 1 \in 1..num' /\ m_updatetasks'[num + 1] = o
        BY <1>2, <1>3
      <4>4. Listed(o)'
        BY <1>3, <4>3 DEF Listed
      <4> QED
        BY <4>1, <4>2, <4>4 DEF Listed
    <3>2. m_active'[x] <=> m_active[x] \/ x = o
      BY DEF TypeOK
    <3> QED
      BY <3>1, <3>2 DEF TasksMatchFlags
  <2> QED
    BY <2>1, <2>2 DEF TasksMatchFlags, num
<1>7. NotCalledAgain'
  BY <1>1, <1>2, <1>3 DEF NotCalledAgain, TypeOK
<1>8. SkipsCounted'
  <2>1. Once(m_updatetasks')
    BY <1>6 DEF TasksMatchFlags, Once, num
  <2>2. num + 1 <= Cardinality(Objs) /\ Cardinality(Objs) \in Nat
    BY <1>3, <2>1, ShortList, FS_CardinalityType, ObjsAssumption DEF num
  <2>3. skipped'[o] = 0 /\ \A x \in Objs : x # o => skipped'[x] = skipped[x]
    BY <1>1 DEF TypeOK
  <2>4. ASSUME NEW k \in 1..num
        PROVE  skipped'[m_updatetasks'[k]] + k + Missed(k)' <= Cardinality(Objs) + 1
    <3>1. m_updatetasks[k] \in Objs /\ m_updatetasks'[k] = m_updatetasks[k]
          /\ m_updatetasks[k] # o
      BY <1>2, <1>3 DEF num
    <3>2. Missed(k)' = Missed(k)
      BY <1>1, <3>1 DEF Missed, Passed
    <3> QED
      BY <2>3, <3>1, <3>2 DEF SkipsCounted
  <2>5. \A k \in Nat : Missed(k)' \in {0, 1}
    BY DEF Missed
  <2>6. \A k \in 1..(num + 1) :
            skipped'[m_updatetasks'[k]] + k + Missed(k)' <= Cardinality(Objs) + 1
    <3> TAKE k \in 1..(num + 1)
    <3>1. CASE k \in 1..num
      BY <2>4, <3>1
    <3>2. CASE k = num + 1
      BY <1>2, <1>3, <2>2, <2>3, <2>5, <3>2
    <3> QED
      BY <1>2, <3>1, <3>2
  <2> QED
    BY <1>3, <2>6 DEF SkipsCounted
<1> QED
  BY <1>4, <1>5, <1>6, <1>7, <1>8

\* DelUpdateTask: the tasks behind the removed one come a place nearer, and one
\* of them may come to a place that the frame has passed.
LEMMA DelKeepsInv ==
    ASSUME Inv, NEW o \in Objs, DelUpdateTask(o), o \in alive, m_active[o],
           m_active' = [m_active EXCEPT ![o] = FALSE],
           alive' = alive \/ alive' = alive \ {o},
           UNCHANGED <<i, running>>
    PROVE  Inv'
<1> USE DEF Inv
<1> DEFINE p == Place(o)
<1>1. Listed(o)
  BY DEF TasksMatchFlags
<1>2. p \in 1..num /\ m_updatetasks[p] = o
  BY <1>1 DEF Listed, Place
<1>3. m_updatetasks' = RemoveAt(m_updatetasks, p) /\ called' = called /\ skipped' = skipped
  BY <1>1 DEF DelUpdateTask
<1> HIDE DEF p
<1>4. m_updatetasks \in Seq(Objs) /\ num \in Nat
  BY DEF TypeOK, num
<1>5. /\ m_updatetasks' \in Seq(Objs)
      /\ num' = num - 1
      /\ \A k \in 1..(num - 1) :
            m_updatetasks'[k] = IF k < p THEN m_updatetasks[k] ELSE m_updatetasks[k + 1]
  BY <1>2, <1>3, <1>4, WithoutEntry DEF num
<1>6. TypeOK'
  BY <1>3, <1>5 DEF TypeOK
<1>7. LoopOK'
  BY DEF LoopOK
<1>8. TasksMatchFlags'
  <2>1. \A j, k \in 1..num : m_updatetasks[j] = m_updatetasks[k] => j = k
    BY DEF TasksMatchFlags
  <2>2. \A j, k \in 1..num' : m_updatetasks'[j] = m_updatetasks'[k] => j = k
    BY <1>2, <1>4, <1>5, <2>1
  <2>3. ASSUME NEW x \in Objs
        PROVE  Listed(x)' <=> x \in alive' /\ m_active'[x]
    <3>1. Listed(x)' <=> Listed(x) /\ x # o
      <4>1. ASSUME NEW k \in 1..num', m_updatetasks'[k] = x
            PROVE  Listed(x) /\ x # o
        BY <1>2, <1>4, <1>5, <2>1, <4>1 DEF Listed
      <4>2. ASSUME NEW k \in 1..num, m_updatetasks[k] = x, x # o
            PROVE  Listed(x)'
        <5>1. CASE k < p
          <6>1. k \in 1..num' /\ m_updatetasks'[k] = x
            BY <1>2, <1>4, <1>5, <4>2, <5>1
          <6> QED
            BY <6>1 DEF Listed
        <5>2. CASE k > p
          <6>1. k - 1 \in 1..num' /\ m_updatetasks'[k - 1] = x
            BY <1>2, <1>4, <1>5, <4>2, <5>2
          <6> QED
            BY <6>1 DEF Listed
        <5>3. k # p
          BY <1>2, <4>2
        <5> QED
          BY <1>2, <5>1, <5>2, <5>3
      <4> QED
        BY <4>1, <4>2 DEF Listed
    <3>2. m_active'[x] <=> m_active[x] /\ x # o
      BY DEF TypeOK
    <3> QED
      BY <3>1, <3>2 DEF TasksMatchFlags
  <2> QED
    BY <2>2, <2>3 DEF TasksMatchFlags, num
<1>9. NotCalledAgain'
  <2> SUFFICES ASSUME i' > 0, NEW k \in 1..num', m_updatetasks'[k] \in called'
               PROVE  k < i' \/ (k = i' /\ running' # NoObj)
    BY DEF NotCalledAgain
  <2>1. i \in Nat /\ k \in 1..(num - 1)
    BY <1>5 DEF TypeOK
  <2>2. CASE k < p
    <3>1. k \in 1..num /\ m_updatetasks[k] \in called
      BY <1>2, <1>3, <1>4, <1>5, <2>1, <2>2
    <3> QED
      BY <3>1 DEF NotCalledAgain
  <2>3. CASE k >= p
    <3>1. k + 1 \in 1..num /\ m_updatetasks[k + 1] \in called
      BY <1>2, <1>3, <1>4, <1>5, <2>1, <2>3
    <3>2. k + 1 <= i
      BY <2>1, <3>1 DEF NotCalledAgain
    <3> QED
      BY <2>1, <3>2
  <2> QED
    BY <1>2, <2>1, <2>2, <2>3
<1>10. SkipsCounted'
  <2>1. ASSUME NEW k \in 1..(num - 1)
        PROVE  skipped'[m_updatetasks'[k]] + k + Missed(k)' <= Cardinality(Objs) + 1
    <3>1. CASE k < p
      <4>1. k \in 1..num /\ m_updatetasks'[k] = m_updatetasks[k]
        BY <1>4, <1>5, <3>1
      <4>2. Missed(k)' = Missed(k)
        BY <1>3, <4>1 DEF Missed, Passed
      <4> QED
        BY <1>3, <4>1, <4>2 DEF SkipsCounted
    <3>2. CASE k >= p
      <4>1. k + 1 \in 1..num /\ m_updatetasks'[k] = m_updatetasks[k + 1]
        BY <1>2, <1>4, <1>5, <3>2
      <4>2. m_updatetasks[k + 1] \in Objs
        BY <1>4, <4>1 DEF num
      <4>3. Missed(k)' <= Missed(k + 1) + 1
        BY DEF Missed
      <4>4. skipped[m_updatetasks[k + 1]] + (k + 1) + Missed(k + 1) <= Cardinality(Objs) + 1
        BY <4>1 DEF SkipsCounted
      <4>5. /\ Missed(k)' \in Nat /\ Missed(k + 1) \in Nat
            /\ skipped[m_updatetasks[k + 1]] \in Nat /\ Cardinality(Objs) \in Nat
        BY <4>2, FS_CardinalityType, ObjsAssumption DEF Missed, TypeOK
      <4> HIDE DEF Inv
      <4> QED
        BY <1>3, <4>1, <4>3, <4>4, <4>5
    <3> QED
      BY <1>2, <3>1, <3>2
  <2> QED
    BY <1>5, <2>1 DEF SkipsCounted
<1> QED
  BY <1>6, <1>7, <1>8, <1>9, <1>10

-----------------------------------------------------------------------------
(* The steps of the loop.                                                  *)

LEMMA FrameKeepsInv ==
    ASSUME Inv, BeginFrame \/ CallTask \/ TaskReturns \/ EndFrame
    PROVE  Inv'
<1> USE DEF Inv
<1>1. m_updatetasks \in Seq(Objs) /\ num \in Nat /\ i \in Nat
  BY DEF TypeOK, num
<1>2. \A k \in 1..num : /\ m_updatetasks[k] \in Objs
                        /\ skipped[m_updatetasks[k]] \in Nat
  BY <1>1 DEF TypeOK, num
<1>3. Cardinality(Objs) \in Nat
  BY FS_CardinalityType, ObjsAssumption
<1>4. m_updatetasks' = m_updatetasks /\ num' = num /\ UNCHANGED <<alive, m_active>>
  BY DEF BeginFrame, CallTask, TaskReturns, EndFrame, num
<1>5. TypeOK'
  <2>1. CASE BeginFrame
    BY <2>1 DEF BeginFrame, TypeOK
  <2>2. CASE CallTask
    BY <1>2, <2>2 DEF CallTask, TypeOK
  <2>3. CASE TaskReturns
    BY <2>3 DEF TaskReturns, TypeOK
  <2>4. CASE EndFrame
    BY <2>4 DEF EndFrame, TypeOK
  <2> QED
    BY <2>1, <2>2, <2>3, <2>4
<1>6. LoopOK'
  BY <1>1 DEF LoopOK, BeginFrame, CallTask, TaskReturns, EndFrame
<1>7. TasksMatchFlags'
  BY <1>4 DEF TasksMatchFlags, Listed
<1>8. NotCalledAgain'
  <2>1. CASE BeginFrame
    BY <2>1 DEF BeginFrame, NotCalledAgain
  <2>2. CASE CallTask
    <3>1. \A j, k \in 1..num : m_updatetasks[j] = m_updatetasks[k] => j = k
      BY DEF TasksMatchFlags
    <3>2. running' # NoObj
      BY <1>2, <2>2, ObjsAssumption DEF CallTask
    <3> QED
      BY <1>1, <1>4, <2>2, <3>1, <3>2 DEF CallTask, NotCalledAgain
  <2>3. CASE TaskReturns
    BY <1>1, <1>4, <2>3 DEF TaskReturns, NotCalledAgain, LoopOK
  <2>4. CASE EndFrame
    BY <2>4 DEF EndFrame, NotCalledAgain
  <2> QED
    BY <2>1, <2>2, <2>3, <2>4
<1>9. SkipsCounted'
  <2> SUFFICES ASSUME NEW k \in 1..num
               PROVE  skipped'[m_updatetasks[k]] + k + Missed(k)' <= Cardinality(Objs) + 1
    BY <1>4 DEF SkipsCounted
  <2>1. skipped[m_updatetasks[k]] + k + Missed(k) <= Cardinality(Objs) + 1
    BY DEF SkipsCounted
  <2>2. Missed(k)' \in {0, 1} /\ Missed(k) \in {0, 1}
    BY DEF Missed
  <2>3. CASE BeginFrame
    <3>1. Missed(k)' = 0 /\ skipped' = skipped
      BY <1>1, <2>3, ObjsAssumption DEF BeginFrame, Missed, Passed, LoopOK
    <3> QED
      BY <1>2, <1>3, <2>1, <2>2, <3>1
  <2>4. CASE CallTask
    <3>1. Missed(k)' <= Missed(k) /\ skipped' = skipped
      BY <1>1, <1>4, <2>4 DEF CallTask, Missed, Passed
    <3> QED
      BY <1>2, <1>3, <2>1, <2>2, <3>1
  <2>5. CASE TaskReturns
    <3>1. Missed(k)' = Missed(k) /\ skipped' = skipped
      BY <1>1, <1>4, <2>5 DEF TaskReturns, Missed, Passed, LoopOK
    <3> QED
      BY <1>2, <1>3, <2>1, <2>2, <3>1
  <2>6. CASE EndFrame
    <3>1. i > 0 /\ k < i
      BY <1>1, <2>6 DEF EndFrame
    <3>2. skipped'[m_updatetasks[k]] = skipped[m_updatetasks[k]] + Missed(k)
      BY <1>1, <1>2, <2>6, <3>1 DEF EndFrame, Missed, Passed, Listed
    <3>3. Missed(k)' = 0
      BY <2>6 DEF EndFrame, Missed, Passed
    <3> QED
      BY <1>2, <1>3, <2>1, <2>2, <3>2, <3>3
  <2> QED
    BY <2>3, <2>4, <2>5, <2>6
<1> QED
  BY <1>5, <1>6, <1>7, <1>8, <1>9

-----------------------------------------------------------------------------
LEMMA InitHolds == Init => Inv
<1> SUFFICES ASSUME Init PROVE Inv
  OBVIOUS
<1> USE DEF Init
<1>1. num = 0 /\ m_updatetasks \in Seq(Objs)
  BY DEF num
<1> QED
  BY <1>1 DEF Inv, TypeOK, LoopOK, TasksMatchFlags, Listed, NotCalledAgain, SkipsCounted

LEMMA StepKeepsInv == Inv /\ [Next]_vars => Inv'
<1> SUFFICES ASSUME Inv, [Next]_vars PROVE Inv'
  OBVIOUS
<1>1. CASE UNCHANGED vars
  BY <1>1 DEF vars, Inv, TypeOK, LoopOK, TasksMatchFlags, Listed, NotCalledAgain,
              SkipsCounted, Missed, Passed, num
<1>2. ASSUME NEW o \in Objs, Construct(o) PROVE Inv'
  <2>1. ~m_active'[o] /\ \A x \in Objs \ {o} : m_active'[x] = m_active[x]
    BY <1>2 DEF Construct, Inv, TypeOK
  <2>2. UNCHANGED <<m_updatetasks, i, running, called, skipped>> /\ num' = num
    BY <1>2 DEF Construct, num
  <2>3. TypeOK'
    BY <1>2 DEF Construct, Inv, TypeOK
  <2>4. TasksMatchFlags'
    BY <1>2, <2>1, <2>2 DEF Construct, Inv, TasksMatchFlags, Listed
  <2> QED
    BY <2>2, <2>3, <2>4 DEF Inv, LoopOK, NotCalledAgain, SkipsCounted, Missed, Passed
<1>3. ASSUME NEW o \in Objs, Start(o) PROVE Inv'
  <2>1. ~Listed(o)
    BY <1>3 DEF Start, Inv, TasksMatchFlags
  <2> QED
    BY <1>3, <2>1, AddKeepsInv DEF Start
<1>4. ASSUME NEW o \in Objs, Stop(o) PROVE Inv'
  BY <1>4, DelKeepsInv DEF Stop
<1>5. ASSUME NEW o \in Objs, Destroy(o) PROVE Inv'
  <2>1. CASE m_active[o]
    BY <1>5, <2>1, DelKeepsInv DEF Destroy
  <2>2. CASE ~m_active[o]
    <3>1. UNCHANGED <<m_updatetasks, i, running, m_active, called, skipped>> /\ num' = num
      BY <1>5, <2>2 DEF Destroy, num
    <3>2. TypeOK' /\ TasksMatchFlags'
      BY <1>5, <2>2, <3>1 DEF Destroy, Inv, TypeOK, TasksMatchFlags, Listed
    <3> QED
      BY <3>1, <3>2 DEF Inv, LoopOK, NotCalledAgain, SkipsCounted, Missed, Passed
  <2> QED
    BY <2>1, <2>2
<1>6. CASE BeginFrame \/ CallTask \/ TaskReturns \/ EndFrame
  BY <1>6, FrameKeepsInv
<1> QED
  BY <1>1, <1>2, <1>3, <1>4, <1>5, <1>6 DEF Next

\* The three properties, and the types, of every reachable state.
THEOREM InvHolds == Spec => []Inv
BY InitHolds, StepKeepsInv, PTL DEF Spec

\* DelUpdateTask finds its task, and no callback of a destroyed object is called:
\* the list is what the flags of the living objects say.
THEOREM TasksMatchFlagsHolds == Spec => []TasksMatchFlags
<1>1. Inv => TasksMatchFlags
  BY DEF Inv
<1> QED
  BY <1>1, InvHolds, PTL

\* Removals during the loop of UpdateInput do not make it call a task twice.
THEOREM NotCalledAgainHolds == Spec => []NotCalledAgain
<1>1. Inv => NotCalledAgain
  BY DEF Inv
<1> QED
  BY <1>1, InvHolds, PTL

\* However many frames there are and whatever they remove, a listed task has been
\* passed over in at most as many frames as there are objects.
THEOREM SkipsAreBoundedHolds == Spec => []SkipsAreBounded
<1>1. Inv => SkipsAreBounded
  <2> SUFFICES ASSUME Inv, NEW o \in Objs, NEW k \in 1..num, m_updatetasks[k] = o
               PROVE  skipped[o] + k <= Cardinality(Objs) + 1
    BY DEF SkipsAreBounded
  <2>1. skipped[o] \in Nat /\ k \in Nat /\ Cardinality(Objs) \in Nat
    BY FS_CardinalityType, ObjsAssumption DEF Inv, TypeOK
  <2>2. skipped[o] + k + Missed(k) <= Cardinality(Objs) + 1
    BY DEF Inv, SkipsCounted
  <2>3. Missed(k) \in {0, 1}
    BY DEF Missed
  <2> QED
    BY <2>1, <2>2, <2>3
<1> QED
  BY <1>1, InvHolds, PTL

-----------------------------------------------------------------------------
(* The dirty rectangles: facts of areas.                                     *)

(* A set of numbers has a least one, which Min chooses.                     *)
LEMMA LeastOne ==
    ASSUME NEW T, T \subseteq Nat, T # {}
    PROVE  \E x \in T : \A y \in T : x <= y
<1> DEFINE R == {p \in Nat \X Nat : p[1] < p[2]}
<1>1. IsWellFoundedOn(R, Nat)
  BY NatLessThanWellFounded DEF OpToRel
<1>2. \A x \in Nat, y \in Nat : y < x => <<y, x>> \in R
  OBVIOUS
<1> HIDE DEF R
<1>3. PICK x \in T : \A y \in T : ~(<<y, x>> \in R)
  BY <1>1, WFMin
<1>4. ASSUME NEW y \in T PROVE x <= y
  <2>1. x \in Nat /\ y \in Nat
    OBVIOUS
  <2>2. ~(y < x)
    BY <1>2, <1>3, <2>1
  <2> QED
    BY <2>1, <2>2
<1> QED
  BY <1>3, <1>4

LEMMA MinIsIn ==
    ASSUME NEW T, T \subseteq Nat, T # {}
    PROVE  Min(T) \in T
BY LeastOne DEF Min

-----------------------------------------------------------------------------
LEMMA CornersType ==
    ASSUME NEW c \in Corners
    PROVE  /\ c.lx \in 0..Width /\ c.rx \in 0..Width
           /\ c.ty \in 0..Height /\ c.by \in 0..Height
           /\ c.lx \in Int /\ c.rx \in Int /\ c.ty \in Int /\ c.by \in Int
           /\ Width \in Nat /\ Height \in Nat /\ Width > 0 /\ Height > 0
BY SurfaceAssumption DEF Corners

LEMMA CornerFields ==
    ASSUME NEW l, NEW u, NEW r, NEW b
    PROVE  /\ Corner(l, u, r, b).lx = l /\ Corner(l, u, r, b).ty = u
           /\ Corner(l, u, r, b).rx = r /\ Corner(l, u, r, b).by = b
BY DEF Corner

LEMMA AroundBoth ==
    ASSUME NEW c \in Corners, NEW e \in Corners
    PROVE  /\ Around(c, e) \in Corners
           /\ Inside(c, Around(c, e)) /\ Inside(e, Around(c, e))
           /\ ValidArea(c) \/ ValidArea(e) => ValidArea(Around(c, e))
BY CornersType DEF Around, Corner, Corners, Smaller, Larger, Inside, ValidArea

LEMMA InsideOrder ==
    ASSUME NEW c \in Corners, NEW d \in Corners, NEW e \in Corners
    PROVE  /\ Inside(c, c) /\ Inside(c, Whole)
           /\ Inside(c, d) /\ Inside(d, e) => Inside(c, e)
           /\ Whole \in Corners /\ ValidArea(Whole)
BY CornersType DEF Corner, Corners, Inside, ValidArea, Whole

In(x, y, e) == e.lx <= x /\ x < e.rx /\ e.ty <= y /\ y < e.by

LEMMA AdjacentUnion ==
    ASSUME NEW c \in Corners, NEW e \in Corners, ValidArea(c), ValidArea(e), Adjacent(c, e)
    PROVE  /\ \A x, y \in Int : In(x, y, Around(c, e)) <=> In(x, y, c) \/ In(x, y, e)
           /\ \A f \in Corners : ValidArea(f) /\ ~Overlap(c, f) /\ ~Overlap(e, f) => ~Overlap(Around(c, e), f)
<1>1. \A x, y \in Int : In(x, y, Around(c, e)) <=> In(x, y, c) \/ In(x, y, e)
  BY CornersType DEF Around, Corner, Smaller, Larger, In, ValidArea, Adjacent
<1>2. ASSUME NEW f \in Corners, ValidArea(f), ~Overlap(c, f), ~Overlap(e, f)
      PROVE ~Overlap(Around(c, e), f)
  BY <1>2, CornersType DEF Around, Corner, Smaller, Larger, Overlap, ValidArea, Adjacent
<1> QED BY <1>1, <1>2

-----------------------------------------------------------------------------
(* Tables.                                                                  *)
AllValid(t) == \A k \in 1..t.n : ValidArea(t.a[k])
Apart(t) == \A j, k \in 1..t.n : j # k => ~Overlap(t.a[j], t.a[k])
Covers(t, x, y) == \E k \in 1..t.n : In(x, y, t.a[k])
IsFull(t) == t.n = 1 /\ t.a[1] = Whole

(* Entries up to m survive the removal of those inside c.                   *)
Firm(t, c, m) == m \in 0..t.n /\ \A k \in 1..m : ~Inside(t.a[k], c)

LEMMA TableType ==
    ASSUME NEW t \in Tables
    PROVE  /\ t.a \in [1..MaxDirty -> Corners] /\ t.n \in 0..MaxDirty
           /\ t.n \in Nat /\ MaxDirty \in Nat /\ MaxDirty > 0
           /\ \A k \in 1..t.n : k \in 1..MaxDirty /\ t.a[k] \in Corners
           /\ t = [a |-> t.a, n |-> t.n]
BY MaxDirtyAssumption DEF Tables

LEMMA TableOf ==
    ASSUME NEW a \in [1..MaxDirty -> Corners], NEW n \in 0..MaxDirty
    PROVE  [a |-> a, n |-> n] \in Tables
BY DEF Tables

LEMMA MovedDownType ==
    ASSUME NEW a \in [1..MaxDirty -> Corners], NEW n \in 1..MaxDirty, NEW d \in 1..n
    PROVE  /\ MovedDown(a, d, n) \in [1..MaxDirty -> Corners]
           /\ \A k \in 1..(d - 1) : MovedDown(a, d, n)[k] = a[k]
           /\ \A k \in d..(n - 1) : MovedDown(a, d, n)[k] = IF CopiesUp THEN a[k + 1] ELSE a[n]
BY MaxDirtyAssumption DEF MovedDown

Start0(t) == [a |-> t.a, n |-> t.n, d |-> 1]
Turn(s, c) ==
    IF Inside(s.a[s.d], c)
    THEN [s EXCEPT !.a = MovedDown(s.a, s.d, s.n), !.n = s.n - 1]
    ELSE [s EXCEPT !.d = s.d + 1]
Turns(t, c, f, m) == f = [k \in 0..m |-> IF k = 0 THEN Start0(t) ELSE Turn(f[k - 1], c)]

LEMMA TurnsExist ==
    ASSUME NEW t, NEW c, NEW m \in Nat
    PROVE  \E f : Turns(t, c, f, m)
<1> DEFINE T == {k \in Nat : ~\E f : Turns(t, c, f, k)}
<1> SUFFICES ASSUME T # {} PROVE FALSE
  OBVIOUS
<1>1. PICK k \in T : \A y \in T : k <= y
  <2> HIDE DEF T
  <2>1. T \subseteq Nat
    BY DEF T
  <2> QED BY <2>1, LeastOne
<1>2. CASE k = 0
  <2> DEFINE f == [j \in 0..0 |-> Start0(t)]
  <2>1. Turns(t, c, f, 0)
    BY DEF Turns
  <2> QED BY <1>2, <2>1
<1>3. CASE k # 0
  <2>1. k - 1 \in Nat /\ k \in Nat /\ k - 1 \notin T
    BY <1>1, <1>3
  <2>2. PICK g : Turns(t, c, g, k - 1)
    BY <2>1
  <2> DEFINE f == [j \in 0..k |-> IF j = 0 THEN Start0(t) ELSE Turn(g[j - 1], c)]
  <2>3. ASSUME NEW j \in 0..(k - 1) PROVE f[j] = g[j]
    BY <2>1, <2>2 DEF Turns
  <2>4. ASSUME NEW j \in 0..k PROVE f[j] = IF j = 0 THEN Start0(t) ELSE Turn(f[j - 1], c)
    <3>1. CASE j = 0 BY <3>1
    <3>2. CASE j # 0
      <4>1. j - 1 \in 0..(k - 1) BY <3>2, <2>1
      <4>2. f[j - 1] = g[j - 1] BY <2>3, <4>1
      <4> QED BY <3>2, <4>2
    <3> QED BY <3>1, <3>2
  <2>5. f = [j \in 0..k |-> f[j]]
    OBVIOUS
  <2>6. Turns(t, c, f, k)
    <3> HIDE DEF f
    <3> QED BY <2>4, <2>5 DEF Turns
  <2> QED BY <2>6
<1> QED BY <1>2, <1>3

(* What the loop that removes entries keeps.                                *)
Remains(t, c, s) ==
    /\ s.a \in [1..MaxDirty -> Corners] /\ s.n \in 0..t.n
    /\ \A k \in 1..s.n : \E j \in 1..t.n : s.a[k] = t.a[j]
    /\ CopiesUp => \A j \in 1..t.n : Inside(t.a[j], c) \/ \E k \in 1..s.n : s.a[k] = t.a[j]
    /\ CopiesUp /\ Apart(t) => Apart(s)
    /\ \A m \in Nat : Firm(t, c, m) => m <= s.n /\ \A k \in 1..m : s.a[k] = t.a[k]

AfterTurns(t, c, s, k) ==
    /\ Remains(t, c, s)
    /\ s.d \in 1..(s.n + 1) /\ s.n - s.d + 1 = t.n - k
    /\ \A j \in 1..(s.d - 1) : ~Inside(s.a[j], c)
    /\ s = [a |-> s.a, n |-> s.n, d |-> s.d]

LEMMA BeforeTurns ==
    ASSUME NEW t \in Tables, NEW c \in Corners
    PROVE  AfterTurns(t, c, Start0(t), 0)
<1> DEFINE s == Start0(t)
<1>1. s.a = t.a /\ s.n = t.n /\ s.d = 1 /\ s = [a |-> s.a, n |-> s.n, d |-> s.d]
  BY DEF Start0
<1> HIDE DEF s
<1>2. Remains(t, c, s)
  BY <1>1, TableType DEF Remains, Apart, Firm
<1>3. s.d \in 1..(s.n + 1) /\ s.n - s.d + 1 = t.n - 0 /\ \A j \in 1..(s.d - 1) : ~Inside(s.a[j], c)
  BY <1>1, TableType
<1> QED BY <1>1, <1>2, <1>3 DEF AfterTurns, s

LEMMA RemovalRemains ==
    ASSUME NEW t \in Tables, NEW c \in Corners, NEW s, Remains(t, c, s),
           NEW d \in 1..s.n, Inside(s.a[d], c),
           NEW u, u.a = MovedDown(s.a, d, s.n), u.n = s.n - 1
    PROVE  Remains(t, c, u)
<1>0. t.n \in Nat /\ s.n \in 1..MaxDirty /\ s.n \in Nat /\ s.n <= t.n
      /\ s.a \in [1..MaxDirty -> Corners] /\ d \in Nat
  BY TableType DEF Remains
<1>1. /\ u.a \in [1..MaxDirty -> Corners]
      /\ \A k \in 1..(d - 1) : u.a[k] = s.a[k]
      /\ \A k \in d..(s.n - 1) : u.a[k] = IF CopiesUp THEN s.a[k + 1] ELSE s.a[s.n]
  BY <1>0, MovedDownType
<1>2. ASSUME NEW k \in 1..u.n
      PROVE  \E j \in 1..s.n : u.a[k] = s.a[j] /\ (CopiesUp => j = IF k < d THEN k ELSE k + 1)
  <2>1. CASE k < d
    <3>1. k \in 1..(d - 1) /\ k \in 1..s.n BY <1>0, <2>1
    <3> QED BY <3>1, <2>1, <1>1
  <2>2. CASE k >= d
    <3>1. k \in d..(s.n - 1) /\ k + 1 \in 1..s.n /\ s.n \in 1..s.n /\ ~(k < d) BY <1>0, <2>2
    <3>2. CASE CopiesUp BY <3>1, <3>2, <1>1
    <3>3. CASE ~CopiesUp BY <3>1, <3>3, <1>1
    <3> QED BY <3>2, <3>3
  <2> QED BY <2>1, <2>2, <1>0
<1>3. \A k \in 1..u.n : \E j \in 1..t.n : u.a[k] = t.a[j]
  BY <1>2 DEF Remains
<1>4. ASSUME CopiesUp, NEW j \in 1..t.n, ~Inside(t.a[j], c)
      PROVE  \E k \in 1..u.n : u.a[k] = t.a[j]
  <2>1. PICK k \in 1..s.n : s.a[k] = t.a[j]
    BY <1>4 DEF Remains
  <2>2. k # d
    BY <1>4, <2>1
  <2>3. CASE k < d
    <3>1. k \in 1..(d - 1) /\ k \in 1..u.n BY <1>0, <2>3
    <3> QED BY <3>1, <2>1, <1>1
  <2>4. CASE k > d
    <3>1. k - 1 \in d..(s.n - 1) /\ k - 1 \in 1..u.n /\ (k - 1) + 1 = k BY <1>0, <2>4
    <3> QED BY <3>1, <2>1, <1>1, <1>4
  <2> QED BY <2>2, <2>3, <2>4, <1>0
<1>5. ASSUME CopiesUp, Apart(t) PROVE Apart(u)
  <2>1. Apart(s) BY <1>5 DEF Remains
  <2>2. ASSUME NEW j \in 1..u.n, NEW k \in 1..u.n, j # k PROVE ~Overlap(u.a[j], u.a[k])
    <3> DEFINE J == IF j < d THEN j ELSE j + 1
               K == IF k < d THEN k ELSE k + 1
    <3>1. J \in 1..s.n /\ u.a[j] = s.a[J] BY <1>2, <1>5
    <3>2. K \in 1..s.n /\ u.a[k] = s.a[K] BY <1>2, <1>5
    <3>3. J # K BY <2>2, <1>0
    <3> HIDE DEF J, K
    <3> QED BY <2>1, <3>1, <3>2, <3>3 DEF Apart
  <2> QED BY <2>2 DEF Apart
<1>6. ASSUME NEW m \in Nat, Firm(t, c, m)
      PROVE  m <= u.n /\ \A k \in 1..m : u.a[k] = t.a[k]
  <2>1. m <= s.n /\ \A k \in 1..m : s.a[k] = t.a[k]
    BY <1>6 DEF Remains
  <2>2. d \notin 1..m
    BY <1>6, <2>1 DEF Firm
  <2>3. m < d BY <2>2, <1>0
  <2> QED BY <2>1, <2>3, <1>0, <1>1
<1>7. u.n \in 0..t.n BY <1>0
<1> QED BY <1>1, <1>3, <1>4, <1>5, <1>6, <1>7 DEF Remains

LEMMA LoopCount ==
    ASSUME NEW m \in Nat, NEW e \in 1..m, NEW l \in Nat, NEW k \in Nat, m - e + 1 = l - k
    PROVE  /\ e \in 1..((m - 1) + 1) /\ (m - 1) - e + 1 = l - (k + 1)
           /\ e + 1 \in 1..(m + 1) /\ m - (e + 1) + 1 = l - (k + 1)
OBVIOUS

LEMMA OneTurn ==
    ASSUME NEW t \in Tables, NEW c \in Corners, NEW k \in Nat, k < t.n,
           NEW s, AfterTurns(t, c, s, k)
    PROVE  AfterTurns(t, c, Turn(s, c), k + 1)
<1>0. /\ Remains(t, c, s) /\ s.n \in Nat /\ t.n \in Nat /\ s.d \in 1..s.n /\ s.d \in Nat
      /\ s.n - s.d + 1 = t.n - k
      /\ \A j \in 1..(s.d - 1) : ~Inside(s.a[j], c)
      /\ s.a \in [1..MaxDirty -> Corners] /\ s.n \in 1..MaxDirty
  BY TableType DEF AfterTurns, Remains
<1>1. CASE Inside(s.a[s.d], c)
  <2> DEFINE u == [a |-> MovedDown(s.a, s.d, s.n), n |-> s.n - 1, d |-> s.d]
  <2>1. Turn(s, c) = u
    BY <1>1 DEF Turn, AfterTurns
  <2>2. u.a = MovedDown(s.a, s.d, s.n) /\ u.n = s.n - 1 /\ u.d = s.d
        /\ u = [a |-> u.a, n |-> u.n, d |-> u.d]
    OBVIOUS
  <2> HIDE DEF u
  <2>3. Remains(t, c, u)
    BY <1>0, <1>1, <2>2, RemovalRemains
  <2>4. \A j \in 1..(u.d - 1) : ~Inside(u.a[j], c)
    BY <1>0, <2>2, MovedDownType
  <2>5. u.d \in 1..(u.n + 1) /\ u.n - u.d + 1 = t.n - (k + 1)
    <3>1. /\ s.d \in 1..((s.n - 1) + 1) /\ (s.n - 1) - s.d + 1 = t.n - (k + 1)
          /\ s.d + 1 \in 1..(s.n + 1) /\ s.n - (s.d + 1) + 1 = t.n - (k + 1)
      <4>1. s.n \in Nat /\ s.d \in 1..s.n /\ t.n \in Nat /\ s.n - s.d + 1 = t.n - k
        BY <1>0
      <4> QED BY <4>1, LoopCount
    <3> QED BY <2>2, <3>1
  <2> QED BY <2>1, <2>2, <2>3, <2>4, <2>5 DEF AfterTurns
<1>2. CASE ~Inside(s.a[s.d], c)
  <2> DEFINE u == [a |-> s.a, n |-> s.n, d |-> s.d + 1]
  <2>1. Turn(s, c) = u
    BY <1>2 DEF Turn, AfterTurns
  <2>2. u.a = s.a /\ u.n = s.n /\ u.d = s.d + 1 /\ u = [a |-> u.a, n |-> u.n, d |-> u.d]
    OBVIOUS
  <2> HIDE DEF u
  <2>3. Remains(t, c, u)
    BY <1>0, <2>2 DEF Remains, Apart
  <2>4. \A j \in 1..(u.d - 1) : ~Inside(u.a[j], c)
    BY <1>0, <1>2, <2>2
  <2>5. u.d \in 1..(u.n + 1) /\ u.n - u.d + 1 = t.n - (k + 1)
    <3>1. /\ s.d \in 1..((s.n - 1) + 1) /\ (s.n - 1) - s.d + 1 = t.n - (k + 1)
          /\ s.d + 1 \in 1..(s.n + 1) /\ s.n - (s.d + 1) + 1 = t.n - (k + 1)
      <4>1. s.n \in Nat /\ s.d \in 1..s.n /\ t.n \in Nat /\ s.n - s.d + 1 = t.n - k
        BY <1>0
      <4> QED BY <4>1, LoopCount
    <3> QED BY <2>2, <3>1
  <2> QED BY <2>1, <2>2, <2>3, <2>4, <2>5 DEF AfterTurns
<1> QED BY <1>1, <1>2

(* The loop removes the entries inside c, and nothing else.                 *)
LEMMA RemovesInside ==
    ASSUME NEW t \in Tables, NEW c \in Corners
    PROVE  /\ WithoutInside(t, c) \in Tables
           /\ Remains(t, c, WithoutInside(t, c))
           /\ \A k \in 1..WithoutInside(t, c).n : ~Inside(WithoutInside(t, c).a[k], c)
<1> DEFINE f == CHOOSE g : g = [k \in 0..t.n |->
                  IF k = 0 THEN [a |-> t.a, n |-> t.n, d |-> 1]
                  ELSE LET s == g[k - 1]
                       IN IF Inside(s.a[s.d], c)
                          THEN [s EXCEPT !.a = MovedDown(s.a, s.d, s.n), !.n = s.n - 1]
                          ELSE [s EXCEPT !.d = s.d + 1]]
<1>0. t.n \in Nat
  BY TableType
<1>1. Turns(t, c, f, t.n)
  <2>1. \E g : Turns(t, c, g, t.n)
    BY <1>0, TurnsExist
  <2> QED BY <2>1 DEF Turns, Turn, Start0
<1>2. Purged(t, c) = f[t.n]
  BY DEF Purged
<1> HIDE DEF f
<1>3. \A k \in 0..t.n : AfterTurns(t, c, f[k], k)
  <2> DEFINE T == {k \in 0..t.n : ~AfterTurns(t, c, f[k], k)}
  <2> SUFFICES ASSUME T # {} PROVE FALSE
    OBVIOUS
  <2>1. PICK k \in T : \A y \in T : k <= y
    <3>1. T \subseteq Nat OBVIOUS
    <3> HIDE DEF T
    <3> QED BY <3>1, LeastOne
  <2>2. f[k] = IF k = 0 THEN Start0(t) ELSE Turn(f[k - 1], c)
    BY <1>1 DEF Turns
  <2>3. CASE k = 0
    BY <2>1, <2>2, <2>3, BeforeTurns
  <2>4. CASE k # 0
    <3>1. k - 1 \in 0..t.n /\ k - 1 \in Nat /\ k - 1 < t.n /\ (k - 1) + 1 = k /\ k - 1 \notin T
      BY <2>1, <2>4, <1>0
    <3>2. AfterTurns(t, c, f[k - 1], k - 1)
      BY <3>1
    <3>3. AfterTurns(t, c, Turn(f[k - 1], c), (k - 1) + 1)
      BY <3>1, <3>2, OneTurn
    <3> QED BY <2>1, <2>2, <2>4, <3>1, <3>3
  <2> QED BY <2>3, <2>4
<1> DEFINE s == f[t.n]
           u == WithoutInside(t, c)
<1>4. AfterTurns(t, c, s, t.n)
  BY <1>3, <1>0
<1>5. u.a = s.a /\ u.n = s.n /\ u = [a |-> u.a, n |-> u.n]
  BY <1>2 DEF WithoutInside
<1> HIDE DEF s, u
<1>6. Remains(t, c, u)
  BY <1>4, <1>5 DEF AfterTurns, Remains, Apart
<1>7. \A k \in 1..u.n : ~Inside(u.a[k], c)
  <2>1. s.n \in Nat /\ s.d = s.n + 1
    BY <1>4, <1>0 DEF AfterTurns, Remains
  <2> QED BY <1>4, <1>5, <2>1 DEF AfterTurns
<1>8. u \in Tables
  <2>1. u.n \in 0..MaxDirty /\ u.a \in [1..MaxDirty -> Corners]
    BY <1>6, TableType DEF Remains
  <2> QED BY <1>5, <2>1, TableOf
<1> QED BY <1>6, <1>7, <1>8 DEF u

-----------------------------------------------------------------------------
(* What a call of Dirty with c makes of the table t.                        *)
Grows(t, c, u) ==
    \A m \in Nat : Firm(t, c, m) => /\ m <= u.n \/ IsFull(u)
                                    /\ \A k \in 1..m : Inside(t.a[k], u.a[k])
NoMore(t, c, u) ==
    IsFull(u) \/ \A x, y \in Int : Covers(u, x, y) => Covers(t, x, y) \/ In(x, y, c)

(* What a part of the call makes of it ...                                  *)
Part(t, c, u) ==
    /\ u \in Tables
    /\ IsFull(t) => u = t
    /\ Grows(t, c, u)
    /\ AllValid(t) => AllValid(u) /\ NoMore(t, c, u)
    /\ AllValid(t) /\ CopiesUp => /\ Apart(t) => Apart(u)
                                  /\ \A x, y \in Int : Covers(t, x, y) => Covers(u, x, y)

(* ... and a part that covers the area q.                                   *)
Takes(t, q, u) ==
    AllValid(t) /\ CopiesUp => \A x, y \in Int : In(x, y, q) => Covers(u, x, y)

Result(t, c, u) == Part(t, c, u) /\ Takes(t, c, u)

LEMMA FullCovers ==
    ASSUME NEW u, IsFull(u), NEW c \in Corners, NEW x \in Int, NEW y \in Int, In(x, y, c)
    PROVE  Covers(u, x, y)
<1>1. In(x, y, Whole)
  BY CornersType DEF Whole, Corner, In
<1> QED BY <1>1 DEF IsFull, Covers

LEMMA CoveredInside ==
    ASSUME NEW c \in Corners, NEW e \in Corners, Inside(c, e), NEW x \in Int, NEW y \in Int, In(x, y, c)
    PROVE  In(x, y, e)
BY CornersType DEF In, Inside

LEMMA NothingDone ==
    ASSUME NEW t \in Tables, NEW c \in Corners
    PROVE  Part(t, c, t)
<1>1. Grows(t, c, t)
  <2>1. ASSUME NEW m \in Nat, Firm(t, c, m), NEW k \in 1..m PROVE Inside(t.a[k], t.a[k])
    <3>1. t.a[k] \in Corners
      BY <2>1, TableType DEF Firm
    <3> QED BY <3>1, InsideOrder
  <2>2. ASSUME NEW m \in Nat, Firm(t, c, m) PROVE m <= t.n
    BY <2>2, TableType DEF Firm
  <2> QED BY <2>1, <2>2 DEF Grows
<1> QED BY <1>1 DEF Part, NoMore

(* The area is empty or covered already.                                    *)
LEMMA NothingToDo ==
    ASSUME NEW t \in Tables, NEW c \in Corners,
           ~ValidArea(c) \/ \E d \in 1..t.n : Inside(c, t.a[d])
    PROVE  Result(t, c, t)
<1>1. Part(t, c, t)
  BY NothingDone
<1>2. ASSUME NEW x \in Int, NEW y \in Int, In(x, y, c) PROVE Covers(t, x, y)
  <2>1. ValidArea(c)
    BY <1>2, CornersType DEF In, ValidArea
  <2>2. PICK d \in 1..t.n : Inside(c, t.a[d])
    BY <2>1
  <2>3. t.a[d] \in Corners
    BY TableType
  <2> QED BY <1>2, <2>2, <2>3, CoveredInside DEF Covers
<1> QED BY <1>1, <1>2 DEF Result, Takes

(* One part after another.                                                  *)
LEMMA PartAfterPart ==
    ASSUME NEW t \in Tables, NEW c \in Corners, NEW u, Part(t, c, u), NEW v, Part(u, c, v)
    PROVE  Part(t, c, v)
<1>1. u \in Tables /\ v \in Tables
  BY DEF Part
<1>2. IsFull(u) => v = u
  BY DEF Part
<1>3. IsFull(t) => v = t
  BY <1>2 DEF Part
<1>4. Grows(t, c, v)
  <2> SUFFICES ASSUME NEW m \in Nat, Firm(t, c, m)
               PROVE  (m <= v.n \/ IsFull(v)) /\ \A k \in 1..m : Inside(t.a[k], v.a[k])
    BY DEF Grows
  <2>1. (m <= u.n \/ IsFull(u)) /\ \A k \in 1..m : Inside(t.a[k], u.a[k])
    BY DEF Part, Grows
  <2>2. CASE IsFull(u)
    BY <1>2, <2>1, <2>2
  <2>3. CASE ~IsFull(u)
    <3>1. m \in 0..u.n
      BY <1>1, <2>1, <2>3, TableType
    <3>2. ASSUME NEW k \in 1..m
          PROVE  t.a[k] \in Corners /\ u.a[k] \in Corners /\ ~Inside(t.a[k], c) /\ k \in 1..u.n
      BY <1>1, <3>1, TableType DEF Firm
    <3>3. Firm(u, c, m)
      <4>1. ASSUME NEW k \in 1..m PROVE ~Inside(u.a[k], c)
        BY <2>1, <3>2, InsideOrder
      <4> QED BY <3>1, <4>1 DEF Firm
    <3>4. (m <= v.n \/ IsFull(v)) /\ \A k \in 1..m : Inside(u.a[k], v.a[k])
      BY <3>3 DEF Part, Grows
    <3>5. ASSUME NEW k \in 1..m PROVE v.a[k] \in Corners
      <4>1. k \in 1..MaxDirty
        BY <1>1, <3>2, TableType
      <4> QED BY <4>1, <1>1, TableType
    <3>6. ASSUME NEW k \in 1..m PROVE Inside(t.a[k], v.a[k])
      BY <2>1, <3>2, <3>4, <3>5, InsideOrder
    <3> QED BY <3>4, <3>6
  <2> QED BY <2>2, <2>3
<1>5. ASSUME AllValid(t) PROVE AllValid(v) /\ NoMore(t, c, v)
  <2>1. AllValid(u) /\ NoMore(t, c, u) /\ AllValid(v) /\ NoMore(u, c, v)
    BY <1>5 DEF Part
  <2>2. CASE IsFull(u)
    BY <1>2, <2>1, <2>2 DEF NoMore
  <2>3. CASE ~IsFull(u)
    BY <2>1, <2>3 DEF NoMore
  <2> QED BY <2>1, <2>2, <2>3
<1>6. ASSUME AllValid(t), CopiesUp
      PROVE  (Apart(t) => Apart(v)) /\ \A x, y \in Int : Covers(t, x, y) => Covers(v, x, y)
  <2>1. AllValid(u)
    BY <1>6 DEF Part
  <2> QED BY <1>6, <2>1 DEF Part
<1> QED BY <1>1, <1>3, <1>4, <1>5, <1>6 DEF Part

(* What is covered stays so.                                                *)
LEMMA TakesThenPart ==
    ASSUME NEW t, NEW c, NEW q, NEW u, Part(t, c, u), Takes(t, q, u), NEW v, Part(u, c, v)
    PROVE  Takes(t, q, v)
BY DEF Part, Takes

-----------------------------------------------------------------------------
(* What the removal leaves is a table to go on with.                        *)
LEMMA AfterRemoval ==
    ASSUME NEW t \in Tables, NEW c \in Corners, NEW u \in Tables, Remains(t, c, u),
           \A d \in 1..t.n : ~Inside(c, t.a[d]), NEW v, Result(u, c, v)
    PROVE  Result(t, c, v)
<1>1. ~IsFull(t)
  <2>1. ASSUME IsFull(t) PROVE FALSE
    <3>1. Inside(c, t.a[1]) /\ 1 \in 1..t.n
      BY <2>1, InsideOrder DEF IsFull
    <3> QED BY <3>1
  <2> QED BY <2>1
<1>2. Grows(t, c, v)
  <2> SUFFICES ASSUME NEW m \in Nat, Firm(t, c, m)
               PROVE  (m <= v.n \/ IsFull(v)) /\ \A k \in 1..m : Inside(t.a[k], v.a[k])
    BY DEF Grows
  <2>1. m <= u.n /\ \A k \in 1..m : u.a[k] = t.a[k]
    BY DEF Remains
  <2>2. Firm(u, c, m)
    BY <2>1, TableType DEF Firm
  <2> QED BY <2>1, <2>2 DEF Result, Part, Grows
<1>3. AllValid(t) => AllValid(u)
  BY DEF Remains, AllValid
<1>4. \A x, y \in Int : Covers(u, x, y) => Covers(t, x, y)
  BY DEF Remains, Covers
<1>5. ASSUME CopiesUp, NEW x \in Int, NEW y \in Int, Covers(t, x, y)
      PROVE  Covers(u, x, y) \/ In(x, y, c)
  <2>1. PICK j \in 1..t.n : In(x, y, t.a[j])
    BY <1>5 DEF Covers
  <2>2. CASE Inside(t.a[j], c)
    <3>1. t.a[j] \in Corners
      BY TableType
    <3> QED BY <2>1, <2>2, <3>1, CoveredInside
  <2>3. CASE ~Inside(t.a[j], c)
    <3>1. PICK k \in 1..u.n : u.a[k] = t.a[j]
      BY <1>5, <2>3 DEF Remains
    <3> QED BY <2>1, <3>1 DEF Covers
  <2> QED BY <2>2, <2>3
<1>6. AllValid(t) => AllValid(v) /\ NoMore(t, c, v)
  BY <1>3, <1>4 DEF Result, Part, NoMore
<1>7. ASSUME AllValid(t), CopiesUp
      PROVE  /\ Apart(t) => Apart(v)
             /\ \A x, y \in Int : Covers(t, x, y) => Covers(v, x, y)
             /\ \A x, y \in Int : In(x, y, c) => Covers(v, x, y)
  <2>1. Apart(t) => Apart(v)
    BY <1>7, <1>3 DEF Remains, Result, Part
  <2>2. \A x, y \in Int : In(x, y, c) => Covers(v, x, y)
    BY <1>7, <1>3 DEF Result, Takes
  <2>3. \A x, y \in Int : Covers(u, x, y) => Covers(v, x, y)
    BY <1>7, <1>3 DEF Result, Part
  <2> QED BY <1>5, <1>7, <2>1, <2>2, <2>3
<1>8. v \in Tables
  BY DEF Result, Part
<1> QED BY <1>1, <1>2, <1>6, <1>7, <1>8 DEF Result, Part, Takes

-----------------------------------------------------------------------------
(* An area that overlaps nothing.                                           *)
LEMMA WidensAnEntry ==
    ASSUME NEW t \in Tables, NEW c \in Corners, ValidArea(c),
           NEW p \in 1..t.n, Adjacent(c, t.a[p]),
           \A d \in 1..t.n : ~Overlap(c, t.a[d]) /\ ~Inside(c, t.a[d]),
           NEW u, u.n = t.n, u.a = [t.a EXCEPT ![p] = Around(c, t.a[p])],
           u = [a |-> u.a, n |-> u.n]
    PROVE  Result(t, c, u)
<1> DEFINE e == t.a[p]
           w == Around(c, e)
<1>0. t.n \in Nat /\ t.n <= MaxDirty /\ p \in 1..MaxDirty /\ e \in Corners /\ w \in Corners
      /\ Inside(e, w) /\ Inside(c, w) /\ ValidArea(w) /\ t.a \in [1..MaxDirty -> Corners]
  BY TableType, AroundBoth
<1>1. u.a \in [1..MaxDirty -> Corners] /\ u.a[p] = w
      /\ \A k \in 1..MaxDirty : k # p => u.a[k] = t.a[k]
  BY <1>0
<1> HIDE DEF e, w
<1>2. u \in Tables
  <2>1. u.n \in 0..MaxDirty
    BY <1>0
  <2> QED BY <1>1, <2>1, TableOf
<1>3. ~IsFull(t)
  <2>1. ASSUME IsFull(t) PROVE FALSE
    <3>1. Inside(c, t.a[1]) /\ 1 \in 1..t.n
      BY <2>1, InsideOrder DEF IsFull
    <3> QED BY <3>1
  <2> QED BY <2>1
<1>4. \A k \in 1..t.n : k \in 1..MaxDirty /\ t.a[k] \in Corners /\ Inside(t.a[k], u.a[k])
  <2> SUFFICES ASSUME NEW k \in 1..t.n PROVE k \in 1..MaxDirty /\ t.a[k] \in Corners /\ Inside(t.a[k], u.a[k])
    OBVIOUS
  <2>1. k \in 1..MaxDirty /\ t.a[k] \in Corners /\ Inside(t.a[k], t.a[k])
    BY TableType, InsideOrder
  <2> QED BY <2>1, <1>0, <1>1 DEF e
<1>5. Grows(t, c, u)
  BY <1>0, <1>4 DEF Grows, Firm
<1>6. ASSUME AllValid(t)
      PROVE  /\ AllValid(u)
             /\ \A x, y \in Int : Covers(u, x, y) => Covers(t, x, y) \/ In(x, y, c)
             /\ \A x, y \in Int : Covers(t, x, y) \/ In(x, y, c) => Covers(u, x, y)
             /\ Apart(t) => Apart(u)
  <2>1. ValidArea(e)
    BY <1>6, <1>0 DEF AllValid, e
  <2>2. AllValid(u)
    BY <1>0, <1>1, <1>4, <1>6 DEF AllValid
  <2>3. \A x, y \in Int : In(x, y, w) <=> In(x, y, c) \/ In(x, y, e)
    BY <2>1, <1>0, AdjacentUnion DEF w, e
  <2>4. \A x, y \in Int : Covers(u, x, y) => Covers(t, x, y) \/ In(x, y, c)
    <3> SUFFICES ASSUME NEW x \in Int, NEW y \in Int, NEW k \in 1..u.n, In(x, y, u.a[k])
                 PROVE  Covers(t, x, y) \/ In(x, y, c)
      BY DEF Covers
    <3>1. CASE k = p
      BY <3>1, <2>3, <1>1 DEF Covers, e
    <3>2. CASE k # p
      BY <3>2, <1>1, <1>4 DEF Covers
    <3> QED BY <3>1, <3>2
  <2>5. \A x, y \in Int : In(x, y, c) => Covers(u, x, y)
    BY <2>3, <1>1 DEF Covers
  <2>6. \A x, y \in Int : Covers(t, x, y) => Covers(u, x, y)
    <3> SUFFICES ASSUME NEW x \in Int, NEW y \in Int, NEW k \in 1..t.n, In(x, y, t.a[k])
                 PROVE  Covers(u, x, y)
      BY DEF Covers
    <3>1. k \in 1..MaxDirty /\ u.a[k] \in Corners
      BY <1>1, <1>4
    <3> QED BY <3>1, <1>4, CoveredInside DEF Covers
  <2>7. ASSUME Apart(t) PROVE Apart(u)
    <3>1. ASSUME NEW k \in 1..t.n, k # p PROVE ~Overlap(w, t.a[k]) /\ ~Overlap(t.a[k], w)
      <4>1. ~Overlap(e, t.a[k]) /\ ~Overlap(c, t.a[k])
        BY <2>7, <3>1 DEF Apart, e
      <4>2. t.a[k] \in Corners /\ ValidArea(t.a[k])
        BY <1>4, <1>6 DEF AllValid
      <4>3. ~Overlap(w, t.a[k])
        BY <4>1, <4>2, <2>1, <1>0, AdjacentUnion DEF e, w
      <4> QED BY <4>3 DEF Overlap
    <3>2. ASSUME NEW j \in 1..u.n, NEW k \in 1..u.n, j # k PROVE ~Overlap(u.a[j], u.a[k])
      <4>1. CASE j = p
        BY <4>1, <3>1, <3>2, <1>1, <1>4
      <4>2. CASE k = p
        BY <4>2, <3>1, <3>2, <1>1, <1>4
      <4>3. CASE j # p /\ k # p
        BY <4>3, <2>7, <3>2, <1>1, <1>4 DEF Apart
      <4> QED BY <4>1, <4>2, <4>3
    <3> QED BY <3>2 DEF Apart
  <2> QED BY <2>2, <2>4, <2>5, <2>6, <2>7
<1> QED BY <1>2, <1>3, <1>5, <1>6 DEF Result, Part, Takes, NoMore

LEMMA FillsTheArray ==
    ASSUME NEW t \in Tables, NEW c \in Corners,
           NEW u, u.n = 1, u.a = [t.a EXCEPT ![1] = Whole], u = [a |-> u.a, n |-> u.n],
           \A d \in 1..t.n : ~Inside(c, t.a[d])
    PROVE  Result(t, c, u)
<1>0. t.n \in Nat /\ t.n <= MaxDirty /\ 1 \in 1..MaxDirty /\ t.a \in [1..MaxDirty -> Corners]
      /\ Whole \in Corners /\ ValidArea(Whole)
  BY TableType, InsideOrder
<1>1. u.a \in [1..MaxDirty -> Corners] /\ u.a[1] = Whole
      /\ \A k \in 1..MaxDirty : k # 1 => u.a[k] = t.a[k]
  BY <1>0
<1>2. u \in Tables
  <2>1. u.n \in 0..MaxDirty
    BY <1>0, TableType
  <2> QED BY <1>1, <2>1, TableOf
<1>3. ~IsFull(t)
  <2>1. ASSUME IsFull(t) PROVE FALSE
    <3>1. Inside(c, t.a[1]) /\ 1 \in 1..t.n
      BY <2>1, InsideOrder DEF IsFull
    <3> QED BY <3>1
  <2> QED BY <2>1
<1>4. IsFull(u)
  BY <1>1 DEF IsFull
<1>5. \A k \in 1..t.n : k \in 1..MaxDirty /\ t.a[k] \in Corners /\ Inside(t.a[k], u.a[k])
  <2> SUFFICES ASSUME NEW k \in 1..t.n PROVE k \in 1..MaxDirty /\ t.a[k] \in Corners /\ Inside(t.a[k], u.a[k])
    OBVIOUS
  <2>1. k \in 1..MaxDirty /\ t.a[k] \in Corners /\ Inside(t.a[k], t.a[k]) /\ Inside(t.a[k], Whole)
    BY TableType, InsideOrder
  <2> QED BY <2>1, <1>1
<1>6. Grows(t, c, u)
  <2>1. \A m \in Nat : Firm(t, c, m) => \A k \in 1..m : k \in 1..t.n
    BY <1>0 DEF Firm
  <2> QED BY <2>1, <1>4, <1>5 DEF Grows
<1>7. AllValid(u) /\ Apart(u)
  BY <1>0, <1>1 DEF AllValid, Apart
<1>8. \A x, y \in Int : Covers(t, x, y) \/ In(x, y, c) => Covers(u, x, y)
  <2> SUFFICES ASSUME NEW x \in Int, NEW y \in Int, Covers(t, x, y) \/ In(x, y, c)
               PROVE  Covers(u, x, y)
    OBVIOUS
  <2>1. CASE In(x, y, c)
    BY <2>1, <1>4, FullCovers
  <2>2. CASE Covers(t, x, y)
    <3>1. PICK k \in 1..t.n : In(x, y, t.a[k])
      BY <2>2 DEF Covers
    <3> QED BY <3>1, <1>4, <1>5, FullCovers
  <2> QED BY <2>1, <2>2
<1> QED BY <1>2, <1>3, <1>4, <1>6, <1>7, <1>8 DEF Result, Part, Takes, NoMore

LEMMA TakesAnEntry ==
    ASSUME NEW t \in Tables, NEW c \in Corners, ValidArea(c), t.n # MaxDirty,
           NEW u, u.n = t.n + 1, u.a = [t.a EXCEPT ![t.n + 1] = c], u = [a |-> u.a, n |-> u.n],
           \A d \in 1..t.n : ~Inside(c, t.a[d]) /\ ~Overlap(c, t.a[d])
    PROVE  Result(t, c, u)
<1>0. t.n \in Nat /\ t.n + 1 \in 1..MaxDirty /\ t.a \in [1..MaxDirty -> Corners]
      /\ u.n \in 0..MaxDirty /\ u.n \in Nat /\ MaxDirty \in Nat /\ t.n < MaxDirty
  BY TableType
<1>1. u.a \in [1..MaxDirty -> Corners] /\ u.a[t.n + 1] = c
      /\ \A k \in 1..MaxDirty : k # t.n + 1 => u.a[k] = t.a[k]
  BY <1>0
<1>2. u \in Tables
  <2>1. u.n \in 0..MaxDirty
    BY <1>0
  <2>2. [a |-> u.a, n |-> u.n] \in Tables
    BY <1>1, <2>1, TableOf
  <2> QED BY <2>2
<1>3. ~IsFull(t)
  <2>1. ASSUME IsFull(t) PROVE FALSE
    <3>1. Inside(c, t.a[1]) /\ 1 \in 1..t.n
      BY <2>1, InsideOrder DEF IsFull
    <3> QED BY <3>1
  <2> QED BY <2>1
<1>4. /\ \A k \in 1..t.n : k \in 1..u.n /\ t.a[k] \in Corners /\ u.a[k] = t.a[k]
      /\ t.n + 1 \in 1..u.n
      /\ \A k \in 1..u.n : k \in 1..t.n \/ k = t.n + 1
  <2>1. ASSUME NEW k \in 1..t.n PROVE k \in 1..MaxDirty /\ k # t.n + 1 /\ k \in 1..u.n
    BY <1>0
  <2>2. \A k \in 1..t.n : k \in 1..u.n /\ t.a[k] \in Corners /\ u.a[k] = t.a[k]
    BY <2>1, <1>1, TableType
  <2> QED BY <2>2, <1>0
<1>5. Grows(t, c, u)
  <2>1. \A m \in Nat : Firm(t, c, m) => m <= t.n /\ \A k \in 1..m : k \in 1..t.n
    BY <1>0 DEF Firm
  <2>2. \A k \in 1..t.n : Inside(t.a[k], u.a[k])
    BY <1>4, InsideOrder
  <2> QED BY <2>1, <2>2, <1>0 DEF Grows
<1>6. AllValid(t) => AllValid(u)
  BY <1>1, <1>4 DEF AllValid
<1>7. \A x, y \in Int : Covers(u, x, y) <=> Covers(t, x, y) \/ In(x, y, c)
  BY <1>1, <1>4 DEF Covers
<1>8. ASSUME Apart(t) PROVE Apart(u)
  <2>1. ASSUME NEW j \in 1..u.n, NEW k \in 1..u.n, j # k PROVE ~Overlap(u.a[j], u.a[k])
    <3>1. CASE j = t.n + 1
      BY <3>1, <2>1, <1>1, <1>4
    <3>2. CASE k = t.n + 1
      <4>1. ~Overlap(c, u.a[j])
        BY <3>2, <2>1, <1>4
      <4> QED BY <3>2, <4>1, <1>1 DEF Overlap
    <3>3. CASE j \in 1..t.n /\ k \in 1..t.n
      BY <3>3, <2>1, <1>4, <1>8 DEF Apart
    <3> QED BY <3>1, <3>2, <3>3, <1>4
  <2> QED BY <2>1 DEF Apart
<1> QED BY <1>2, <1>3, <1>5, <1>6, <1>7, <1>8 DEF Result, Part, Takes, NoMore

LEMMA AddedIsRight ==
    ASSUME NEW t \in Tables, NEW c \in Corners, ValidArea(c),
           \A d \in 1..t.n : ~Inside(c, t.a[d]) /\ ~Overlap(c, t.a[d])
    PROVE  Result(t, c, Added(t, c))
<1> DEFINE next == {d \in 1..t.n : Adjacent(c, t.a[d])}
<1>0. t = [a |-> t.a, n |-> t.n] /\ t.n \in Nat
  BY TableType
<1>1. CASE next # {}
  <2> DEFINE p == Min(next)
             u == [a |-> [t.a EXCEPT ![p] = Around(c, t.a[p])], n |-> t.n]
  <2>1. p \in next
    <3>1. next \subseteq Nat
      OBVIOUS
    <3> QED BY <1>1, <3>1, MinIsIn
  <2>2. Added(t, c) = u
    <3>1. Added(t, c) = [t EXCEPT !.a[Min(next)] = Around(c, @)]
      BY <1>1 DEF Added
    <3> HIDE DEF p
    <3>2. [t EXCEPT !.a[p] = Around(c, @)] = u
      BY <1>0
    <3> QED BY <3>1, <3>2 DEF p
  <2>3. u.n = t.n /\ u.a = [t.a EXCEPT ![p] = Around(c, t.a[p])] /\ u = [a |-> u.a, n |-> u.n]
    OBVIOUS
  <2> HIDE DEF u
  <2>4. p \in 1..t.n /\ Adjacent(c, t.a[p])
    BY <2>1
  <2> HIDE DEF p
  <2> QED BY <2>2, <2>3, <2>4, WidensAnEntry
<1>2. CASE next = {} /\ t.n = MaxDirty
  <2> DEFINE u == [a |-> [t.a EXCEPT ![1] = Whole], n |-> 1]
  <2>1. Added(t, c) = u
    BY <1>2 DEF Added
  <2>2. u.n = 1 /\ u.a = [t.a EXCEPT ![1] = Whole] /\ u = [a |-> u.a, n |-> u.n]
    OBVIOUS
  <2> HIDE DEF u
  <2> QED BY <2>1, <2>2, FillsTheArray
<1>3. CASE next = {} /\ t.n # MaxDirty
  <2> DEFINE u == [a |-> [t.a EXCEPT ![t.n + 1] = c], n |-> t.n + 1]
  <2>1. Added(t, c) = u
    BY <1>3 DEF Added
  <2>2. u.n = t.n + 1 /\ u.a = [t.a EXCEPT ![t.n + 1] = c] /\ u = [a |-> u.a, n |-> u.n]
    OBVIOUS
  <2> HIDE DEF u
  <2> QED BY <1>3, <2>1, <2>2, TakesAnEntry
<1> QED BY <1>1, <1>2, <1>3

-----------------------------------------------------------------------------
(* The pieces of an area around an entry are parts of it, and smaller.      *)
Measure(c) == IF ValidArea(c) THEN (c.rx - c.lx) + (c.by - c.ty) ELSE 0

PieceOf(q, c) == q \in Corners /\ Inside(q, c) /\ Measure(q) < Measure(c)

LEMMA MeasureType ==
    ASSUME NEW c \in Corners
    PROVE  Measure(c) \in Nat
BY CornersType DEF Measure, ValidArea

LEMMA Pieces ==
    ASSUME NEW c \in Corners, ValidArea(c), NEW e \in Corners, Overlap(c, e)
    PROVE  /\ c.ty < e.ty => PieceOf(AbovePiece(c, e), c)
           /\ c.by > e.by => PieceOf(BelowPiece(c, e), c)
           /\ c.lx < e.lx => PieceOf(LeftPiece(c, e), c)
           /\ c.rx > e.rx => PieceOf(RightPiece(c, e), c)
<1> DEFINE top == Larger(c.ty, e.ty)
           bottom == Smaller(c.by, e.by)
<1>0. /\ c = Corner(c.lx, c.ty, c.rx, c.by)
      /\ c.lx \in Int /\ c.ty \in Int /\ c.rx \in Int /\ c.by \in Int
      /\ e.lx \in Int /\ e.ty \in Int /\ e.rx \in Int /\ e.by \in Int
  BY CornersType DEF Corner, Corners
<1>1. \A l, r \in 0..Width, u, b \in 0..Height :
          l >= c.lx /\ r <= c.rx /\ u >= c.ty /\ b <= c.by
          /\ (l > c.lx \/ r < c.rx \/ u > c.ty \/ b < c.by)
          => PieceOf(Corner(l, u, r, b), c)
  <2> SUFFICES ASSUME NEW l \in 0..Width, NEW r \in 0..Width, NEW u \in 0..Height, NEW b \in 0..Height,
                      l >= c.lx, r <= c.rx, u >= c.ty, b <= c.by,
                      l > c.lx \/ r < c.rx \/ u > c.ty \/ b < c.by
               PROVE  PieceOf(Corner(l, u, r, b), c)
    OBVIOUS
  <2> DEFINE q == Corner(l, u, r, b)
  <2>1. q \in Corners
    BY DEF Corner, Corners
  <2>2. q.lx = l /\ q.ty = u /\ q.rx = r /\ q.by = b
    BY CornerFields
  <2> HIDE DEF q
  <2>3. Inside(q, c)
    BY <2>2 DEF Inside
  <2>4. Measure(q) < Measure(c)
    BY <2>2, <1>0, CornersType DEF Measure, ValidArea
  <2> QED BY <2>1, <2>3, <2>4 DEF PieceOf, q
<1>2. AbovePiece(c, e) = Corner(c.lx, c.ty, c.rx, e.ty) /\ BelowPiece(c, e) = Corner(c.lx, e.by, c.rx, c.by)
  BY <1>0 DEF AbovePiece, BelowPiece, Corner
<1>3. LeftPiece(c, e) = Corner(c.lx, top, e.lx, bottom) /\ RightPiece(c, e) = Corner(e.rx, top, c.rx, bottom)
  BY DEF LeftPiece, RightPiece
<1>4. c.lx < e.rx /\ e.lx < c.rx /\ c.ty < e.by /\ e.ty < c.by
  BY DEF Overlap
<1>5. c.ty < e.ty => PieceOf(AbovePiece(c, e), c)
  BY <1>1, <1>2, <1>4, CornersType
<1>6. c.by > e.by => PieceOf(BelowPiece(c, e), c)
  BY <1>1, <1>2, <1>4, CornersType
<1>7. top \in 0..Height /\ bottom \in 0..Height /\ top >= c.ty /\ bottom <= c.by
  BY CornersType DEF Larger, Smaller
<1> HIDE DEF top, bottom
<1>8. c.lx < e.lx => PieceOf(LeftPiece(c, e), c)
  BY <1>1, <1>3, <1>4, <1>7, CornersType
<1>9. c.rx > e.rx => PieceOf(RightPiece(c, e), c)
  BY <1>1, <1>3, <1>4, <1>7, CornersType
<1> QED BY <1>5, <1>6, <1>8, <1>9

(* The recursive calls of a call with c do what is expected of them.        *)
Recurses(add, c) ==
    \A q \in Corners : Measure(q) < Measure(c) =>
        \A t \in Tables : Result(t, q, add[q][t])

LEMMA OnePiece ==
    ASSUME NEW add, NEW c \in Corners, Recurses(add, c), NEW q, PieceOf(q, c), NEW t \in Tables
    PROVE  Part(t, c, add[q][t]) /\ Takes(t, q, add[q][t])
<1> DEFINE u == add[q][t]
<1>1. Result(t, q, u) /\ q \in Corners /\ Inside(q, c)
  BY DEF Recurses, PieceOf
<1> HIDE DEF u
<1>2. Grows(t, c, u)
  <2>1. ASSUME NEW m \in Nat, Firm(t, c, m) PROVE Firm(t, q, m)
    <3>1. ASSUME NEW k \in 1..m PROVE ~Inside(t.a[k], q)
      <4>1. t.a[k] \in Corners /\ ~Inside(t.a[k], c)
        BY <2>1, TableType DEF Firm
      <4> QED BY <4>1, <1>1, InsideOrder
    <3> QED BY <2>1, <3>1 DEF Firm
  <2> QED BY <1>1, <2>1 DEF Grows, Result, Part
<1>3. NoMore(t, q, u) => NoMore(t, c, u)
  BY <1>1, CoveredInside DEF NoMore
<1> QED BY <1>1, <1>2, <1>3 DEF Result, Part, u

(* Within a call the entry that c overlaps only grows.                      *)
LEMMA EntryStays ==
    ASSUME NEW t \in Tables, NEW c \in Corners, NEW u, Part(t, c, u),
           NEW d \in 1..t.n, Firm(t, c, t.n)
    PROVE  /\ u \in Tables /\ t.a[d] \in Corners /\ u.a[d] \in Corners
           /\ Inside(t.a[d], u.a[d])
           /\ d \in 1..u.n \/ IsFull(u)
           /\ Overlap(c, t.a[d]) => Overlap(c, u.a[d])
<1>1. u \in Tables /\ t.n \in Nat /\ u.n \in Nat /\ d \in 1..MaxDirty
  BY TableType DEF Part
<1>2. t.a[d] \in Corners /\ u.a[d] \in Corners
  BY <1>1, TableType
<1>3. (t.n <= u.n \/ IsFull(u)) /\ Inside(t.a[d], u.a[d])
  BY <1>1 DEF Part, Grows
<1>4. d \in 1..u.n \/ IsFull(u)
  BY <1>1, <1>3
<1>5. Overlap(c, t.a[d]) => Overlap(c, u.a[d])
  BY <1>2, <1>3, CornersType DEF Overlap, Inside
<1> QED BY <1>1, <1>2, <1>3, <1>4, <1>5

LEMMA EntryGrows ==
    ASSUME NEW t \in Tables, NEW c \in Corners, NEW u, Part(t, c, u), NEW v, Part(u, c, v),
           NEW m \in Nat, Firm(t, c, m), NEW d \in 1..m
    PROVE  Inside(u.a[d], v.a[d])
<1>0. u \in Tables /\ v \in Tables /\ u.n \in Nat /\ t.n \in Nat /\ t.n <= MaxDirty
      /\ MaxDirty \in Nat /\ m <= t.n
  BY TableType DEF Part, Firm
<1>1. \A k \in 1..m : k \in 1..MaxDirty /\ t.a[k] \in Corners /\ u.a[k] \in Corners
  <2>1. \A k \in 1..m : k \in 1..MaxDirty
    BY <1>0
  <2> QED BY <2>1, <1>0, TableType
<1>2. CASE IsFull(u)
  BY <1>1, <1>2, InsideOrder DEF Part
<1>3. CASE ~IsFull(u)
  <2>1. m <= u.n /\ \A k \in 1..m : Inside(t.a[k], u.a[k])
    BY <1>3 DEF Part, Grows
  <2>2. \A k \in 1..m : ~Inside(u.a[k], c)
    BY <1>1, <2>1, InsideOrder DEF Firm
  <2>3. Firm(u, c, m)
    BY <1>0, <2>1, <2>2 DEF Firm
  <2> QED BY <2>3 DEF Part, Grows
<1> QED BY <1>2, <1>3

(* The four pieces, each added to a table in which entry d overlaps c.      *)
LEMMA FourSides ==
    ASSUME NEW add, NEW c \in Corners, ValidArea(c), Recurses(add, c),
           NEW t \in Tables, NEW d, t.a[d] \in Corners, Overlap(c, t.a[d])
    PROVE  /\ Part(t, c, WithAbove(add, t, c, d))
           /\ c.ty < t.a[d].ty => Takes(t, AbovePiece(c, t.a[d]), WithAbove(add, t, c, d))
           /\ Part(t, c, WithBelow(add, t, c, d))
           /\ c.by > t.a[d].by => Takes(t, BelowPiece(c, t.a[d]), WithBelow(add, t, c, d))
           /\ Part(t, c, WithLeft(add, t, c, d))
           /\ c.lx < t.a[d].lx => Takes(t, LeftPiece(c, t.a[d]), WithLeft(add, t, c, d))
           /\ Part(t, c, WithRight(add, t, c, d))
           /\ c.rx > t.a[d].rx => Takes(t, RightPiece(c, t.a[d]), WithRight(add, t, c, d))
<1>1. Part(t, c, t)
  BY NothingDone
<1>2. /\ c.ty < t.a[d].ty => PieceOf(AbovePiece(c, t.a[d]), c)
      /\ c.by > t.a[d].by => PieceOf(BelowPiece(c, t.a[d]), c)
      /\ c.lx < t.a[d].lx => PieceOf(LeftPiece(c, t.a[d]), c)
      /\ c.rx > t.a[d].rx => PieceOf(RightPiece(c, t.a[d]), c)
  BY Pieces
<1>3. /\ Part(t, c, WithAbove(add, t, c, d))
      /\ c.ty < t.a[d].ty => Takes(t, AbovePiece(c, t.a[d]), WithAbove(add, t, c, d))
  BY <1>1, <1>2, OnePiece DEF WithAbove
<1>4. /\ Part(t, c, WithBelow(add, t, c, d))
      /\ c.by > t.a[d].by => Takes(t, BelowPiece(c, t.a[d]), WithBelow(add, t, c, d))
  BY <1>1, <1>2, OnePiece DEF WithBelow
<1>5. /\ Part(t, c, WithLeft(add, t, c, d))
      /\ c.lx < t.a[d].lx => Takes(t, LeftPiece(c, t.a[d]), WithLeft(add, t, c, d))
  BY <1>1, <1>2, OnePiece DEF WithLeft
<1>6. /\ Part(t, c, WithRight(add, t, c, d))
      /\ c.rx > t.a[d].rx => Takes(t, RightPiece(c, t.a[d]), WithRight(add, t, c, d))
  BY <1>1, <1>2, OnePiece DEF WithRight
<1> QED BY <1>3, <1>4, <1>5, <1>6

(* Where a pixel of c is, once entry d has held e0, e1, e2 and e3.          *)
InAPiece(c, x, y, e0, e1, e2, e3) ==
    \/ c.ty < e0.ty /\ In(x, y, AbovePiece(c, e0))
    \/ c.by > e1.by /\ In(x, y, BelowPiece(c, e1))
    \/ c.lx < e2.lx /\ In(x, y, LeftPiece(c, e2))
    \/ c.rx > e3.rx /\ In(x, y, RightPiece(c, e3))
    \/ In(x, y, e3)

LEMMA PixelIsInAPiece ==
    ASSUME NEW c \in Corners, NEW e0 \in Corners, NEW e1 \in Corners,
           NEW e2 \in Corners, NEW e3 \in Corners,
           Inside(e0, e1), Inside(e1, e2), Inside(e2, e3),
           NEW x \in Int, NEW y \in Int, In(x, y, c)
    PROVE  InAPiece(c, x, y, e0, e1, e2, e3)
<1>0. /\ c.lx \in Int /\ c.ty \in Int /\ c.rx \in Int /\ c.by \in Int
      /\ e0.ty \in Int /\ e1.by \in Int
      /\ e2.lx \in Int /\ e2.ty \in Int /\ e2.rx \in Int /\ e2.by \in Int
      /\ e3.lx \in Int /\ e3.ty \in Int /\ e3.rx \in Int /\ e3.by \in Int
      /\ e2.ty <= e0.ty /\ e1.by <= e2.by /\ e3.ty <= e2.ty /\ e2.by <= e3.by
      /\ e3.lx <= e2.lx
      /\ c.lx <= x /\ x < c.rx /\ c.ty <= y /\ y < c.by
  <2>1. /\ e0.ty >= e1.ty /\ e1.ty >= e2.ty /\ e1.by <= e2.by /\ e2.ty >= e3.ty
        /\ e2.by <= e3.by /\ e2.lx >= e3.lx
    BY DEF Inside
  <2>2. e0.ty \in Int /\ e1.ty \in Int /\ e2.ty \in Int /\ e3.ty \in Int
        /\ e1.by \in Int /\ e2.by \in Int /\ e3.by \in Int /\ e2.lx \in Int /\ e3.lx \in Int
        /\ e2.rx \in Int /\ e3.rx \in Int
        /\ c.lx \in Int /\ c.ty \in Int /\ c.rx \in Int /\ c.by \in Int
    BY CornersType
  <2>3. c.lx <= x /\ x < c.rx /\ c.ty <= y /\ y < c.by
    BY DEF In
  <2> QED BY <2>1, <2>2, <2>3
<1>1. CASE y < e0.ty
  <2>1. c.ty < e0.ty
    BY <1>0, <1>1
  <2>2. c = [lx |-> c.lx, ty |-> c.ty, rx |-> c.rx, by |-> c.by]
    BY DEF Corners
  <2>3. In(x, y, AbovePiece(c, e0))
    BY <1>0, <1>1, <2>2 DEF In, AbovePiece
  <2> QED BY <2>1, <2>3 DEF InAPiece
<1>2. CASE y >= e1.by
  <2>1. c.by > e1.by
    BY <1>0, <1>2
  <2>2. c = [lx |-> c.lx, ty |-> c.ty, rx |-> c.rx, by |-> c.by]
    BY DEF Corners
  <2>3. In(x, y, BelowPiece(c, e1))
    BY <1>0, <1>2, <2>2 DEF In, BelowPiece
  <2> QED BY <2>1, <2>3 DEF InAPiece
<1>3. CASE y >= e0.ty /\ y < e1.by /\ x < e2.lx
  <2>1. c.lx < e2.lx
    BY <1>0, <1>3
  <2>2. In(x, y, LeftPiece(c, e2))
    BY <1>0, <1>3 DEF In, LeftPiece, Corner, Larger, Smaller
  <2> QED BY <2>1, <2>2 DEF InAPiece
<1>4. CASE y >= e0.ty /\ y < e1.by /\ x >= e3.rx
  <2>1. c.rx > e3.rx
    BY <1>0, <1>4
  <2>2. In(x, y, RightPiece(c, e3))
    BY <1>0, <1>4 DEF In, RightPiece, Corner, Larger, Smaller
  <2> QED BY <2>1, <2>2 DEF InAPiece
<1>5. CASE y >= e0.ty /\ y < e1.by /\ x >= e2.lx /\ x < e3.rx
  BY <1>0, <1>5 DEF In, InAPiece
<1> QED BY <1>0, <1>1, <1>2, <1>3, <1>4, <1>5

(* c is split around entry d.                                               *)
Split(add, t, c, d) ==
    WithRight(add, WithLeft(add, WithBelow(add, WithAbove(add, t, c, d), c, d), c, d), c, d)

LEMMA SplitIsRight ==
    ASSUME NEW add, NEW c \in Corners, ValidArea(c), Recurses(add, c),
           NEW t \in Tables, NEW d \in 1..t.n, Overlap(c, t.a[d]), Firm(t, c, t.n)
    PROVE  Result(t, c, Split(add, t, c, d))
<1> DEFINE t1 == WithAbove(add, t, c, d)
           t2 == WithBelow(add, t1, c, d)
           t3 == WithLeft(add, t2, c, d)
           t4 == WithRight(add, t3, c, d)
<1>0. t.a[d] \in Corners
  BY TableType
<1>1. Part(t, c, t1) /\ (c.ty < t.a[d].ty => Takes(t, AbovePiece(c, t.a[d]), t1))
  BY <1>0, FourSides
<1> HIDE DEF t1
<1>2. t1 \in Tables /\ t1.a[d] \in Corners /\ Overlap(c, t1.a[d]) /\ Inside(t.a[d], t1.a[d])
  BY <1>1, EntryStays
<1>3. Part(t1, c, t2) /\ (c.by > t1.a[d].by => Takes(t1, BelowPiece(c, t1.a[d]), t2))
  BY <1>2, FourSides
<1> HIDE DEF t2
<1>4. Part(t, c, t2)
  BY <1>1, <1>3, PartAfterPart
<1>5. t2 \in Tables /\ t2.a[d] \in Corners /\ Overlap(c, t2.a[d])
  BY <1>4, EntryStays
<1>6. Part(t2, c, t3) /\ (c.lx < t2.a[d].lx => Takes(t2, LeftPiece(c, t2.a[d]), t3))
  BY <1>5, FourSides
<1> HIDE DEF t3
<1>7. Part(t, c, t3)
  BY <1>4, <1>6, PartAfterPart
<1>8. t3 \in Tables /\ t3.a[d] \in Corners /\ Overlap(c, t3.a[d]) /\ (d \in 1..t3.n \/ IsFull(t3))
  BY <1>7, EntryStays
<1>9. Part(t3, c, t4) /\ (c.rx > t3.a[d].rx => Takes(t3, RightPiece(c, t3.a[d]), t4))
  BY <1>8, FourSides
<1> HIDE DEF t4
<1>10. Part(t, c, t4)
  BY <1>7, <1>9, PartAfterPart
<1>11. Inside(t1.a[d], t2.a[d]) /\ Inside(t2.a[d], t3.a[d])
  <2>1. t.n \in Nat
    BY TableType
  <2> QED BY <2>1, <1>1, <1>3, <1>4, <1>6, EntryGrows
<1>12. Part(t2, c, t4) /\ Part(t1, c, t4)
  <2>1. Part(t2, c, t4)
    BY <1>5, <1>6, <1>9, PartAfterPart
  <2> QED BY <2>1, <1>2, <1>3, PartAfterPart
<1>13. ASSUME AllValid(t), CopiesUp, NEW x \in Int, NEW y \in Int, In(x, y, c)
       PROVE  Covers(t4, x, y)
  <2>0. AllValid(t1) /\ AllValid(t2) /\ AllValid(t3)
    BY <1>1, <1>4, <1>7, <1>13 DEF Part
  <2>1. CASE c.ty < t.a[d].ty /\ In(x, y, AbovePiece(c, t.a[d]))
    <3>1. Takes(t, AbovePiece(c, t.a[d]), t4)
      BY <2>1, <1>1, <1>12, TakesThenPart
    <3> QED BY <3>1, <2>1, <1>13 DEF Takes
  <2>2. CASE c.by > t1.a[d].by /\ In(x, y, BelowPiece(c, t1.a[d]))
    <3>1. Takes(t1, BelowPiece(c, t1.a[d]), t4)
      BY <2>2, <1>3, <1>12, TakesThenPart
    <3> QED BY <3>1, <2>0, <2>2, <1>13 DEF Takes
  <2>3. CASE c.lx < t2.a[d].lx /\ In(x, y, LeftPiece(c, t2.a[d]))
    <3>1. Takes(t2, LeftPiece(c, t2.a[d]), t4)
      BY <2>3, <1>6, <1>9, TakesThenPart
    <3> QED BY <3>1, <2>0, <2>3, <1>13 DEF Takes
  <2>4. CASE c.rx > t3.a[d].rx /\ In(x, y, RightPiece(c, t3.a[d]))
    BY <2>4, <2>0, <1>9, <1>13 DEF Takes
  <2>5. CASE In(x, y, t3.a[d])
    <3>1. Covers(t3, x, y)
      BY <2>5, <1>8, <1>13, FullCovers DEF Covers
    <3> QED BY <3>1, <2>0, <1>9, <1>13 DEF Part
  <2>6. InAPiece(c, x, y, t.a[d], t1.a[d], t2.a[d], t3.a[d])
    <3>1. /\ t.a[d] \in Corners /\ t1.a[d] \in Corners /\ t2.a[d] \in Corners /\ t3.a[d] \in Corners
          /\ Inside(t.a[d], t1.a[d]) /\ Inside(t1.a[d], t2.a[d]) /\ Inside(t2.a[d], t3.a[d])
      BY <1>0, <1>2, <1>5, <1>8, <1>11
    <3>2. In(x, y, c)
      BY <1>13
    <3> QED BY <3>1, <3>2, PixelIsInAPiece
  <2> QED BY <2>1, <2>2, <2>3, <2>4, <2>5, <2>6 DEF InAPiece
<1>14. Takes(t, c, t4)
  BY <1>13 DEF Takes
<1> QED BY <1>10, <1>14 DEF Result, Split, t1, t2, t3, t4

(* One call, if the calls it makes are right.                               *)
LEMMA OneCall ==
    ASSUME NEW add, NEW c \in Corners, Recurses(add, c), NEW t \in Tables
    PROVE  Result(t, c, DirtyBody(add, t, c))
<1>1. CASE ~ValidArea(c) \/ \E d \in 1..t.n : Inside(c, t.a[d])
  BY <1>1, NothingToDo DEF DirtyBody
<1>2. CASE ValidArea(c) /\ \A d \in 1..t.n : ~Inside(c, t.a[d])
  <2> DEFINE kept == WithoutInside(t, c)
             hits == {d \in 1..kept.n : Overlap(c, kept.a[d])}
  <2>1. kept \in Tables /\ Remains(t, c, kept) /\ \A k \in 1..kept.n : ~Inside(kept.a[k], c)
    BY RemovesInside
  <2>2. \A k \in 1..kept.n : ~Inside(c, kept.a[k])
    BY <1>2, <2>1 DEF Remains
  <2>3. DirtyBody(add, t, c) = IF hits = {} THEN Added(kept, c) ELSE Split(add, kept, c, Min(hits))
    BY <1>2 DEF DirtyBody, Split
  <2>4. CASE hits = {}
    <3>1. \A d \in 1..kept.n : ~Overlap(c, kept.a[d])
      BY <2>4
    <3>2. DirtyBody(add, t, c) = Added(kept, c)
      BY <2>3, <2>4
    <3> HIDE DEF kept
    <3>3. Result(kept, c, Added(kept, c))
      BY <1>2, <2>1, <2>2, <3>1, AddedIsRight
    <3> QED BY <1>2, <2>1, <3>2, <3>3, AfterRemoval
  <2>5. CASE hits # {}
    <3> DEFINE d == Min(hits)
    <3>1. d \in hits
      <4>1. hits \subseteq Nat
        OBVIOUS
      <4> HIDE DEF hits
      <4> QED BY <2>5, <4>1, MinIsIn
    <3>2. DirtyBody(add, t, c) = Split(add, kept, c, d)
      BY <2>3, <2>5
    <3>3. d \in 1..kept.n /\ Overlap(c, kept.a[d])
      BY <3>1
    <3> HIDE DEF d, hits, kept
    <3>4. Firm(kept, c, kept.n)
      BY <2>1, TableType DEF Firm
    <3>5. Result(kept, c, Split(add, kept, c, d))
      BY <1>2, <2>1, <3>3, <3>4, SplitIsRight
    <3> QED BY <1>2, <2>1, <3>2, <3>5, AfterRemoval
  <2> QED BY <2>4, <2>5
<1> QED BY <1>1, <1>2

-----------------------------------------------------------------------------
(* The recursion ends: there is a function as Dirtied is defined to be, for  *)
(* a call depends on calls with smaller areas only.                         *)
SameBelow(f, g, c) == \A q \in Corners : Measure(q) < Measure(c) => f[q] = g[q]

LEMMA SplitIsSame ==
    ASSUME NEW f, NEW g, NEW c \in Corners, ValidArea(c), Recurses(f, c), SameBelow(f, g, c),
           NEW t \in Tables, NEW d \in 1..t.n, Overlap(c, t.a[d]), Firm(t, c, t.n)
    PROVE  Split(f, t, c, d) = Split(g, t, c, d)
<1> DEFINE t1 == WithAbove(f, t, c, d)
           t2 == WithBelow(f, t1, c, d)
           t3 == WithLeft(f, t2, c, d)
<1>1. ASSUME NEW u \in Tables, u.a[d] \in Corners, Overlap(c, u.a[d])
      PROVE  /\ WithAbove(f, u, c, d) = WithAbove(g, u, c, d)
             /\ WithBelow(f, u, c, d) = WithBelow(g, u, c, d)
             /\ WithLeft(f, u, c, d) = WithLeft(g, u, c, d)
             /\ WithRight(f, u, c, d) = WithRight(g, u, c, d)
  <2>1. \A q : PieceOf(q, c) => f[q] = g[q]
    BY DEF SameBelow, PieceOf
  <2>2. /\ c.ty < u.a[d].ty => PieceOf(AbovePiece(c, u.a[d]), c)
        /\ c.by > u.a[d].by => PieceOf(BelowPiece(c, u.a[d]), c)
        /\ c.lx < u.a[d].lx => PieceOf(LeftPiece(c, u.a[d]), c)
        /\ c.rx > u.a[d].rx => PieceOf(RightPiece(c, u.a[d]), c)
    BY <1>1, Pieces
  <2> QED BY <2>1, <2>2 DEF WithAbove, WithBelow, WithLeft, WithRight
<1>2. t.a[d] \in Corners
  BY TableType
<1>3. t1 = WithAbove(g, t, c, d) /\ Part(t, c, t1)
  BY <1>1, <1>2, FourSides
<1> HIDE DEF t1
<1>4. t1 \in Tables /\ t1.a[d] \in Corners /\ Overlap(c, t1.a[d])
  BY <1>3, EntryStays
<1>5. t2 = WithBelow(g, t1, c, d) /\ Part(t1, c, t2)
  BY <1>1, <1>4, FourSides
<1> HIDE DEF t2
<1>6. Part(t, c, t2)
  BY <1>3, <1>5, PartAfterPart
<1>7. t2 \in Tables /\ t2.a[d] \in Corners /\ Overlap(c, t2.a[d])
  BY <1>6, EntryStays
<1>8. t3 = WithLeft(g, t2, c, d) /\ Part(t2, c, t3)
  BY <1>1, <1>7, FourSides
<1> HIDE DEF t3
<1>9. Part(t, c, t3)
  BY <1>6, <1>8, PartAfterPart
<1>10. t3 \in Tables /\ t3.a[d] \in Corners /\ Overlap(c, t3.a[d])
  BY <1>9, EntryStays
<1>11. WithRight(f, t3, c, d) = WithRight(g, t3, c, d)
  BY <1>1, <1>10
<1>12. Split(f, t, c, d) = WithRight(f, t3, c, d)
  BY DEF Split, t1, t2, t3
<1>13. Split(g, t, c, d) = WithRight(g, t3, c, d)
  BY <1>3, <1>5, <1>8 DEF Split
<1> QED BY <1>11, <1>12, <1>13

LEMMA SameCalls ==
    ASSUME NEW f, NEW g, NEW c \in Corners, Recurses(f, c), SameBelow(f, g, c), NEW t \in Tables
    PROVE  DirtyBody(f, t, c) = DirtyBody(g, t, c)
<1>1. CASE ~ValidArea(c) \/ \E d \in 1..t.n : Inside(c, t.a[d])
  BY <1>1 DEF DirtyBody
<1>2. CASE ValidArea(c) /\ \A d \in 1..t.n : ~Inside(c, t.a[d])
  <2> DEFINE kept == WithoutInside(t, c)
             hits == {d \in 1..kept.n : Overlap(c, kept.a[d])}
             d == Min(hits)
  <2>1. kept \in Tables /\ \A k \in 1..kept.n : ~Inside(kept.a[k], c)
    BY RemovesInside
  <2>2. /\ DirtyBody(f, t, c) = IF hits = {} THEN Added(kept, c) ELSE Split(f, kept, c, d)
        /\ DirtyBody(g, t, c) = IF hits = {} THEN Added(kept, c) ELSE Split(g, kept, c, d)
    BY <1>2 DEF DirtyBody, Split
  <2>3. ASSUME hits # {} PROVE Split(f, kept, c, d) = Split(g, kept, c, d)
    <3>1. d \in hits
      <4>1. hits \subseteq Nat
        OBVIOUS
      <4> HIDE DEF hits
      <4> QED BY <2>3, <4>1, MinIsIn
    <3>2. d \in 1..kept.n /\ Overlap(c, kept.a[d])
      BY <3>1
    <3> HIDE DEF d, hits, kept
    <3>3. Firm(kept, c, kept.n)
      BY <2>1, TableType DEF Firm
    <3> QED BY <1>2, <2>1, <3>2, <3>3, SplitIsSame
  <2> HIDE DEF kept, hits, d
  <2> QED BY <2>2, <2>3
<1> QED BY <1>1, <1>2

Upto(n) == {c \in Corners : Measure(c) < n}
Solves(f, n) == f = [c \in Upto(n) |-> [t \in Tables |-> DirtyBody(f, t, c)]]

LEMMA SolvedIsRight ==
    ASSUME NEW n \in Nat, NEW f, Solves(f, n)
    PROVE  \A c \in Upto(n), t \in Tables : Result(t, c, f[c][t])
<1> DEFINE T == {k \in Nat : \E c \in Upto(n), t \in Tables : Measure(c) = k /\ ~Result(t, c, f[c][t])}
<1> SUFFICES ASSUME T # {} PROVE FALSE
  BY MeasureType DEF Upto
<1>1. PICK k \in T : \A y \in T : k <= y
  <2>1. T \subseteq Nat
    OBVIOUS
  <2> HIDE DEF T
  <2> QED BY <2>1, LeastOne
<1>2. PICK c \in Upto(n), t \in Tables : Measure(c) = k /\ ~Result(t, c, f[c][t])
  BY <1>1
<1>3. c \in Corners /\ Measure(c) < n
  BY DEF Upto
<1>4. Recurses(f, c)
  <2> SUFFICES ASSUME NEW q \in Corners, Measure(q) < Measure(c), NEW s \in Tables
               PROVE  Result(s, q, f[q][s])
    BY DEF Recurses
  <2>1. Measure(q) \in Nat /\ Measure(c) \in Nat
    BY <1>3, MeasureType
  <2>2. q \in Upto(n)
    BY <1>3, <2>1 DEF Upto
  <2>3. Measure(q) \notin T
    BY <1>1, <1>2, <2>1
  <2> QED BY <2>1, <2>2, <2>3
<1>5. f[c][t] = DirtyBody(f, t, c)
  BY DEF Solves
<1> QED BY <1>2, <1>3, <1>4, <1>5, OneCall

LEMMA SolutionExists ==
    ASSUME NEW n \in Nat
    PROVE  \E f : Solves(f, n)
<1> DEFINE T == {k \in Nat : ~\E f : Solves(f, k)}
<1> SUFFICES ASSUME T # {} PROVE FALSE
  OBVIOUS
<1>1. PICK k \in T : \A y \in T : k <= y
  <2>1. T \subseteq Nat
    OBVIOUS
  <2> HIDE DEF T
  <2> QED BY <2>1, LeastOne
<1>2. \A c \in Corners : Measure(c) \in Nat
  BY MeasureType
<1>3. CASE k = 0
  <2>1. Upto(k) = {}
    BY <1>2, <1>3 DEF Upto
  <2> DEFINE f == [c \in {} |-> c]
  <2>2. Solves(f, k)
    BY <2>1 DEF Solves
  <2> QED BY <2>2
<1>4. CASE k # 0
  <2>1. k - 1 \in Nat /\ k \in Nat /\ k - 1 \notin T
    BY <1>1, <1>4
  <2>2. PICK g : Solves(g, k - 1)
    BY <2>1
  <2> DEFINE f == [c \in Upto(k) |-> [t \in Tables |-> DirtyBody(g, t, c)]]
  <2>3. ASSUME NEW c \in Upto(k)
        PROVE  c \in Corners /\ Recurses(g, c) /\ SameBelow(g, f, c)
    <3>1. c \in Corners /\ Measure(c) < k
      BY DEF Upto
    <3>2. \A q \in Corners : Measure(q) < Measure(c) => q \in Upto(k - 1) /\ q \in Upto(k)
      BY <1>2, <2>1, <3>1 DEF Upto
    <3>3. Recurses(g, c)
      BY <2>1, <2>2, <3>2, SolvedIsRight DEF Recurses
    <3>4. ASSUME NEW q \in Corners, Measure(q) < Measure(c) PROVE g[q] = f[q]
      BY <2>2, <3>2, <3>4 DEF Solves
    <3> HIDE DEF f
    <3> QED BY <3>1, <3>3, <3>4 DEF SameBelow
  <2>4. \A c \in Upto(k) : f[c] = [t \in Tables |-> DirtyBody(g, t, c)]
    OBVIOUS
  <2>5. f = [c \in Upto(k) |-> f[c]]
    OBVIOUS
  <2> HIDE DEF f
  <2>6. ASSUME NEW c \in Upto(k) PROVE f[c] = [t \in Tables |-> DirtyBody(f, t, c)]
    BY <2>3, <2>4, SameCalls
  <2>7. Solves(f, k)
    BY <2>5, <2>6 DEF Solves
  <2> QED BY <2>7
<1> QED BY <1>3, <1>4

(* Dirty ends for every area and every table, with the table that its text   *)
(* says, and this is right: entries grow, stay apart and lose no pixel.      *)
THEOREM DirtyEnds ==
    \A c \in Corners, t \in Tables :
        Dirtied[c][t] = DirtyBody(Dirtied, t, c) /\ Result(t, c, Dirtied[c][t])
<1> DEFINE n == Width + Height + 1
<1>1. n \in Nat /\ Upto(n) = Corners
  <2>1. \A c \in Corners : Measure(c) < n
    BY CornersType DEF Measure, ValidArea
  <2> QED BY <2>1, SurfaceAssumption DEF Upto
<1> HIDE DEF n
<1>2. PICK f : Solves(f, n)
  BY <1>1, SolutionExists
<1>3. f = [c \in Corners |-> [t \in Tables |-> DirtyBody(f, t, c)]]
  BY <1>1, <1>2 DEF Solves
<1>4. Dirtied = [c \in Corners |-> [t \in Tables |-> DirtyBody(Dirtied, t, c)]]
  BY <1>3 DEF Dirtied
<1>5. Solves(Dirtied, n)
  BY <1>1, <1>4 DEF Solves
<1>6. ASSUME NEW c \in Corners, NEW t \in Tables
      PROVE  Dirtied[c][t] = DirtyBody(Dirtied, t, c)
  BY <1>4
<1>7. ASSUME NEW c \in Corners, NEW t \in Tables
      PROVE  Result(t, c, Dirtied[c][t])
  BY <1>1, <1>5, SolvedIsRight
<1> QED BY <1>6, <1>7

-----------------------------------------------------------------------------
(* From tables to the list and from entries to pixels.                      *)
LEMMA PixelIn ==
    ASSUME NEW c \in Corners, NEW p
    PROVE  /\ p \in Pixels(c) => p \in Int \X Int
           /\ p \in Int \X Int => (p \in Pixels(c) <=> In(p[1], p[2], c))
<1>0. c.lx \in Int /\ c.ty \in Int /\ c.rx \in Int /\ c.by \in Int
  BY CornersType
<1>1. (c.lx .. (c.rx - 1)) \subseteq Int /\ (c.ty .. (c.by - 1)) \subseteq Int
  BY <1>0
<1>2. p \in Pixels(c) => p \in Int \X Int
  BY <1>1 DEF Pixels
<1>3. ASSUME NEW x \in Int, NEW y \in Int
      PROVE  x \in c.lx .. (c.rx - 1) /\ y \in c.ty .. (c.by - 1) <=> In(x, y, c)
  BY <1>0 DEF In
<1>4. ASSUME p \in Int \X Int PROVE p \in Pixels(c) <=> In(p[1], p[2], c)
  <2>1. PICK x \in Int, y \in Int : p = <<x, y>>
    BY <1>4
  <2>2. p[1] = x /\ p[2] = y
    BY <2>1
  <2>3. p \in Pixels(c) <=> x \in c.lx .. (c.rx - 1) /\ y \in c.ty .. (c.by - 1)
    BY <2>1 DEF Pixels
  <2> QED BY <1>3, <2>2, <2>3
<1> QED BY <1>2, <1>4

LEMMA PixelsOfTwo ==
    ASSUME NEW c \in Corners, NEW e \in Corners
    PROVE  /\ Inside(c, e) => Pixels(c) \subseteq Pixels(e)
           /\ ~Overlap(c, e) => Pixels(c) \cap Pixels(e) = {}
           /\ ~ValidArea(c) => Pixels(c) = {}
<1>1. ASSUME Inside(c, e), NEW p \in Pixels(c) PROVE p \in Pixels(e)
  <2>1. p \in Int \X Int /\ In(p[1], p[2], c)
    BY <1>1, PixelIn
  <2>2. p[1] \in Int /\ p[2] \in Int
    BY <2>1
  <2>3. In(p[1], p[2], e)
    BY <1>1, <2>1, <2>2, CoveredInside
  <2> QED BY <2>1, <2>3, PixelIn
<1>2. ASSUME NEW p \in Pixels(c), p \in Pixels(e) PROVE Overlap(c, e)
  <2>1. p \in Int \X Int /\ In(p[1], p[2], c) /\ In(p[1], p[2], e)
    BY <1>2, PixelIn
  <2>2. p[1] \in Int /\ p[2] \in Int
    BY <2>1
  <2> QED BY <2>1, <2>2, CornersType DEF In, Overlap
<1>3. ASSUME NEW p \in Pixels(c) PROVE ValidArea(c)
  <2>1. p \in Int \X Int /\ In(p[1], p[2], c)
    BY <1>3, PixelIn
  <2>2. p[1] \in Int /\ p[2] \in Int
    BY <2>1
  <2> QED BY <2>1, <2>2, CornersType DEF In, ValidArea
<1> QED BY <1>1, <1>2, <1>3

(* What the list may be, and what sets the areas of it apart.               *)
ListOK(list) == list \in Seq(Areas) /\ Len(list) <= MaxDirty
Separate(list) == \A j, k \in 1..Len(list) : j # k => ~Overlap(list[j], list[k])

LEMMA CoveredBy ==
    ASSUME NEW list \in Seq(Areas), NEW p
    PROVE  p \in Covered(list) <=> \E k \in 1..Len(list) : list[k] \in Areas /\ p \in Pixels(list[k])
BY DEF Covered

(* What Dirty makes of the list, whatever the array holds behind it.        *)
LEMMA DirtyIsRight ==
    ASSUME NEW list, ListOK(list), NEW c \in Corners
    PROVE  /\ ListOK(Dirty(list, c))
           /\ list = <<Whole>> => Dirty(list, c) = <<Whole>>
           /\ \/ Dirty(list, c) = <<Whole>>
              \/ Covered(Dirty(list, c)) \subseteq Covered(list) \cup Pixels(c)
           /\ CopiesUp => /\ Separate(list) => Separate(Dirty(list, c))
                          /\ Covered(list) \cup Pixels(c) \subseteq Covered(Dirty(list, c))
<1> DEFINE a == [k \in 1..MaxDirty |-> IF k <= Len(list) THEN list[k] ELSE NoArea]
           t == [a |-> a, n |-> Len(list)]
           u == Dirtied[c][t]
           r == [k \in 1..u.n |-> u.a[k]]
<1>0. Len(list) \in Nat /\ MaxDirty \in Nat /\ Len(list) <= MaxDirty /\ list \in Seq(Areas)
      /\ \A k \in 1..Len(list) : list[k] \in Areas /\ list[k] \in Corners /\ ValidArea(list[k])
  BY MaxDirtyAssumption DEF ListOK, Areas
<1>1. NoArea \in Corners
  BY SurfaceAssumption DEF NoArea, Corner, Corners
<1>2. a \in [1..MaxDirty -> Corners] /\ \A k \in 1..Len(list) : a[k] = list[k]
  BY <1>0, <1>1
<1>3. Dirty(list, c) = r
  BY DEF Dirty
<1> HIDE DEF a
<1>4. t \in Tables /\ t.a = a /\ t.n = Len(list)
  BY <1>0, <1>2, TableOf
<1> HIDE DEF t
<1>5. Result(t, c, u)
  BY <1>4, DirtyEnds
<1>6. AllValid(t)
  BY <1>0, <1>2, <1>4 DEF AllValid
<1> HIDE DEF u
<1>7. Part(t, c, u) /\ u \in Tables /\ AllValid(u) /\ u.n \in Nat /\ u.n <= MaxDirty
      /\ \A k \in 1..u.n : u.a[k] \in Corners /\ ValidArea(u.a[k])
  BY <1>5, <1>6, TableType DEF Result, Part, AllValid
<1>8. r \in Seq(Areas) /\ Len(r) = u.n /\ \A k \in 1..u.n : r[k] = u.a[k]
  BY <1>7 DEF Areas
<1> HIDE DEF r
<1>9. ASSUME NEW p
      PROVE  /\ p \in Covered(list) <=> p \in Int \X Int /\ Covers(t, p[1], p[2])
             /\ p \in Covered(r) <=> p \in Int \X Int /\ Covers(u, p[1], p[2])
  <2>1. p \in Covered(list) <=> \E k \in 1..Len(list) : p \in Pixels(list[k])
    BY <1>0, CoveredBy
  <2>2. \A k \in 1..Len(list) : p \in Pixels(list[k]) <=> p \in Int \X Int /\ In(p[1], p[2], t.a[k])
    BY <1>0, <1>2, <1>4, PixelIn
  <2>3. p \in Covered(r) <=> \E k \in 1..Len(r) : p \in Pixels(r[k])
    BY <1>8, CoveredBy
  <2>4. \A k \in 1..Len(r) : p \in Pixels(r[k]) <=> p \in Int \X Int /\ In(p[1], p[2], u.a[k])
    BY <1>7, <1>8, PixelIn
  <2> QED BY <1>4, <1>8, <2>1, <2>2, <2>3, <2>4 DEF Covers
<1>10. IsFull(u) => r = <<Whole>>
  <2> SUFFICES ASSUME IsFull(u) PROVE r = <<Whole>>
    OBVIOUS
  <2>1. Len(r) = 1 /\ r[1] = Whole
    BY <1>8 DEF IsFull
  <2> QED BY <1>8, <2>1
<1>11. list = <<Whole>> => r = <<Whole>>
  <2> SUFFICES ASSUME list = <<Whole>> PROVE IsFull(u)
    BY <1>10
  <2>1. Len(list) = 1 /\ list[1] = Whole
    OBVIOUS
  <2>2. IsFull(t)
    BY <1>2, <1>4, <2>1 DEF IsFull
  <2> QED BY <1>7, <2>2 DEF Part
<1>12. r = <<Whole>> \/ Covered(r) \subseteq Covered(list) \cup Pixels(c)
  <2> SUFFICES ASSUME ~IsFull(u), NEW p \in Covered(r) PROVE p \in Covered(list) \cup Pixels(c)
    BY <1>10
  <2>1. p \in Int \X Int /\ p[1] \in Int /\ p[2] \in Int /\ Covers(u, p[1], p[2])
    BY <1>9
  <2>2. Covers(t, p[1], p[2]) \/ In(p[1], p[2], c)
    BY <1>6, <1>7, <2>1 DEF Part, NoMore
  <2> QED BY <1>9, <2>1, <2>2, PixelIn
<1>13. ASSUME CopiesUp PROVE Covered(list) \cup Pixels(c) \subseteq Covered(r)
  <2> SUFFICES ASSUME NEW p \in Covered(list) \cup Pixels(c) PROVE p \in Covered(r)
    OBVIOUS
  <2>1. p \in Int \X Int /\ (Covers(t, p[1], p[2]) \/ In(p[1], p[2], c))
    BY <1>9, PixelIn
  <2>2. p[1] \in Int /\ p[2] \in Int
    BY <2>1
  <2>3. Covers(u, p[1], p[2])
    BY <1>5, <1>6, <1>13, <2>1, <2>2 DEF Result, Part, Takes
  <2> QED BY <1>9, <2>1, <2>3
<1>14. ASSUME CopiesUp, Separate(list) PROVE Separate(r)
  <2>1. Apart(t)
    BY <1>2, <1>4, <1>14 DEF Apart, Separate
  <2>2. Apart(u)
    BY <1>6, <1>7, <1>14, <2>1 DEF Part
  <2> QED BY <1>8, <2>2 DEF Apart, Separate
<1>15. ListOK(r)
  BY <1>7, <1>8 DEF ListOK
<1> QED BY <1>3, <1>11, <1>12, <1>13, <1>14, <1>15

-----------------------------------------------------------------------------
(* The screen's invariants.                                                 *)
ScreenTypeOK ==
    /\ ListOK(m_dirtycorners)
    /\ dirtycorners \in Seq(Areas) /\ drawn \in Corners /\ drawing \in BOOLEAN
    /\ ~drawing => dirtycorners = <<>>

LEMMA CoveredHeadTail ==
    ASSUME NEW list \in Seq(Areas), list # <<>>
    PROVE  /\ Head(list) \in Areas /\ Tail(list) \in Seq(Areas)
           /\ Covered(list) = Pixels(Head(list)) \cup Covered(Tail(list))
<1>0. /\ Head(list) \in Areas /\ Tail(list) \in Seq(Areas) /\ Len(Tail(list)) = Len(list) - 1
      /\ \A k \in 1..Len(Tail(list)) : Tail(list)[k] = list[k + 1]
      /\ Len(list) \in Nat /\ Len(list) >= 1 /\ Head(list) = list[1]
  BY HeadTailProperties
<1>1. ASSUME NEW p, NEW k \in 1..Len(list), p \in Pixels(list[k])
      PROVE  p \in Pixels(Head(list)) \cup Covered(Tail(list))
  <2>1. CASE k = 1
    BY <1>0, <1>1, <2>1
  <2>2. CASE k # 1
    <3>1. k - 1 \in 1..Len(Tail(list)) /\ (k - 1) + 1 = k
      BY <1>0, <2>2
    <3>2. p \in Pixels(Tail(list)[k - 1])
      BY <1>0, <1>1, <3>1
    <3> QED BY <3>1, <3>2 DEF Covered
  <2> QED BY <2>1, <2>2
<1>2. ASSUME NEW p, NEW k \in 1..Len(Tail(list)), p \in Pixels(Tail(list)[k])
      PROVE  p \in Covered(list)
  <2>1. k + 1 \in 1..Len(list) /\ p \in Pixels(list[k + 1])
    BY <1>0, <1>2
  <2> QED BY <2>1 DEF Covered
<1>3. Pixels(Head(list)) \subseteq Covered(list)
  <2>1. 1 \in 1..Len(list)
    BY <1>0
  <2> QED BY <1>0, <2>1 DEF Covered
<1>4. Covered(list) \subseteq Pixels(Head(list)) \cup Covered(Tail(list))
  BY <1>1 DEF Covered
<1>5. Covered(Tail(list)) \subseteq Covered(list)
  BY <1>2 DEF Covered
<1> QED BY <1>0, <1>3, <1>4, <1>5

LEMMA EmptyCovers == Covered(<<>>) = {}
<1>1. 1..Len(<<>>) = {}
  OBVIOUS
<1> QED BY <1>1 DEF Covered

LEMMA WholeIsRight ==
    /\ ListOK(<<Whole>>) /\ Separate(<<Whole>>) /\ NoArea \in Corners
    /\ Covered(<<Whole>>) = Pixels(Whole) /\ Pixels(NoArea) = {}
<1>1. NoArea \in Corners /\ ~ValidArea(NoArea)
  BY SurfaceAssumption DEF NoArea, Corner, Corners, ValidArea
<1>2. Whole \in Areas
  BY SurfaceAssumption DEF Whole, Corner, Corners, ValidArea, Areas
<1>3. <<Whole>> \in Seq(Areas) /\ Len(<<Whole>>) = 1 /\ <<Whole>>[1] = Whole
  BY <1>2
<1>4. 1..Len(<<Whole>>) = {1}
  BY <1>3
<1>5. Covered(<<Whole>>) = Pixels(Whole)
  BY <1>3, <1>4 DEF Covered
<1>6. ListOK(<<Whole>>) /\ Separate(<<Whole>>)
  BY <1>3, <1>4, MaxDirtyAssumption DEF ListOK, Separate
<1> QED BY <1>1, <1>5, <1>6, PixelsOfTwo

(* Every change of the list is a call of Dirty with an area.                *)
LEMMA AreaOfAChange ==
    /\ \A c \in Areas : c \in Corners
    /\ \A c \in DrawChanges : c \in Corners
BY DrawChangesAssumption DEF Areas

LEMMA TypeInit == ScreenInit => ScreenTypeOK
<1>1. <<>> \in Seq(Areas)
  OBVIOUS
<1>2. ScreenInit => /\ ListOK(m_dirtycorners) /\ dirtycorners = <<>>
                    /\ drawn \in Corners /\ drawing = FALSE
  <2> SUFFICES ASSUME ScreenInit
               PROVE  /\ ListOK(m_dirtycorners) /\ dirtycorners = <<>>
                      /\ drawn \in Corners /\ drawing = FALSE
    OBVIOUS
  <2>1. m_dirtycorners = <<Whole>> /\ drawn = NoArea /\ dirtycorners = <<>> /\ drawing = FALSE
    BY DEF ScreenInit
  <2>2. ListOK(m_dirtycorners)
    BY <2>1, WholeIsRight
  <2>3. drawn \in Corners
    BY <2>1, WholeIsRight
  <2> QED BY <2>1, <2>2, <2>3
<1> QED BY <1>1, <1>2 DEF ScreenTypeOK

LEMMA TypeStep ==
    ASSUME ScreenTypeOK, [ScreenNext]_screenvars
    PROVE  ScreenTypeOK'
<1>1. ASSUME NEW c \in Corners, Invalidate(c) PROVE ScreenTypeOK'
  BY <1>1, DirtyIsRight DEF ScreenTypeOK, Invalidate
<1>2. CASE \E c \in Areas : Change(c)
  BY <1>1, <1>2, AreaOfAChange DEF Change
<1>3. CASE \E c \in DrawChanges : ChangeDuringDraw(c)
  BY <1>1, <1>3, AreaOfAChange DEF ChangeDuringDraw
<1>4. CASE StartDraw
  BY <1>4, WholeIsRight, MaxDirtyAssumption DEF ScreenTypeOK, StartDraw, ListOK
<1>5. CASE DrawArea
  <2>1. Head(dirtycorners) \in Areas /\ Tail(dirtycorners) \in Seq(Areas)
    BY <1>5, CoveredHeadTail DEF ScreenTypeOK, DrawArea
  <2>2. Head(dirtycorners) \in Corners
    BY <2>1, AreaOfAChange
  <2>3. drawn' \in Corners
    BY <1>5, <2>2, AroundBoth DEF ScreenTypeOK, DrawArea
  <2> QED BY <1>5, <2>1, <2>3 DEF ScreenTypeOK, DrawArea
<1>6. CASE ShowDrawn
  BY <1>6, WholeIsRight DEF ScreenTypeOK, ShowDrawn
<1>7. CASE UNCHANGED screenvars
  BY <1>7 DEF screenvars, ScreenTypeOK
<1> QED BY <1>2, <1>3, <1>4, <1>5, <1>6, <1>7 DEF ScreenNext

(* The list, Draw's copy of it and the returned box keep their types, and    *)
(* the list never outgrows the array.                                       *)
THEOREM ScreenTypeHolds == ScreenSpec => []ScreenTypeOK
<1>1. ScreenTypeOK /\ [ScreenNext]_screenvars => ScreenTypeOK'
  BY TypeStep
<1> QED BY TypeInit, <1>1, PTL DEF ScreenSpec

LEMMA PaintedStep ==
    ASSUME ScreenTypeOK, PaintedIsShown, [ScreenNext]_screenvars
    PROVE  PaintedIsShown'
<1>1. CASE \E c \in Areas : Change(c)
  BY <1>1 DEF Change, Invalidate, PaintedIsShown
<1>2. CASE \E c \in DrawChanges : ChangeDuringDraw(c)
  BY <1>2 DEF ChangeDuringDraw, Invalidate, PaintedIsShown
<1>3. CASE StartDraw
  BY <1>3 DEF StartDraw, PaintedIsShown
<1>4. CASE DrawArea
  <2> DEFINE dc == Head(dirtycorners)
  <2>1. dc \in Corners /\ drawn \in Corners
    BY <1>4, CoveredHeadTail, AreaOfAChange DEF ScreenTypeOK, DrawArea
  <2>2. /\ drawing /\ drawing' /\ unshown' = unshown \cup Pixels(dc)
        /\ drawn' = IF ValidArea(drawn) THEN Around(drawn, dc) ELSE dc
    BY <1>4 DEF DrawArea
  <2>3. unshown \subseteq Pixels(drawn)
    BY <2>2 DEF PaintedIsShown
  <2> HIDE DEF dc
  <2>4. CASE ValidArea(drawn)
    <3>1. Pixels(drawn) \subseteq Pixels(Around(drawn, dc)) /\ Pixels(dc) \subseteq Pixels(Around(drawn, dc))
      BY <2>1, AroundBoth, PixelsOfTwo
    <3> QED BY <2>2, <2>3, <2>4, <3>1 DEF PaintedIsShown
  <2>5. CASE ~ValidArea(drawn)
    <3>1. Pixels(drawn) = {}
      BY <2>1, <2>5, PixelsOfTwo
    <3> QED BY <2>2, <2>3, <2>5, <3>1 DEF PaintedIsShown
  <2> QED BY <2>4, <2>5
<1>5. CASE ShowDrawn
  BY <1>5 DEF ShowDrawn, PaintedIsShown
<1>6. CASE UNCHANGED screenvars
  BY <1>6 DEF screenvars, PaintedIsShown
<1> QED BY <1>1, <1>2, <1>3, <1>4, <1>5, <1>6 DEF ScreenNext

(* What a frame painted is within the box that Draw returns.                *)
THEOREM PaintedIsShownHolds == ScreenSpec => []PaintedIsShown
<1>1. ScreenInit => PaintedIsShown
  BY DEF ScreenInit, PaintedIsShown
<1>2. ScreenTypeOK /\ PaintedIsShown /\ [ScreenNext]_screenvars => PaintedIsShown'
  BY PaintedStep
<1> QED BY <1>1, <1>2, ScreenTypeHolds, PTL DEF ScreenSpec

LEMMA NothingExtraStep ==
    ASSUME ScreenTypeOK, NothingExtra, [ScreenNext]_screenvars
    PROVE  NothingExtra'
<1>1. ASSUME NEW c \in Corners, Invalidate(c) PROVE NothingExtra'
  <2>1. m_dirtycorners' = Dirty(m_dirtycorners, c) /\ asked' = asked \cup Pixels(c)
    BY <1>1 DEF Invalidate
  <2>2. /\ m_dirtycorners = <<Whole>> => m_dirtycorners' = <<Whole>>
        /\ \/ m_dirtycorners' = <<Whole>>
           \/ Covered(m_dirtycorners') \subseteq Covered(m_dirtycorners) \cup Pixels(c)
    BY <2>1, DirtyIsRight DEF ScreenTypeOK
  <2>3. CASE m_dirtycorners' = <<Whole>>
    BY <2>3 DEF NothingExtra
  <2>4. CASE m_dirtycorners' # <<Whole>>
    <3>1. Covered(m_dirtycorners') \subseteq asked'
      BY <2>1, <2>2, <2>4 DEF NothingExtra
    <3>2. (Covered(m_dirtycorners) \subseteq asked)' <=> Covered(m_dirtycorners') \subseteq asked'
      BY DEF Covered
    <3> QED BY <3>1, <3>2 DEF NothingExtra
  <2> QED BY <2>3, <2>4
<1>2. CASE \E c \in Areas : Change(c)
  BY <1>1, <1>2, AreaOfAChange DEF Change
<1>3. CASE \E c \in DrawChanges : ChangeDuringDraw(c)
  BY <1>1, <1>3, AreaOfAChange DEF ChangeDuringDraw
<1>4. CASE StartDraw
  BY <1>4, EmptyCovers DEF StartDraw, NothingExtra
<1>5. CASE DrawArea
  BY <1>5 DEF DrawArea, NothingExtra
<1>6. CASE ShowDrawn
  BY <1>6 DEF ShowDrawn, NothingExtra
<1>7. CASE UNCHANGED screenvars
  BY <1>7 DEF screenvars, NothingExtra
<1> QED BY <1>2, <1>3, <1>4, <1>5, <1>6, <1>7 DEF ScreenNext

(* Only what was asked for is painted, until the array is full.             *)
THEOREM NothingExtraHolds == ScreenSpec => []NothingExtra
<1>1. ScreenInit => NothingExtra
  BY DEF ScreenInit, NothingExtra
<1>2. ScreenTypeOK /\ NothingExtra /\ [ScreenNext]_screenvars => NothingExtra'
  BY NothingExtraStep
<1> QED BY <1>1, <1>2, ScreenTypeHolds, PTL DEF ScreenSpec

LEMMA ChangedStep ==
    ASSUME CopiesUp = TRUE, ScreenTypeOK, ChangedIsDirty, [ScreenNext]_screenvars
    PROVE  ChangedIsDirty'
<1>1. ASSUME NEW c \in Corners, Invalidate(c) PROVE ChangedIsDirty'
  <2>1. /\ m_dirtycorners' = Dirty(m_dirtycorners, c) /\ unpainted' = unpainted \cup Pixels(c)
        /\ dirtycorners' = dirtycorners
    BY <1>1 DEF Invalidate
  <2>2. Covered(m_dirtycorners) \cup Pixels(c) \subseteq Covered(m_dirtycorners')
    BY <2>1, DirtyIsRight DEF ScreenTypeOK
  <2> QED BY <2>1, <2>2 DEF ChangedIsDirty
<1>2. CASE \E c \in Areas : Change(c)
  BY <1>1, <1>2, AreaOfAChange DEF Change
<1>3. CASE \E c \in DrawChanges : ChangeDuringDraw(c)
  BY <1>1, <1>3, AreaOfAChange DEF ChangeDuringDraw
<1>4. CASE StartDraw
  <2>1. dirtycorners = <<>> /\ dirtycorners' = m_dirtycorners /\ m_dirtycorners' = <<>>
        /\ unpainted' = unpainted
    BY <1>4 DEF StartDraw, ScreenTypeOK
  <2> QED BY <2>1, EmptyCovers DEF ChangedIsDirty
<1>5. CASE DrawArea
  <2>1. Covered(dirtycorners) = Pixels(Head(dirtycorners)) \cup Covered(Tail(dirtycorners))
    BY <1>5, CoveredHeadTail DEF ScreenTypeOK, DrawArea
  <2>2. /\ dirtycorners' = Tail(dirtycorners) /\ m_dirtycorners' = m_dirtycorners
        /\ unpainted' = unpainted \ Pixels(Head(dirtycorners))
    BY <1>5 DEF DrawArea
  <2> QED BY <2>1, <2>2 DEF ChangedIsDirty
<1>6. CASE ShowDrawn
  BY <1>6 DEF ShowDrawn, ChangedIsDirty
<1>7. CASE UNCHANGED screenvars
  BY <1>7 DEF screenvars, ChangedIsDirty
<1> QED BY <1>2, <1>3, <1>4, <1>5, <1>6, <1>7 DEF ScreenNext

(* Nothing that changed is forgotten, if memcpy copies upwards.             *)
THEOREM ChangedIsDirtyHolds ==
    ASSUME CopiesUp = TRUE
    PROVE  ScreenSpec => []ChangedIsDirty
<1>1. ScreenInit => ChangedIsDirty
  BY WholeIsRight DEF ScreenInit, ChangedIsDirty
<1>2. ScreenTypeOK /\ ChangedIsDirty /\ [ScreenNext]_screenvars => ChangedIsDirty'
  BY ChangedStep
<1> QED BY <1>1, <1>2, ScreenTypeHolds, PTL DEF ScreenSpec

SeparateEntries == Separate(m_dirtycorners)

LEMMA SeparateStep ==
    ASSUME CopiesUp = TRUE, ScreenTypeOK, SeparateEntries, [ScreenNext]_screenvars
    PROVE  SeparateEntries'
<1>1. ASSUME NEW c \in Corners, Invalidate(c) PROVE SeparateEntries'
  BY <1>1, DirtyIsRight DEF ScreenTypeOK, Invalidate, SeparateEntries
<1>2. CASE \E c \in Areas : Change(c)
  BY <1>1, <1>2, AreaOfAChange DEF Change
<1>3. CASE \E c \in DrawChanges : ChangeDuringDraw(c)
  BY <1>1, <1>3, AreaOfAChange DEF ChangeDuringDraw
<1>4. CASE StartDraw
  BY <1>4 DEF StartDraw, SeparateEntries, Separate
<1>5. CASE UNCHANGED m_dirtycorners
  BY <1>5 DEF SeparateEntries
<1> QED BY <1>2, <1>3, <1>4, <1>5 DEF ScreenNext, DrawArea, ShowDrawn, screenvars

(* The entries of the list have no pixel in common, if memcpy copies upwards. *)
THEOREM DisjointHolds ==
    ASSUME CopiesUp = TRUE
    PROVE  ScreenSpec => []Disjoint
<1>1. ScreenInit => SeparateEntries
  BY WholeIsRight DEF ScreenInit, SeparateEntries
<1>2. ScreenTypeOK /\ SeparateEntries /\ [ScreenNext]_screenvars => SeparateEntries'
  BY SeparateStep
<1>3. ScreenTypeOK /\ SeparateEntries => Disjoint
  <2> SUFFICES ASSUME ScreenTypeOK, SeparateEntries,
                      NEW j \in 1..Len(m_dirtycorners), NEW k \in 1..Len(m_dirtycorners), j # k
               PROVE  Pixels(m_dirtycorners[j]) \cap Pixels(m_dirtycorners[k]) = {}
    BY DEF Disjoint
  <2>1. m_dirtycorners[j] \in Corners /\ m_dirtycorners[k] \in Corners
    BY AreaOfAChange DEF ScreenTypeOK, ListOK
  <2> QED BY <2>1, PixelsOfTwo DEF SeparateEntries, Separate
<1> QED BY <1>1, <1>2, <1>3, ScreenTypeHolds, PTL DEF ScreenSpec
=============================================================================
