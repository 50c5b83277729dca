--------------------------- MODULE LoadListProofs ---------------------------
(***************************************************************************)
(* LoadList for any lists, links and images and both kinds of mutex: its    *)
(* two threads use the access mutex as KMutex allows, so that they are      *)
(* never in the page's code together, and the page outlives its thread.     *)
(* LoadInv is about the lists: who is on them, and that numloading counts   *)
(* them.                                                                   *)
(***************************************************************************)
EXTENDS LoadList, SequenceTheorems, TLAPS

(* The flag m_shutdown and the places of the two threads.                   *)
ShutdownInv ==
  /\ ui \in {"running", "click"} => ~shutdown /\ pc # "ended"
  /\ ui = "destroy" => (pc = "ended" <=> ~shutdown)
  /\ ui = "gone" => pc = "ended" /\ ~shutdown
  /\ ui \in {"running", "click", "destroy", "gone"}

LEMMA ShutdownInvKept == ShutdownInv /\ [Next]_vars => ShutdownInv'
<1> SUFFICES ASSUME ShutdownInv, [Next]_vars PROVE ShutdownInv'
  OBVIOUS
<1> USE DEF ShutdownInv
<1>1. CASE UNCHANGED vars
  BY <1>1 DEF vars
<1>2. CASE UIStep
  <2>1. CASE Frame \/ ClearAborted
    BY <2>1 DEF Frame, ClearAborted
  <2>2. CASE Click \/ ClickDone
    BY <2>2 DEF Click, ClickDone
  <2>3. CASE Destroy
    BY <2>3 DEF Destroy
  <2>4. CASE Destroyed
    BY <2>4 DEF Destroyed
  <2>5. ASSUME NEW i \in Links, LocateLink(i) PROVE ShutdownInv'
    BY <2>5 DEF LocateLink, AsyncLoad
  <2>6. ASSUME NEW i \in Images, LocateImage(i) \/ Purge(i) PROVE ShutdownInv'
    BY <2>6 DEF LocateImage, Purge, AsyncLoad
  <2> QED
    BY <1>2, <2>1, <2>2, <2>3, <2>4, <2>5, <2>6 DEF UIStep
<1>3. CASE LoaderStep
  <2> USE DEF Goes
  <2>1. CASE Top
    BY <2>1 DEF Top
  <2>2. CASE StillActive \/ Collect \/ Collected \/ Reset \/ Call
    BY <2>2 DEF StillActive, Collect, Collected, Reset, Call
  <2>3. CASE Report \/ GetsAccess \/ ReleaseAccess
    BY <2>3 DEF Report, GetsAccess, ReleaseAccess
  <2>4. CASE Take \/ Filled \/ StartDownload
    BY <2>4 DEF Take, Filled, StartDownload
  <2> QED
    BY <1>3, <2>1, <2>2, <2>3, <2>4 DEF LoaderStep
<1>4. ASSUME NEW i \in Items, DownloadEnds(i) PROVE ShutdownInv'
  BY <1>4 DEF DownloadEnds
<1> QED
  BY <1>1, <1>2, <1>3, <1>4 DEF Next

(* The destructor goes on to free the page only when LoadListThread has     *)
(* left its loop.                                                          *)
THEOREM NoThreadAfterPageHolds == Spec => []NoThreadAfterPage
<1>1. Init => ShutdownInv
  BY DEF Init, ShutdownInv
<1>2. ShutdownInv => NoThreadAfterPage
  BY DEF ShutdownInv, NoThreadAfterPage
<1> QED
  BY <1>1, <1>2, ShutdownInvKept, PTL DEF Spec

-----------------------------------------------------------------------------
(* The access mutex, see DownloadProofs: who owns it and what its flag says. *)
OwnersMatch == \A p \in Actors : at[p] \in Owning <=> owner = p
FlagMatches == \A p \in Actors : owner = p => (locked <=> at[p] = "inside")
FreeMeansClear == owner = Nobody => locked = FALSE

MutexInv == MutexTypeOK /\ OwnersMatch /\ FlagMatches /\ FreeMeansClear

(* The mutex starts free, with its flag clear.                             *)
LEMMA MutexInitHolds == MutexInit => MutexInv
BY ActorAssumption DEF MutexInit, MutexInv, MutexTypeOK, OwnersMatch,
   FlagMatches, FreeMeansClear, Places, Owning

(* Every step of Lock, TryLock and UnLock keeps owner, flag and actors in   *)
(* agreement.                                                              *)
LEMMA MutexStepKeepsInv ==
  ASSUME MutexInv, [MutexNext]_mutexVars
  PROVE  MutexInv'
<1> USE ActorAssumption
<1> USE DEF MutexInv, MutexTypeOK, OwnersMatch, FlagMatches, FreeMeansClear,
            Places, Owning, Moves
<1>1. CASE UNCHANGED mutexVars
  BY <1>1 DEF mutexVars
<1>2. ASSUME NEW p \in Actors, Lock(p) PROVE MutexInv'
  BY <1>2 DEF Lock
<1>3. ASSUME NEW p \in Actors, TryLock(p) PROVE MutexInv'
  BY <1>3 DEF TryLock
<1>4. ASSUME NEW p \in Actors, Obtain(p) PROVE MutexInv'
  BY <1>4 DEF Obtain
<1>5. ASSUME NEW p \in Actors, TimeOut(p) PROVE MutexInv'
  BY <1>5 DEF TimeOut
<1>6. ASSUME NEW p \in Actors, Mark(p) PROVE MutexInv'
  BY <1>6 DEF Mark
<1>7. ASSUME NEW p \in Actors, UnLock(p) PROVE MutexInv'
  BY <1>7 DEF UnLock
<1>8. ASSUME NEW p \in Actors, Release(p) PROVE MutexInv'
  BY <1>8 DEF Release
<1> QED
  BY <1>1, <1>2, <1>3, <1>4, <1>5, <1>6, <1>7, <1>8 DEF MutexNext, MutexStep

LEMMA StepIsMutexStep == [Next]_vars => [MutexNext]_mutexVars
<1> SUFFICES ASSUME [Next]_vars PROVE [MutexNext]_mutexVars
  OBVIOUS
<1>0. UI \in Actors /\ Loader \in Actors
  BY LoadListAssumption
<1> USE DEF MutexNext, MutexStep
<1>1. CASE UNCHANGED vars
  BY <1>1 DEF vars
<1>2. CASE UIStep
  <2>1. CASE Frame
    BY <1>0, <2>1 DEF Frame
  <2>2. CASE Click \/ ClickDone \/ Destroy \/ Destroyed \/ ClearAborted
    BY <2>2 DEF Click, ClickDone, Destroy, Destroyed, ClearAborted
  <2>3. ASSUME NEW i \in Links, LocateLink(i) PROVE UNCHANGED mutexVars
    BY <2>3 DEF LocateLink, AsyncLoad
  <2>4. ASSUME NEW i \in Images, LocateImage(i) \/ Purge(i) PROVE UNCHANGED mutexVars
    BY <2>4 DEF LocateImage, Purge, AsyncLoad
  <2> QED
    BY <1>2, <2>1, <2>2, <2>3, <2>4 DEF UIStep
<1>3. CASE LoaderStep
  <2>1. CASE \/ Top \/ StillActive \/ Collect \/ Collected \/ Reset \/ Call
             \/ Take \/ Filled \/ StartDownload
    BY <2>1 DEF Top, StillActive, Collect, Collected, Reset, Call, Take, Filled,
                StartDownload
  <2>2. CASE Report \/ GetsAccess \/ ReleaseAccess
    BY <1>0, <2>2 DEF Report, GetsAccess, ReleaseAccess
  <2> QED
    BY <1>3, <2>1, <2>2 DEF LoaderStep
<1>4. ASSUME NEW i \in Items, DownloadEnds(i) PROVE UNCHANGED mutexVars
  BY <1>4 DEF DownloadEnds
<1> QED
  BY <1>1, <1>2, <1>3, <1>4 DEF Next

(* What is proved of the mutex alone holds of a page and its thread.        *)
THEOREM LoadListUsesMutex == Spec => MutexSpec
<1>1. Init => MutexInit
  BY DEF Init
<1> QED
  BY <1>1, StepIsMutexStep, PTL DEF Spec, MutexSpec

(* The access mutex is owned by the thread that is past its wait.          *)
THEOREM MutexInvHolds == Spec => []MutexInv
<1>1. Init => MutexInv
  BY MutexInitHolds DEF Init
<1>2. MutexInv /\ [Next]_vars => MutexInv'
  BY StepIsMutexStep, MutexStepKeepsInv
<1> QED
  BY <1>1, <1>2, PTL DEF Spec

(* LoadListThread is in the mutex's code where its own place says.          *)
AccessMatches ==
  /\ at \in [Actors -> Places]
  /\ pc \notin {"try", "call", "called"} => at[Loader] = "out"
  /\ pc = "try" => at[Loader] \in {"trywait", "marking"}
  /\ pc = "call" => at[Loader] = "inside"
  /\ pc = "called" => at[Loader] \in {"inside", "leaving"}

LEMMA AccessMatchesKept == AccessMatches /\ [Next]_vars => AccessMatches'
<1> SUFFICES ASSUME AccessMatches, [Next]_vars PROVE AccessMatches'
  OBVIOUS
<1>0. UI \in Actors /\ Loader \in Actors /\ UI # Loader
  BY LoadListAssumption
<1> USE DEF AccessMatches, Places, mutexVars
<1>1. CASE UNCHANGED vars
  BY <1>1 DEF vars
<1>2. CASE UIStep
  <2>1. CASE Frame
    <3>1. pc' = pc /\ at' \in [Actors -> Places] /\ at'[Loader] = at[Loader]
      BY <1>0, <2>1 DEF Frame, TryLock, Obtain, TimeOut, Mark, Release, UnLock, Moves
    <3> QED
      BY <3>1
  <2>2. CASE Click \/ ClickDone \/ Destroy \/ Destroyed \/ ClearAborted
    BY <2>2 DEF Click, ClickDone, Destroy, Destroyed, ClearAborted
  <2>3. ASSUME NEW i \in Links, LocateLink(i) PROVE AccessMatches'
    BY <2>3 DEF LocateLink, AsyncLoad
  <2>4. ASSUME NEW i \in Images, LocateImage(i) \/ Purge(i) PROVE AccessMatches'
    BY <2>4 DEF LocateImage, Purge, AsyncLoad
  <2> QED
    BY <1>2, <2>1, <2>2, <2>3, <2>4 DEF UIStep
<1>3. CASE LoaderStep
  <2> USE DEF Goes, Moves
  <2>1. CASE Top \/ StillActive \/ Collect \/ Collected \/ Reset
    BY <2>1 DEF Top, StillActive, Collect, Collected, Reset
  <2>2. CASE Call \/ Take \/ Filled \/ StartDownload
    BY <2>2 DEF Call, Take, Filled, StartDownload
  <2>3. CASE Report
    BY <1>0, <2>3 DEF Report, TryLock
  <2>4. CASE GetsAccess
    BY <1>0, <2>4 DEF GetsAccess, Obtain, TimeOut, Mark
  <2>5. CASE ReleaseAccess
    BY <1>0, <2>5 DEF ReleaseAccess, UnLock, Release
  <2> QED
    BY <1>3, <2>1, <2>2, <2>3, <2>4, <2>5 DEF LoaderStep
<1>4. ASSUME NEW i \in Items, DownloadEnds(i) PROVE AccessMatches'
  BY <1>4 DEF DownloadEnds
<1> QED
  BY <1>1, <1>2, <1>3, <1>4 DEF Next

(* The callbacks of finished loads run with access, and so never while the  *)
(* interface is in a frame: nobody else is in the page's code.              *)
CallbackIsAlone == pc = "call" => at[Loader] = "inside" /\ at[UI] \notin Owning

THEOREM CallbackIsAloneHolds == Spec => []CallbackIsAlone
<1>1. Init => AccessMatches
  BY LoadListAssumption DEF Init, MutexInit, AccessMatches, Places
<1>2. Spec => []AccessMatches
  BY <1>1, AccessMatchesKept, PTL DEF Spec
<1>3. AccessMatches /\ MutexInv => CallbackIsAlone
  BY LoadListAssumption
     DEF AccessMatches, MutexInv, OwnersMatch, CallbackIsAlone, Owning
<1> QED
  BY <1>2, <1>3, MutexInvHolds, PTL

-----------------------------------------------------------------------------
(* The lists and the counts.  The thread counts what a reset throws away,   *)
(* the interface subtracts it in a later step, and in between callbacks and *)
(* new requests move the count: it agrees with the lists because m_loadreset *)
(* is up only while a click waits, so that nobody else resets meanwhile.   *)
ListTypes ==
  /\ hi \in Seq(Items) /\ lo \in Seq(Items)
  /\ loading \in Seq(Items) /\ done \in Seq(Items)
  /\ asyncactive \in [Items -> BOOLEAN]
  /\ numloading \in Int /\ numskipped \in Nat
  /\ requests \in Nat /\ lost \in Nat /\ lost <= requests

ListsFit ==
  /\ Len(hi) <= HiRoom /\ Len(lo) <= LoRoom
  /\ Len(loading) <= MaxDownloads + 1

(* The index is inside the list or just behind it, and at its start but in  *)
(* the loop; a download being started is the list's last entry.            *)
ThreadPlaces ==
  /\ place \in 1 .. (Len(loading) + 1)
  /\ pc # "collect" => place = 1
  /\ pc # "start" => taken = NoItem
  /\ pc = "start" => /\ taken \in Items
                     /\ Len(loading) > 0 /\ loading[Len(loading)] = taken

ResetIsClicks == loadreset => ui = "click"

LoadInv ==
  /\ ListTypes
  /\ ListsFit
  /\ ThreadPlaces
  /\ ResetIsClicks
  /\ CountMatches
  /\ StartedIsListed

\* What the removal of one entry leaves.
LEMMA WithoutEntry ==
  ASSUME NEW list \in Seq(Items), NEW p \in 1 .. Len(list)
  PROVE  /\ RemoveAt(list, p) \in Seq(Items)
         /\ Len(RemoveAt(list, p)) = Len(list) - 1
         /\ \A j \in 1 .. Len(list) :
              j # p => \E k \in 1 .. (Len(list) - 1) : RemoveAt(list, p)[k] = list[j]
<1> DEFINE front == SubSeq(list, 1, p - 1)
           back == SubSeq(list, p + 1, Len(list))
<1>1. Len(list) \in Nat /\ p \in Nat /\ p >= 1 /\ p <= Len(list)
  OBVIOUS
<1>2. /\ front \in Seq(Items) /\ Len(front) = p - 1
      /\ \A j \in 1 .. (p - 1) : front[j] = list[j]
  BY <1>1
<1>3. /\ back \in Seq(Items) /\ Len(back) = Len(list) - p
      /\ \A j \in 1 .. (Len(list) - p) : back[j] = list[j + p]
  BY <1>1
<1>4. RemoveAt(list, p) = front \o back
  BY DEF RemoveAt
<1> HIDE DEF front, back
<1>5. /\ RemoveAt(list, p) \in Seq(Items) /\ Len(RemoveAt(list, p)) = Len(list) - 1
      /\ \A j \in 1 .. (Len(list) - 1) :
           RemoveAt(list, p)[j] = IF j < p THEN list[j] ELSE list[j + 1]
  BY <1>1, <1>2, <1>3, <1>4
<1>6. ASSUME NEW j \in 1 .. Len(list), j # p
      PROVE  \E k \in 1 .. (Len(list) - 1) : RemoveAt(list, p)[k] = list[j]
  <2>1. CASE j < p
    <3>1. j \in 1 .. (Len(list) - 1) /\ RemoveAt(list, p)[j] = list[j]
      BY <1>1, <1>5, <2>1
    <3> QED
      BY <3>1
  <2>2. CASE j > p
    <3>1. j - 1 \in 1 .. (Len(list) - 1) /\ RemoveAt(list, p)[j - 1] = list[j]
      BY <1>1, <1>5, <2>2
    <3> QED
      BY <3>1
  <2> QED
    BY <1>1, <1>6, <2>1, <2>2
<1> QED
  BY <1>5, <1>6

\* Before anything is asked for, all is empty.
LEMMA LoadInitHolds == Init => LoadInv
<1> SUFFICES ASSUME Init PROVE LoadInv
  OBVIOUS
<1> USE LoadListAssumption DEF Init
<1>1. ListTypes
  BY DEF ListTypes
<1>2. ListsFit /\ ThreadPlaces /\ ResetIsClicks
  BY DEF ListsFit, ThreadPlaces, ResetIsClicks
<1>3. CountMatches
  BY DEF CountMatches, Outstanding
<1>4. StartedIsListed
  BY DEF StartedIsListed
<1> QED
  BY <1>1, <1>2, <1>3, <1>4 DEF LoadInv

\* The steps that leave the lists and the counts alone.
LEMMA ListsUntouched ==
  ASSUME LoadInv,
         UNCHANGED <<lists, local, asyncactive, numloading, numskipped, requests, lost>>,
         pc' = "start" <=> pc = "start",
         pc' # "collect" => place = 1,
         loadreset' => ui' = "click",
         ui' = "click" /\ ~loadreset' <=> ui = "click" /\ ~loadreset
  PROVE  LoadInv'
<1> USE DEF LoadInv, lists, local
<1>1. ListTypes' /\ ListsFit' /\ ResetIsClicks'
  BY DEF ListTypes, ListsFit, ResetIsClicks
<1>2. ThreadPlaces'
  BY DEF ThreadPlaces
<1>3. CountMatches'
  BY DEF CountMatches, Outstanding
<1>4. StartedIsListed'
  BY DEF StartedIsListed
<1> QED
  BY <1>1, <1>2, <1>3, <1>4

\* What ClickDone will take off the count, and all that the count counts.
ToSubtract == IF ui = "click" /\ ~loadreset THEN numskipped ELSE 0
Counted == (Len(hi) + Len(lo) + lost) + (Len(loading) + Len(done)) + ToSubtract

LEMMA CountIsSum == ListTypes => (CountMatches <=> numloading = Counted)
<1> SUFFICES ASSUME ListTypes PROVE CountMatches <=> numloading = Counted
  OBVIOUS
<1>1. /\ Len(hi) \in Nat /\ Len(lo) \in Nat /\ Len(loading) \in Nat
      /\ Len(done) \in Nat /\ lost \in Nat /\ ToSubtract \in Nat
  BY DEF ListTypes, ToSubtract
<1>2. CountMatches <=> numloading = Len(hi) + Len(lo) + Len(loading) + Len(done) + lost + ToSubtract
  BY DEF CountMatches, Outstanding, ToSubtract
<1> QED
  BY <1>1, <1>2 DEF Counted

\* A step that moves the count as far as what it counts.
LEMMA CountMoves ==
  ASSUME ListTypes, CountMatches, ListTypes', NEW d \in Int,
         numloading' = numloading + d, Counted' = Counted + d
  PROVE  CountMatches'
<1>1. (numloading = Counted)'
  BY CountIsSum
<1> QED
  BY <1>1, CountIsSum, PTL

\* A request adds one to a list or to the lost, and one to the count.
LEMMA AsyncLoadKeepsInv ==
  ASSUME LoadInv, NEW i \in Items, AsyncLoad(i)
  PROVE  LoadInv'
<1> DEFINE longhi == Append(hi, i)
           longlo == Append(lo, i)
<1>1. /\ requests' = requests + 1 /\ numloading' = numloading + 1
      /\ UNCHANGED <<loading, done, place, taken, asyncactive, numskipped, loadreset, pc, ui>>
  BY DEF AsyncLoad, local
<1>2. \/ Len(hi) < HiRoom /\ hi' = longhi /\ lo' = lo /\ lost' = lost
      \/ Len(lo) < LoRoom /\ lo' = longlo /\ hi' = hi /\ lost' = lost
      \/ hi' = hi /\ lo' = lo /\ lost' = lost + 1
  <2>1. Len(hi) \in Nat /\ Len(lo) \in Nat /\ Len(hi) <= HiRoom /\ Len(lo) <= LoRoom
    BY DEF LoadInv, ListTypes, ListsFit
  <2>2. CASE i \in Links
    <3>1. i \notin Images
      BY <2>2, LoadListAssumption
    <3> QED
      BY <2>1, <2>2, <3>1, LoadListAssumption DEF AsyncLoad
  <2>3. CASE i \notin Links
    <3>1. i \in Images
      BY <2>3 DEF Items
    <3> QED
      BY <2>1, <2>3, <3>1, LoadListAssumption DEF AsyncLoad
  <2> QED
    BY <2>2, <2>3
<1>3. /\ longhi \in Seq(Items) /\ Len(longhi) = Len(hi) + 1
      /\ longlo \in Seq(Items) /\ Len(longlo) = Len(lo) + 1
  BY AppendProperties DEF LoadInv, ListTypes
<1> HIDE DEF longhi, longlo
<1> USE DEF LoadInv
<1>4. ListTypes'
  BY <1>1, <1>2, <1>3 DEF ListTypes
<1>5. ListsFit'
  BY <1>1, <1>2, <1>3, LoadListAssumption DEF ListTypes, ListsFit
<1>6. ThreadPlaces' /\ ResetIsClicks'
  BY <1>1 DEF ThreadPlaces, ResetIsClicks
<1>7. CountMatches'
  <2>1. /\ Len(hi) \in Nat /\ Len(lo) \in Nat /\ Len(loading) \in Nat
        /\ Len(done) \in Nat /\ lost \in Nat /\ ToSubtract \in Nat
    BY DEF ListTypes, ToSubtract
  <2>2. Len(hi') + Len(lo') + lost' = Len(hi) + Len(lo) + lost + 1
    <3>1. CASE hi' = longhi /\ lo' = lo /\ lost' = lost
      BY <1>3, <2>1, <3>1
    <3>2. CASE lo' = longlo /\ hi' = hi /\ lost' = lost
      BY <1>3, <2>1, <3>2
    <3>3. CASE hi' = hi /\ lo' = lo /\ lost' = lost + 1
      BY <2>1, <3>3
    <3> QED
      BY <1>2, <3>1, <3>2, <3>3
  <2>3. ToSubtract' = ToSubtract /\ loading' = loading /\ done' = done
    BY <1>1 DEF ToSubtract
  <2>4. Counted' = Counted + 1
    BY <2>1, <2>2, <2>3 DEF Counted
  <2> QED
    BY <1>1, <1>4, <2>4, CountMoves
<1>8. StartedIsListed'
  BY <1>1 DEF StartedIsListed
<1> QED
  BY <1>4, <1>5, <1>6, <1>7, <1>8

\* The interface's steps.
LEMMA UIStepKeepsCounts ==
  ASSUME LoadInv, UIStep
  PROVE  LoadInv'
<1>1. pc' = pc /\ (pc # "collect" => place = 1) /\ (loadreset => ui = "click")
      /\ ((\E i \in Items : AsyncLoad(i)) \/ UNCHANGED <<lists, local, requests, lost>>)
  BY DEF UIStep, Frame, Click, ClickDone, Destroy, Destroyed, ClearAborted,
         LocateLink, LocateImage, Purge, AsyncLoad, Items, LoadInv, ThreadPlaces, ResetIsClicks
<1>2. CASE Frame \/ ClearAborted \/ \E i \in Images : Purge(i)
  BY <1>1, <1>2, ListsUntouched DEF Frame, ClearAborted, Purge
<1>3. CASE Click \/ Destroy \/ Destroyed
  BY <1>1, <1>3, ListsUntouched DEF Click, Destroy, Destroyed
<1>4. CASE ClickDone
  <2> USE <1>4 DEF ClickDone, LoadInv, lists, local
  <2>1. ListTypes' /\ ListsFit' /\ ThreadPlaces' /\ ResetIsClicks' /\ StartedIsListed'
    BY DEF ListTypes, ListsFit, ThreadPlaces, ResetIsClicks, StartedIsListed
  <2>2. CountMatches'
    BY DEF CountMatches, Outstanding, ListTypes
  <2> QED
    BY <2>1, <2>2
<1>5. CASE \E i \in Items : AsyncLoad(i)
  BY <1>5, AsyncLoadKeepsInv
<1> QED
  BY <1>2, <1>3, <1>4, <1>5 DEF UIStep, LocateLink, LocateImage, Items

\* The end of a download takes nothing off a list.
LEMMA DownloadEndsKeepsCounts ==
  ASSUME LoadInv, NEW i \in Items, DownloadEnds(i)
  PROVE  LoadInv'
<1> USE DEF LoadInv, DownloadEnds, lists, local
<1>1. ListTypes' /\ ListsFit' /\ ThreadPlaces' /\ ResetIsClicks'
  BY DEF ListTypes, ListsFit, ThreadPlaces, ResetIsClicks
<1>2. CountMatches'
  BY DEF CountMatches, Outstanding
<1>3. StartedIsListed'
  BY DEF StartedIsListed, ListTypes
<1> QED
  BY <1>1, <1>2, <1>3

\* An entry found inactive moves from loadinglist to donelist.
LEMMA CollectKeepsInv ==
  ASSUME LoadInv, Collect
  PROVE  LoadInv'
<1> DEFINE item == loading[place]
           shorter == RemoveAt(loading, place)
           longer == Append(done, item)
<1>1. /\ pc = "collect" /\ place <= Len(loading) /\ ~asyncactive[item]
      /\ loading' = shorter /\ done' = longer
      /\ UNCHANGED <<hi, lo, place, taken, asyncactive, numloading, numskipped,
                    loadreset, pc, ui, requests, lost>>
  BY DEF Collect, local
<1> USE DEF LoadInv
<1>2. Len(loading) \in Nat /\ place \in 1 .. Len(loading) /\ item \in Items
  BY <1>1 DEF ListTypes, ThreadPlaces
<1>3. /\ shorter \in Seq(Items) /\ Len(shorter) = Len(loading) - 1
      /\ \A j \in 1 .. Len(loading) :
           j # place => \E k \in 1 .. (Len(loading) - 1) : shorter[k] = loading[j]
  BY <1>2, WithoutEntry DEF ListTypes
<1>4. longer \in Seq(Items) /\ Len(longer) = Len(done) + 1
  BY <1>2, AppendProperties DEF ListTypes
<1> HIDE DEF shorter, longer
<1>5. ListTypes'
  BY <1>1, <1>3, <1>4 DEF ListTypes
<1>6. ListsFit'
  BY <1>1, <1>2, <1>3, LoadListAssumption DEF ListsFit
<1>7. ThreadPlaces' /\ ResetIsClicks'
  BY <1>1, <1>2, <1>3 DEF ThreadPlaces, ResetIsClicks
<1>8. CountMatches'
  <2>1. /\ Len(hi) \in Nat /\ Len(lo) \in Nat /\ Len(loading) \in Nat
        /\ Len(done) \in Nat /\ lost \in Nat /\ ToSubtract \in Nat /\ numloading \in Int
    BY DEF ListTypes, ToSubtract
  <2>2. ToSubtract' = ToSubtract /\ hi' = hi /\ lo' = lo /\ lost' = lost
    BY <1>1 DEF ToSubtract
  <2>3. Len(loading') + Len(done') = Len(loading) + Len(done)
    BY <1>1, <1>3, <1>4, <2>1
  <2>4. Counted' = Counted + 0
    BY <2>1, <2>2, <2>3 DEF Counted
  <2>5. numloading' = numloading + 0
    BY <1>1, <2>1
  <2> QED
    BY <1>5, <2>4, <2>5, CountMoves
<1>9. StartedIsListed'
  <2> SUFFICES ASSUME NEW i \in Items, asyncactive[i]
               PROVE  \E k \in 1 .. Len(shorter) : shorter[k] = i
    BY <1>1 DEF StartedIsListed
  <2>1. PICK j \in 1 .. Len(loading) : loading[j] = i
    BY DEF StartedIsListed
  <2>2. j # place
    BY <1>1, <2>1
  <2> QED
    BY <1>3, <2>1, <2>2
<1> QED
  BY <1>5, <1>6, <1>7, <1>8, <1>9

\* The step to the next entry, and the one that leaves the loop.
LEMMA WalkKeepsInv ==
  ASSUME LoadInv, StillActive \/ Collected
  PROVE  LoadInv'
<1> USE DEF LoadInv, StillActive, Collected, Goes, lists
<1>1. ListTypes' /\ ListsFit' /\ ResetIsClicks'
  BY DEF ListTypes, ListsFit, ResetIsClicks
<1>2. ThreadPlaces'
  BY DEF ThreadPlaces, ListTypes
<1>3. CountMatches'
  BY DEF CountMatches, Outstanding
<1>4. StartedIsListed'
  BY DEF StartedIsListed
<1> QED
  BY <1>1, <1>2, <1>3, <1>4

\* What a reset throws away is what it counts, for Click to subtract.
LEMMA ResetKeepsInv ==
  ASSUME LoadInv, Reset
  PROVE  LoadInv'
<1> USE DEF LoadInv
<1>1. CASE ~loadreset
  BY <1>1, ListsUntouched DEF Reset, Goes, lists, local, ThreadPlaces, ResetIsClicks
<1>2. CASE loadreset
  <2>1. /\ numskipped' = Len(hi) + Len(lo) + Len(done) /\ ~loadreset' /\ ui = "click"
        /\ hi' = <<>> /\ lo' = <<>> /\ done' = <<>> /\ pc' = "report" /\ pc = "reset"
        /\ UNCHANGED <<loading, place, taken, asyncactive, numloading, ui, requests, lost>>
    BY <1>2 DEF Reset, Goes, local, ResetIsClicks
  <2>2. /\ Len(hi) \in Nat /\ Len(lo) \in Nat /\ Len(loading) \in Nat
        /\ Len(done) \in Nat /\ lost \in Nat /\ numloading \in Int
    BY DEF ListTypes
  <2>3. ListTypes'
    BY <2>1, <2>2 DEF ListTypes
  <2>4. ListsFit' /\ ThreadPlaces' /\ ResetIsClicks'
    BY <2>1, LoadListAssumption DEF ListsFit, ThreadPlaces, ResetIsClicks
  <2>5. CountMatches'
    <3>1. ToSubtract = 0 /\ ToSubtract' = Len(hi) + Len(lo) + Len(done)
      BY <1>2, <2>1 DEF ToSubtract
    <3>2. Len(hi') = 0 /\ Len(lo') = 0 /\ Len(done') = 0
      BY <2>1
    <3>3. Counted' = Counted + 0
      BY <2>1, <2>2, <3>1, <3>2 DEF Counted
    <3>4. numloading' = numloading + 0
      BY <2>1, <2>2
    <3> QED
      BY <2>3, <3>3, <3>4, CountMoves
  <2>6. StartedIsListed'
    BY <2>1 DEF StartedIsListed
  <2> QED
    BY <2>3, <2>4, <2>5, <2>6
<1> QED
  BY <1>1, <1>2

\* The callbacks take off the count what they take off the list.
LEMMA CallKeepsInv ==
  ASSUME LoadInv, Call
  PROVE  LoadInv'
<1> USE DEF LoadInv
<1>1. /\ numloading' = numloading - Len(done) /\ done' = <<>>
      /\ pc = "call" /\ pc' = "called"
      /\ UNCHANGED <<hi, lo, loading, place, taken, asyncactive, numskipped,
                    loadreset, ui, requests, lost>>
  BY DEF Call, Goes, local
<1>2. /\ Len(hi) \in Nat /\ Len(lo) \in Nat /\ Len(loading) \in Nat
      /\ Len(done) \in Nat /\ lost \in Nat /\ ToSubtract \in Nat /\ numloading \in Int
  BY DEF ListTypes, ToSubtract
<1>3. ListTypes'
  BY <1>1, <1>2 DEF ListTypes
<1>4. ListsFit' /\ ThreadPlaces' /\ ResetIsClicks'
  BY <1>1 DEF ListsFit, ThreadPlaces, ResetIsClicks
<1>5. CountMatches'
  <2>1. ToSubtract' = ToSubtract
    BY <1>1 DEF ToSubtract
  <2>2. Len(done') = 0
    BY <1>1
  <2>3. Counted' = Counted + (0 - Len(done))
    BY <1>1, <1>2, <2>1, <2>2 DEF Counted
  <2>4. numloading' = numloading + (0 - Len(done)) /\ 0 - Len(done) \in Int
    BY <1>1, <1>2
  <2> QED
    BY <1>3, <2>3, <2>4, CountMoves
<1>6. StartedIsListed'
  BY <1>1 DEF StartedIsListed
<1> QED
  BY <1>3, <1>4, <1>5, <1>6

\* The oldest entry of a queue becomes the last of loadinglist.
LEMMA TakeKeepsInv ==
  ASSUME LoadInv, Take
  PROVE  LoadInv'
<1> DEFINE longer == Append(loading, taken')
<1>1. /\ pc = "fill" /\ pc' = "start" /\ Len(loading) <= MaxDownloads
      /\ loading' = longer
      /\ \/ hi # <<>> /\ taken' = Head(hi) /\ hi' = Tail(hi) /\ lo' = lo
         \/ lo # <<>> /\ taken' = Head(lo) /\ lo' = Tail(lo) /\ hi' = hi
      /\ UNCHANGED <<done, place, asyncactive, numloading, numskipped,
                    loadreset, ui, requests, lost>>
  BY DEF Take
<1> USE DEF LoadInv
<1>2. /\ hi # <<>> => Head(hi) \in Items /\ Tail(hi) \in Seq(Items) /\ Len(Tail(hi)) = Len(hi) - 1
      /\ lo # <<>> => Head(lo) \in Items /\ Tail(lo) \in Seq(Items) /\ Len(Tail(lo)) = Len(lo) - 1
  BY HeadTailProperties DEF ListTypes
<1>3. taken' \in Items
  BY <1>1, <1>2
<1>4. /\ longer \in Seq(Items) /\ Len(longer) = Len(loading) + 1
      /\ longer[Len(loading) + 1] = taken'
      /\ \A k \in 1 .. Len(loading) : longer[k] = loading[k]
  BY <1>3, AppendProperties DEF ListTypes
<1> HIDE DEF longer
<1>5. /\ Len(hi) \in Nat /\ Len(lo) \in Nat /\ Len(loading) \in Nat
      /\ Len(done) \in Nat /\ lost \in Nat /\ ToSubtract \in Nat /\ numloading \in Int
  BY DEF ListTypes, ToSubtract
<1>6. hi' \in Seq(Items) /\ lo' \in Seq(Items) /\ Len(hi') + Len(lo') = Len(hi) + Len(lo) - 1
      /\ Len(hi') <= Len(hi) /\ Len(lo') <= Len(lo) /\ Len(hi') \in Nat /\ Len(lo') \in Nat
  <2>1. CASE hi' = Tail(hi) /\ hi # <<>> /\ lo' = lo
    <3> DEFINE rest == Tail(hi)
    <3>1. hi' = rest /\ rest \in Seq(Items) /\ Len(rest) = Len(hi) - 1 /\ Len(rest) \in Nat
      BY <1>2, <2>1
    <3> HIDE DEF rest
    <3> QED
      BY <1>5, <2>1, <3>1 DEF ListTypes
  <2>2. CASE lo' = Tail(lo) /\ lo # <<>> /\ hi' = hi
    <3> DEFINE rest == Tail(lo)
    <3>1. lo' = rest /\ rest \in Seq(Items) /\ Len(rest) = Len(lo) - 1 /\ Len(rest) \in Nat
      BY <1>2, <2>2
    <3> HIDE DEF rest
    <3> QED
      BY <1>5, <2>2, <3>1 DEF ListTypes
  <2> QED
    BY <1>1, <2>1, <2>2
<1>7. ListTypes'
  BY <1>1, <1>4, <1>6 DEF ListTypes
<1>8. ListsFit'
  BY <1>1, <1>4, <1>5, <1>6, LoadListAssumption DEF ListsFit
<1>9. ThreadPlaces' /\ ResetIsClicks'
  BY <1>1, <1>3, <1>4, <1>5 DEF ThreadPlaces, ResetIsClicks
<1>10. CountMatches'
  <2>1. ToSubtract' = ToSubtract
    BY <1>1 DEF ToSubtract
  <2>2. Len(loading') = Len(loading) + 1
    BY <1>1, <1>4
  <2>3. Counted' = Counted + 0
    BY <1>1, <1>5, <1>6, <2>1, <2>2 DEF Counted
  <2>4. numloading' = numloading + 0
    BY <1>1, <1>5
  <2> QED
    BY <1>7, <2>3, <2>4, CountMoves
<1>11. StartedIsListed'
  <2> SUFFICES ASSUME NEW i \in Items, asyncactive[i]
               PROVE  \E k \in 1 .. Len(longer) : longer[k] = i
    BY <1>1 DEF StartedIsListed
  <2>1. PICK j \in 1 .. Len(loading) : loading[j] = i
    BY DEF StartedIsListed
  <2>2. j \in 1 .. Len(longer) /\ longer[j] = i
    BY <1>4, <1>5, <2>1
  <2> QED
    BY <2>2
<1> QED
  BY <1>7, <1>8, <1>9, <1>10, <1>11

\* What is started is the last entry of the list.
LEMMA StartKeepsInv ==
  ASSUME LoadInv, StartDownload
  PROVE  LoadInv'
<1> USE DEF LoadInv
<1>1. /\ pc = "start" /\ pc' = "fill" /\ taken' = NoItem
      /\ asyncactive' = [asyncactive EXCEPT ![taken] = TRUE]
      /\ UNCHANGED <<hi, lo, loading, done, place, numloading, numskipped,
                    loadreset, ui, requests, lost>>
  BY DEF StartDownload, Goes, lists
<1>2. ListTypes' /\ ListsFit' /\ ResetIsClicks'
  BY <1>1 DEF ListTypes, ListsFit, ResetIsClicks
<1>3. ThreadPlaces'
  BY <1>1 DEF ThreadPlaces
<1>4. CountMatches'
  BY <1>1 DEF CountMatches, Outstanding
<1>5. StartedIsListed'
  <2> SUFFICES ASSUME NEW i \in Items, asyncactive'[i]
               PROVE  \E k \in 1 .. Len(loading) : loading[k] = i
    BY <1>1 DEF StartedIsListed
  <2>1. CASE i = taken
    <3>1. Len(loading) \in 1 .. Len(loading) /\ loading[Len(loading)] = i
      BY <1>1, <2>1 DEF ListTypes, ThreadPlaces
    <3> QED
      BY <3>1
  <2>2. CASE i # taken
    BY <1>1, <2>2 DEF ListTypes, StartedIsListed
  <2> QED
    BY <2>1, <2>2
<1> QED
  BY <1>2, <1>3, <1>4, <1>5

LEMMA LoadInvKept == LoadInv /\ [Next]_vars => LoadInv'
<1> SUFFICES ASSUME LoadInv, [Next]_vars PROVE LoadInv'
  OBVIOUS
<1>1. (pc # "collect" => place = 1) /\ (loadreset => ui = "click")
  BY DEF LoadInv, ThreadPlaces, ResetIsClicks
<1>2. CASE UNCHANGED vars
  BY <1>1, <1>2, ListsUntouched DEF vars
<1>3. CASE LoaderStep
  <2>1. CASE Top \/ Filled
    BY <1>1, <2>1, ListsUntouched DEF Top, Filled, Goes
  <2>2. CASE Report \/ GetsAccess \/ ReleaseAccess
    BY <1>1, <2>2, ListsUntouched DEF Report, GetsAccess, ReleaseAccess, Goes
  <2> QED
    BY <1>3, <2>1, <2>2, CollectKeepsInv, WalkKeepsInv, ResetKeepsInv,
       CallKeepsInv, TakeKeepsInv, StartKeepsInv DEF LoaderStep
<1> QED
  BY <1>2, <1>3, UIStepKeepsCounts, DownloadEndsKeepsCounts DEF Next

(* Lists, counts and the thread's place agree in every state.              *)
THEOREM LoadInvHolds == Spec => []LoadInv
BY LoadInitHolds, LoadInvKept, PTL DEF Spec

(* The lists hold items only, fit in their room, and what the thread is     *)
(* about to start it has put on loadinglist.                               *)
THEOREM TypeOKHolds == Spec => []TypeOK
<1>1. MutexInv /\ LoadInv => TypeOK
  BY LoadListAssumption
     DEF MutexInv, LoadInv, ListTypes, ListsFit, ThreadPlaces, TypeOK, Items
<1> QED
  BY <1>1, LoadInvHolds, MutexInvHolds, PTL

(* The status line's number is that of the callbacks still to come and of   *)
(* the items lost, for lists of any size and any number of requests.       *)
THEOREM CountMatchesHolds == Spec => []CountMatches
<1>1. LoadInv => CountMatches
  BY DEF LoadInv
<1> QED
  BY <1>1, LoadInvHolds, PTL

(* A download that runs is on loadinglist, also when its item is on it      *)
(* twice and one of the two has been taken off.                            *)
THEOREM StartedIsListedHolds == Spec => []StartedIsListed
<1>1. LoadInv => StartedIsListed
  BY DEF LoadInv
<1> QED
  BY <1>1, LoadInvHolds, PTL

=============================================================================
