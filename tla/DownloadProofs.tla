--------------------------- MODULE DownloadProofs ---------------------------
(***************************************************************************)
(* Downloads of src/kguidl.cpp, for any number of entries and threads and   *)
(* for both kinds of mutex.                                                 *)
(*                                                                          *)
(* A thread is safe on its entry as long as m_active stays set while it     *)
(* runs: then AsyncDownLoad, for a patient client, and the destructor do    *)
(* not go on before the thread has ended.  That is ThreadsAreActive, and it *)
(* needs OneThreadPerEntry itself, because the thread that closes clears    *)
(* the flag for all threads of the entry.  ResultInv, for what is reported  *)
(* and polled, needs it for the same reason: two threads of one entry would *)
(* write one m_status.                                                     *)
(*                                                                          *)
(* First the mutex by itself (KMutex, src/kguimutex.cpp): it keeps its      *)
(* actors apart and none of its asserts can fail, for any number of threads *)
(* and for both kinds of wait.  Exclusive and AssertsHold are not           *)
(* inductive: what carries them is that an actor past its wait owns the     *)
(* operating system's mutex, and that the flag says exactly whether that    *)
(* owner is between Mark and UnLock.                                        *)
(***************************************************************************)
EXTENDS Download, TLAPS

OwnersMatch == \A p \in Actors : at[p] \in Owning <=> owner = p
FlagMatches == \A p \in Actors : owner = p => (locked <=> at[p] = "inside")
FreeMeansClear == owner = Nobody => locked = FALSE

MutexInv == MutexTypeOK /\ OwnersMatch /\ FlagMatches /\ FreeMeansClear

(* The mutex starts free, with its flag clear.                             *)
LEMMA MutexInitHolds == MutexInit => MutexInv
BY ActorAssumption DEF MutexInit, MutexInv, MutexTypeOK, OwnersMatch,
   FlagMatches, FreeMeansClear, Places, Owning

(* Every step of Lock, TryLock and UnLock keeps owner, flag and actors in   *)
(* agreement.                                                              *)
LEMMA MutexStepKeepsInv ==
  ASSUME MutexInv, [MutexNext]_mutexVars
  PROVE  MutexInv'
<1> USE ActorAssumption
<1> USE DEF MutexInv, MutexTypeOK, OwnersMatch, FlagMatches, FreeMeansClear,
            Places, Owning, Moves
<1>1. CASE UNCHANGED mutexVars
  BY <1>1 DEF mutexVars
<1>2. ASSUME NEW p \in Actors, Lock(p) PROVE MutexInv'
  BY <1>2 DEF Lock
<1>3. ASSUME NEW p \in Actors, TryLock(p) PROVE MutexInv'
  BY <1>3 DEF TryLock
<1>4. ASSUME NEW p \in Actors, Obtain(p) PROVE MutexInv'
  BY <1>4 DEF Obtain
<1>5. ASSUME NEW p \in Actors, TimeOut(p) PROVE MutexInv'
  BY <1>5 DEF TimeOut
<1>6. ASSUME NEW p \in Actors, Mark(p) PROVE MutexInv'
  BY <1>6 DEF Mark
<1>7. ASSUME NEW p \in Actors, UnLock(p) PROVE MutexInv'
  BY <1>7 DEF UnLock
<1>8. ASSUME NEW p \in Actors, Release(p) PROVE MutexInv'
  BY <1>8 DEF Release
<1> QED
  BY <1>1, <1>2, <1>3, <1>4, <1>5, <1>6, <1>7, <1>8 DEF MutexNext, MutexStep

(* The agreement of owner, flag and actors is an invariant.                *)
THEOREM MutexInvHolds == MutexSpec => []MutexInv
<1>1. MutexInit => MutexInv
  BY MutexInitHolds
<1>2. MutexInv /\ [MutexNext]_mutexVars => MutexInv'
  BY MutexStepKeepsInv
<1> QED
  BY <1>1, <1>2, PTL DEF MutexSpec

(* What the invariant says of any state.                                   *)
LEMMA MutexInvGivesSafety == MutexInv => Exclusive /\ AssertsHold /\ FlagHasOwner
<1> SUFFICES ASSUME MutexInv PROVE Exclusive /\ AssertsHold /\ FlagHasOwner
  OBVIOUS
<1> USE DEF MutexInv, MutexTypeOK, OwnersMatch, FlagMatches, FreeMeansClear, Owning
<1>1. Exclusive
  BY DEF Exclusive
<1>2. AssertsHold
  BY DEF AssertsHold
<1>3. FlagHasOwner
  BY DEF FlagHasOwner
<1> QED
  BY <1>1, <1>2, <1>3

(* Two threads are never both past Lock or TryLock.                        *)
THEOREM ExclusiveHolds == MutexSpec => []Exclusive
BY MutexInvHolds, MutexInvGivesSafety, PTL

(* The asserts of kguimutex.cpp never fail.                                *)
THEOREM AssertsNeverFail == MutexSpec => []AssertsHold
BY MutexInvHolds, MutexInvGivesSafety, PTL

(* A set m_locked has an owner inside, who will clear it.                  *)
THEOREM FlagHasOwnerHolds == MutexSpec => []FlagHasOwner
BY MutexInvHolds, MutexInvGivesSafety, PTL

-----------------------------------------------------------------------------

(* The fields the argument is about, and their types.                      *)
FieldTypes ==
  /\ active \in [Entries -> BOOLEAN]
  /\ alive \in [Entries -> BOOLEAN]
  /\ asyncactive \in [Entries -> BOOLEAN]
  /\ pc \in [Threads -> Running \cup {"unborn", "ended"}]
  /\ entry \in [Threads -> Entries \cup {NoEntry}]
  /\ \A t \in Threads : pc[t] \in Running => entry[t] \in Entries

ThreadsAreActive ==
  \A t \in Threads : pc[t] \in Running => active[entry[t]] /\ alive[entry[t]]

(* What the interface is in the middle of, it does to an entry that exists, *)
(* and it starts or deletes only an entry without an active thread.        *)
UIHasEntry ==
  /\ ui \in [do : {"nothing", "wait to start", "wait to delete", "start", "delete"},
             for : Entries \cup {NoEntry}]
  /\ ui.do # "nothing" => ui.for \in Entries /\ alive[ui.for]
  /\ ui.do \in {"start", "delete"} => ~active[ui.for]

EntryInv == FieldTypes /\ ThreadsAreActive /\ OneThreadPerEntry /\ UIHasEntry

-----------------------------------------------------------------------------
(* No thread runs before the first download.                               *)
LEMMA EntryInitHolds == Init => EntryInv
BY DEF Init, EntryInv, FieldTypes, ThreadsAreActive, OneThreadPerEntry,
       UIHasEntry, Calm, Running

(* The steps of a running thread that do not end it.                       *)
LEMMA RunningStep ==
  ASSUME EntryInv, NEW t \in Threads, pc[t] \in Running, NEW to \in Running,
         pc' = [pc EXCEPT ![t] = to],
         asyncactive' \in [Entries -> BOOLEAN],
         UNCHANGED <<active, alive, entry, ui>>
  PROVE  EntryInv'
BY DEF EntryInv, FieldTypes, ThreadsAreActive, OneThreadPerEntry, UIHasEntry, Running

(* The steps that change none of the fields of the argument.               *)
LEMMA QuietStep ==
  ASSUME EntryInv, UNCHANGED <<pc, active, alive, asyncactive, entry, ui>>
  PROVE  EntryInv'
BY DEF EntryInv, FieldTypes, ThreadsAreActive, OneThreadPerEntry, UIHasEntry

(* Every step of a download thread keeps the invariant.                    *)
LEMMA ThreadStepKeepsInv ==
  ASSUME EntryInv, NEW t \in Threads, ThreadStep(t)
  PROVE  EntryInv'
<1>0. \/ entry[t] \in Entries /\ asyncactive \in [Entries -> BOOLEAN]
      \/ pc[t] \notin Running
  BY DEF EntryInv, FieldTypes
<1>1. CASE Begin(t)
  BY <1>1, RunningStep DEF Begin, Goes, flags, Running, EntryInv, FieldTypes
<1>2. CASE Fetch(t)
  BY <1>2, RunningStep, ZenonT(30) DEF Fetch, Goes, flags, Running, EntryInv, FieldTypes
<1>3. CASE FetchAborted(t)
  BY <1>3, RunningStep DEF FetchAborted, Goes, flags, Running, EntryInv, FieldTypes
<1>4. CASE Done(t)
  BY <1>4, RunningStep DEF Done, Goes, flags, Running, EntryInv, FieldTypes
<1>5. CASE Report(t)
  BY <1>5, RunningStep DEF Report, Goes, flags, Running, EntryInv, FieldTypes
<1>6. CASE TryAccess(t)
  BY <1>6, RunningStep, QuietStep DEF TryAccess, Goes, flags, Running, EntryInv, FieldTypes
<1>7. CASE GetsAccess(t)
  BY <1>7, RunningStep, QuietStep DEF GetsAccess, Goes, flags, Running, EntryInv, FieldTypes
<1>8. CASE Call(t)
  BY <1>8, RunningStep DEF Call, Goes, flags, Running, EntryInv, FieldTypes
<1>9. CASE ReleaseAccess(t)
  BY <1>9, RunningStep, QuietStep DEF ReleaseAccess, Goes, flags, Running, EntryInv, FieldTypes
<1>10. CASE Finish(t)
  <2>1. asyncactive' \in [Entries -> BOOLEAN]
    BY <1>10 DEF Finish, Set, EntryInv, FieldTypes
  <2> QED
    BY <1>10, <2>1, RunningStep DEF Finish, Goes, Running
<1>11. CASE Close(t)
  <2>1. active' = [active EXCEPT ![entry[t]] = FALSE] /\ pc' = [pc EXCEPT ![t] = "ended"]
        /\ pc[t] = "close" /\ UNCHANGED <<alive, asyncactive, entry, ui>>
    BY <1>11 DEF Close, Goes, Set
  <2> QED
    BY <2>1 DEF EntryInv, FieldTypes, ThreadsAreActive, OneThreadPerEntry,
                UIHasEntry, Running
<1> QED
  BY <1>1, <1>2, <1>3, <1>4, <1>5, <1>6, <1>7, <1>8, <1>9, <1>10, <1>11
     DEF ThreadStep

(* Every step of the interface keeps it, when the client is patient.       *)
LEMMA UIStepKeepsInv ==
  ASSUME EntryInv, Patient, UIStep
  PROVE  EntryInv'
<1> USE DEF flags, local
<1>1. CASE EnterFrame
  BY <1>1, QuietStep DEF EnterFrame
<1>2. CASE WaitForFrame
  BY <1>2, QuietStep DEF WaitForFrame
<1>3. CASE LeaveFrame
  BY <1>3, QuietStep DEF LeaveFrame
<1> USE DEF EntryInv, FieldTypes, ThreadsAreActive, OneThreadPerEntry, UIHasEntry, Running
<1>4. CASE WaitFinished
  <2>1. ui' \in {[ui EXCEPT !.do = "start"], [ui EXCEPT !.do = "delete"]}
    BY <1>4 DEF WaitFinished
  <2>2. ui.for \in Entries /\ alive[ui.for] /\ ~active[ui.for]
    BY <1>4 DEF WaitFinished
  <2>3. ui'.do \in {"start", "delete"} /\ ui'.for = ui.for
    BY <2>1
  <2> QED
    BY <1>4, <2>2, <2>3 DEF WaitFinished
<1>5. CASE StartNone
  BY <1>5 DEF StartNone, Calm
<1>6. CASE Delete
  BY <1>6 DEF Delete, Calm
<1>7. ASSUME NEW t \in Threads, Start(t) PROVE EntryInv'
  <2> DEFINE e == ui.for
  <2>1. e \in Entries /\ alive[e] /\ ~active[e] /\ pc[t] = "unborn"
    BY <1>7 DEF Start, Goes
  <2>2. /\ pc' = [pc EXCEPT ![t] = "begin"] /\ entry' = [entry EXCEPT ![t] = e]
        /\ active' = [active EXCEPT ![e] = TRUE] /\ alive' = alive
        /\ asyncactive' = [asyncactive EXCEPT ![e] = TRUE] /\ ui' = Calm
    BY <1>7 DEF Start, Goes
  <2>3. \A s \in Threads : s # t /\ pc[s] \in Running => entry[s] # e
    BY <2>1
  <2> HIDE DEF e
  <2>4. FieldTypes'
    BY <2>1, <2>2
  <2>5. ThreadsAreActive' /\ OneThreadPerEntry'
    <3>1. \A s \in Threads : s # t => pc'[s] = pc[s] /\ entry'[s] = entry[s]
      BY <2>2
    <3>2. entry'[t] = e /\ active'[e]
      BY <2>1, <2>2
    <3>3. ThreadsAreActive'
      BY <2>1, <2>2, <2>3, <3>1, <3>2, ZenonT(30)
    <3>4. OneThreadPerEntry'
      <4> SUFFICES ASSUME NEW s \in Threads, NEW u \in Threads,
                          pc'[s] \in Running, pc'[u] \in Running,
                          entry'[s] = entry'[u], s # u
                   PROVE  FALSE
        BY DEF OneThreadPerEntry
      <4>1. CASE s # t /\ u # t
        <5>1. pc[s] = pc'[s] /\ pc[u] = pc'[u] /\ entry[s] = entry[u]
          BY <3>1, <4>1
        <5>2. pc[s] \in Running /\ pc[u] \in Running
          BY <5>1
        <5> QED
          BY <5>1, <5>2
      <4>2. CASE s = t
        BY <2>3, <3>1, <3>2, <4>2
      <4>3. CASE u = t
        BY <2>3, <3>1, <3>2, <4>3
      <4> QED
        BY <4>1, <4>2, <4>3
    <3> QED
      BY <3>3, <3>4
  <2>6. UIHasEntry'
    BY <2>2 DEF Calm
  <2> QED
    BY <2>4, <2>5, <2>6
<1>8. ASSUME NEW e \in Entries, AsyncDownLoad(e) PROVE EntryInv'
  BY <1>8 DEF AsyncDownLoad, MayAct
<1>9. ASSUME NEW e \in Entries, Destroy(e) PROVE EntryInv'
  BY <1>9 DEF Destroy, MayAct
<1>10. ASSUME NEW e \in Entries, Abort(e) PROVE EntryInv'
  BY <1>10 DEF Abort
<1> QED
  BY <1>1, <1>2, <1>3, <1>4, <1>5, <1>6, <1>7, <1>8, <1>9, <1>10 DEF UIStep

(* With a patient client the invariant holds in every state.               *)
THEOREM EntryInvHolds == ASSUME Patient PROVE Spec => []EntryInv
<1>1. Init => EntryInv
  BY EntryInitHolds
<1>2. EntryInv /\ [Next]_vars => EntryInv'
  <2> SUFFICES ASSUME EntryInv, [Next]_vars PROVE EntryInv'
    OBVIOUS
  <2>1. CASE UNCHANGED vars
    BY <2>1, QuietStep DEF vars, flags, local
  <2> QED
    BY <2>1, ThreadStepKeepsInv, UIStepKeepsInv DEF Next
<1> QED
  BY <1>1, <1>2, PTL DEF Spec

(* No two threads ever run Download on one entry.                          *)
THEOREM OneThreadHolds == ASSUME Patient PROVE Spec => []OneThreadPerEntry
<1>1. EntryInv => OneThreadPerEntry
  BY DEF EntryInv
<1> QED
  BY <1>1, EntryInvHolds, PTL

(* No thread runs on a deleted entry: the destructor does wait.            *)
THEOREM DeletedIsLeftAloneHolds == ASSUME Patient PROVE Spec => []DeletedIsLeftAlone
<1>1. EntryInv => DeletedIsLeftAlone
  BY DEF EntryInv, ThreadsAreActive, DeletedIsLeftAlone
<1> QED
  BY <1>1, EntryInvHolds, PTL

-----------------------------------------------------------------------------
(* What a thread found out is the entry's status until another thread is    *)
(* started on the entry, and that does not happen before the first one has  *)
(* ended.  A thread stopped before its first request has nothing to show    *)
(* for it, but the abort that stopped it stays set, so that it never        *)
(* reports.                                                                *)
Outcomes == Statuses \cup {"none", "aborted"}

ResultTypes ==
  /\ abort \in [Entries -> BOOLEAN]
  /\ status \in [Entries -> Statuses]
  /\ latest \in [Entries -> Threads \cup {UI}]
  /\ result \in [Threads -> Outcomes]
  /\ reported \in [Threads -> Outcomes]

(* The thread that runs on an entry is the last one started on it.         *)
RunningIsLatest ==
  /\ \A t \in Threads : pc[t] \in Running => latest[entry[t]] = t
  /\ \A e \in Entries :
       latest[e] # UI => entry[latest[e]] = e /\ pc[latest[e]] # "unborn"

(* Past its first step, that thread's result is the entry's status.        *)
LatestWroteStatus ==
  \A e \in Entries :
    latest[e] # UI /\ pc[latest[e]] # "begin" /\ result[latest[e]] # "aborted"
      => status[e] = result[latest[e]]

AbortedIsSilent ==
  \A t \in Threads :
    result[t] = "aborted" =>
      /\ pc[t] \in {"done", "report", "finish", "close", "ended"}
      /\ pc[t] \in Running => abort[entry[t]]

ReportedAtEnd ==
  \A t \in Threads :
    reported[t] # "none" =>
      /\ pc[t] \in {"unlock", "finish", "close", "ended"}
      /\ reported[t] = result[t]

IdleIsOver ==
  \A e \in Entries :
    ~asyncactive[e] /\ latest[e] # UI => pc[latest[e]] \in {"close", "ended"}

ResultInv ==
  /\ ResultTypes
  /\ RunningIsLatest
  /\ LatestWroteStatus
  /\ AbortedIsSilent
  /\ ReportedAtEnd
  /\ IdleIsOver

LEMMA ResultInitHolds == Init => ResultInv
BY DownloadAssumption
   DEF Init, ResultInv, ResultTypes, RunningIsLatest, LatestWroteStatus,
       AbortedIsSilent, ReportedAtEnd, IdleIsOver, Outcomes, Statuses, Running

(* A running thread works for an entry of its own.                         *)
LEMMA OwnEntry ==
  ASSUME FieldTypes, RunningIsLatest, NEW t \in Threads, pc[t] \in Running
  PROVE  /\ entry[t] \in Entries
         /\ latest[entry[t]] = t
         /\ \A e \in Entries : latest[e] = t => e = entry[t]
BY DownloadAssumption DEF FieldTypes, RunningIsLatest

(* The steps that at most set an abort.                                    *)
LEMMA AbortStep ==
  ASSUME ResultInv, FieldTypes, abort' \in [Entries -> BOOLEAN],
         \A e \in Entries : abort[e] => abort'[e],
         UNCHANGED <<pc, entry, asyncactive, status, latest, result, reported>>
  PROVE  ResultInv'
BY DEF ResultInv, ResultTypes, RunningIsLatest, LatestWroteStatus,
       AbortedIsSilent, ReportedAtEnd, IdleIsOver, FieldTypes

(* The steps of a thread that only move it.                                *)
LEMMA MoveStep ==
  ASSUME ResultInv, FieldTypes, NEW t \in Threads,
         pc[t] \in Running \ {"begin", "finish", "close"},
         NEW to \in Running \ {"begin", "close"},
         result[t] = "aborted" => to \in {"done", "report", "finish"},
         reported[t] # "none" => to \in {"unlock", "finish"},
         pc' = [pc EXCEPT ![t] = to],
         UNCHANGED <<entry, abort, asyncactive, status, latest, result, reported>>
  PROVE  ResultInv'
<1> USE DEF FieldTypes
<1>1. \A s \in Threads : pc'[s] = IF s = t THEN to ELSE pc[s]
  OBVIOUS
<1>2. entry[t] \in Entries /\ latest[entry[t]] = t
      /\ \A e \in Entries : latest[e] = t => e = entry[t]
  BY OwnEntry DEF ResultInv
<1>3. ResultTypes'
  BY DEF ResultInv, ResultTypes
<1>4. RunningIsLatest'
  BY <1>1, <1>2, DownloadAssumption DEF ResultInv, RunningIsLatest, ResultTypes, Running
<1>5. LatestWroteStatus'
  BY <1>1, <1>2 DEF ResultInv, LatestWroteStatus, ResultTypes
<1>6. AbortedIsSilent'
  BY <1>1 DEF ResultInv, AbortedIsSilent
<1>7. ReportedAtEnd'
  BY <1>1 DEF ResultInv, ReportedAtEnd
<1>8. IdleIsOver'
  BY <1>1, <1>2 DEF Running, ResultInv, IdleIsOver, ResultTypes
<1> QED
  BY <1>3, <1>4, <1>5, <1>6, <1>7, <1>8 DEF ResultInv

(* A step of a thread that writes the status writes its own result: the     *)
(* first step, and the answer of the server.                               *)
LEMMA WriteStep ==
  ASSUME ResultInv, FieldTypes, NEW t \in Threads, pc[t] \in {"begin", "fetch"},
         NEW to \in {"fetch", "done"}, NEW found \in Statuses,
         pc' = [pc EXCEPT ![t] = to],
         status' \in [Entries -> Statuses],
         \A e \in Entries : status'[e] = IF e = entry[t] THEN found ELSE status[e],
         result' = [result EXCEPT ![t] = found],
         UNCHANGED <<entry, abort, asyncactive, latest, reported>>
  PROVE  ResultInv'
<1> USE DEF FieldTypes
<1>1. \A s \in Threads : pc'[s] = IF s = t THEN to ELSE pc[s]
  OBVIOUS
<1>2. entry[t] \in Entries /\ latest[entry[t]] = t
      /\ \A e \in Entries : latest[e] = t => e = entry[t]
  BY OwnEntry DEF ResultInv, Running
<1>3. \A s \in Threads : result'[s] = IF s = t THEN found ELSE result[s]
  BY DEF ResultInv, ResultTypes
<1>4. reported[t] = "none" /\ found # "aborted"
  BY DEF ResultInv, ReportedAtEnd, Statuses
<1>5. ResultTypes'
  BY DEF ResultInv, ResultTypes, Outcomes
<1>6. RunningIsLatest'
  BY <1>1, <1>2, DownloadAssumption DEF ResultInv, RunningIsLatest, ResultTypes, Running
<1>7. LatestWroteStatus'
  <2> SUFFICES ASSUME NEW e \in Entries, latest'[e] # UI, pc'[latest'[e]] # "begin",
                      result'[latest'[e]] # "aborted"
               PROVE  status'[e] = result'[latest'[e]]
    BY DEF LatestWroteStatus
  <2>1. latest[e] \in Threads /\ latest'[e] = latest[e]
    BY DEF ResultInv, ResultTypes
  <2>2. CASE e = entry[t]
    BY <2>1, <2>2, <1>2, <1>3
  <2>3. CASE e # entry[t]
    BY <2>1, <2>3, <1>1, <1>2, <1>3 DEF ResultInv, LatestWroteStatus
  <2> QED
    BY <2>2, <2>3
<1>8. AbortedIsSilent'
  BY <1>1, <1>3, <1>4 DEF ResultInv, AbortedIsSilent
<1>9. ReportedAtEnd'
  BY <1>1, <1>3, <1>4 DEF ResultInv, ReportedAtEnd
<1>10. IdleIsOver'
  BY <1>1, <1>2 DEF Running, ResultInv, IdleIsOver, ResultTypes
<1> QED
  BY <1>5, <1>6, <1>7, <1>8, <1>9, <1>10 DEF ResultInv

(* A thread aborted before its first request: the abort is still set.      *)
LEMMA BeginAborted ==
  ASSUME ResultInv, FieldTypes, NEW t \in Threads, pc[t] = "begin",
         abort[entry[t]],
         pc' = [pc EXCEPT ![t] = "done"],
         result' = [result EXCEPT ![t] = "aborted"],
         UNCHANGED <<entry, abort, asyncactive, status, latest, reported>>
  PROVE  ResultInv'
<1> USE DEF FieldTypes
<1>1. \A s \in Threads : pc'[s] = IF s = t THEN "done" ELSE pc[s]
  OBVIOUS
<1>2. entry[t] \in Entries /\ latest[entry[t]] = t
      /\ \A e \in Entries : latest[e] = t => e = entry[t]
  BY OwnEntry DEF ResultInv, Running
<1>3. \A s \in Threads : result'[s] = IF s = t THEN "aborted" ELSE result[s]
  BY DEF ResultInv, ResultTypes
<1>4. reported[t] = "none"
  BY DEF ResultInv, ReportedAtEnd
<1>5. ResultTypes'
  BY DEF ResultInv, ResultTypes, Outcomes
<1>6. RunningIsLatest'
  BY <1>1, <1>2, DownloadAssumption DEF ResultInv, RunningIsLatest, ResultTypes, Running
<1>7. LatestWroteStatus'
  BY <1>1, <1>2, <1>3 DEF ResultInv, LatestWroteStatus, ResultTypes
<1>8. AbortedIsSilent'
  BY <1>1, <1>3 DEF ResultInv, AbortedIsSilent
<1>9. ReportedAtEnd'
  BY <1>1, <1>3, <1>4 DEF ResultInv, ReportedAtEnd
<1>10. IdleIsOver'
  BY <1>1, <1>2 DEF Running, ResultInv, IdleIsOver, ResultTypes
<1> QED
  BY <1>5, <1>6, <1>7, <1>8, <1>9, <1>10 DEF ResultInv

(* A thread asks the server only while all it has to show is the failure it *)
(* starts with: a second try follows a first one that failed.               *)
RetryAfterFailure ==
  /\ pc \in [Threads -> Running \cup {"unborn", "ended"}]
  /\ again \in [Threads -> BOOLEAN]
  /\ result \in [Threads -> Outcomes]
  /\ \A t \in Threads :
       /\ again[t] => pc[t] = "done" /\ result[t] = "ERROR"
       /\ pc[t] = "fetch" => result[t] = "ERROR"

LEMMA RetryAfterFailureKept == RetryAfterFailure /\ [Next]_vars => RetryAfterFailure'
<1> SUFFICES ASSUME RetryAfterFailure, [Next]_vars PROVE RetryAfterFailure'
  OBVIOUS
<1> USE DEF RetryAfterFailure, Running
<1>1. CASE UNCHANGED vars
  BY <1>1 DEF vars, local, history
<1>2. ASSUME NEW t \in Threads, ThreadStep(t) PROVE RetryAfterFailure'
  <2> USE DEF Goes, history
  <2>1. CASE Begin(t)
    BY <2>1 DEF Begin, Outcomes, Statuses
  <2>2. CASE Fetch(t)
    BY <2>2 DEF Fetch, Outcomes, Statuses
  <2>3. CASE FetchAborted(t)
    BY <2>3 DEF FetchAborted
  <2>4. CASE Done(t)
    BY <2>4 DEF Done
  <2>5. CASE Report(t)
    BY <2>5 DEF Report
  <2>6. CASE TryAccess(t)
    BY <2>6 DEF TryAccess
  <2>7. CASE GetsAccess(t)
    BY <2>7 DEF GetsAccess
  <2>8. CASE Call(t)
    BY <2>8 DEF Call
  <2>9. CASE ReleaseAccess(t)
    BY <2>9 DEF ReleaseAccess
  <2>10. CASE Finish(t)
    BY <2>10 DEF Finish
  <2>11. CASE Close(t)
    BY <2>11 DEF Close
  <2> QED
    BY <1>2, <2>1, <2>2, <2>3, <2>4, <2>5, <2>6, <2>7, <2>8, <2>9, <2>10, <2>11
       DEF ThreadStep
<1>3. CASE UIStep
  <2>1. ASSUME NEW t \in Threads, Start(t) PROVE RetryAfterFailure'
    BY <2>1 DEF Start, Goes
  <2>2. \/ UNCHANGED <<pc, again, result>>
        \/ \E t \in Threads : Start(t)
    BY <1>3 DEF UIStep, EnterFrame, WaitForFrame, LeaveFrame, WaitFinished,
                StartNone, Delete, AsyncDownLoad, Destroy, Abort, local, history
  <2> QED
    BY <2>1, <2>2
<1> QED
  BY <1>1, <1>2, <1>3 DEF Next

(* Every step of a download thread keeps results and status together.      *)
LEMMA ThreadStepKeepsResults ==
  ASSUME ResultInv, FieldTypes, RetryAfterFailure, NEW t \in Threads, ThreadStep(t)
  PROVE  ResultInv'
<1> USE DEF Goes, flags, history
<1>1. /\ result[t] = "aborted" => pc[t] \in {"done", "report", "finish", "close", "ended"}
      /\ result[t] = "aborted" /\ pc[t] \in Running => abort[entry[t]]
      /\ reported[t] # "none" => pc[t] \in {"unlock", "finish", "close", "ended"}
  BY DEF ResultInv, AbortedIsSilent, ReportedAtEnd
<1>2. pc[t] \in Running => entry[t] \in Entries /\ latest[entry[t]] = t
                            /\ \A e \in Entries : latest[e] = t => e = entry[t]
  BY OwnEntry DEF ResultInv
<1>3. CASE Begin(t)
  <2>1. CASE abort[entry[t]]
    BY <1>3, <2>1, BeginAborted DEF Begin
  <2>2. CASE ~abort[entry[t]]
    <3>1. status' = [status EXCEPT ![entry[t]] = "ERROR"]
      BY <1>3, <2>2 DEF Begin, Set
    <3>2. status' \in [Entries -> Statuses]
          /\ \A e \in Entries : status'[e] = IF e = entry[t] THEN "ERROR" ELSE status[e]
      BY <3>1 DEF ResultInv, ResultTypes, Statuses
    <3> QED
      BY <1>3, <2>2, <3>2, WriteStep DEF Begin, Statuses
  <2> QED
    BY <2>1, <2>2
<1>4. CASE Fetch(t)
  <2>1. PICK answer \in Statuses :
          /\ status' = IF answer = "ERROR" THEN status ELSE Set(status, t, answer)
          /\ result' = [result EXCEPT ![t] = answer]
    BY <1>4 DEF Fetch
  <2>2. pc[t] = "fetch" /\ pc' = [pc EXCEPT ![t] = "done"]
        /\ UNCHANGED <<entry, abort, asyncactive, latest, reported>>
    BY <1>4 DEF Fetch
  <2>3. entry[t] \in Entries /\ status[entry[t]] = "ERROR"
    BY <1>2, <2>2, DownloadAssumption
       DEF RetryAfterFailure, ResultInv, LatestWroteStatus, Running
  <2>4. status' \in [Entries -> Statuses]
        /\ \A e \in Entries : status'[e] = IF e = entry[t] THEN answer ELSE status[e]
    BY <2>1, <2>3 DEF ResultInv, ResultTypes, Set
  <2> QED
    BY <2>1, <2>2, <2>4, WriteStep
<1>5. CASE FetchAborted(t)
  BY <1>5, <1>1, MoveStep DEF FetchAborted, Running
<1>6. CASE Done(t)
  <2>1. PICK to \in {"fetch", "report", "finish"} : pc' = [pc EXCEPT ![t] = to]
                                                /\ (to = "fetch" => ~abort[entry[t]])
    BY <1>6 DEF Done
  <2> QED
    BY <1>6, <1>1, <2>1, MoveStep DEF Done, Running
<1>7. CASE Report(t)
  <2>1. PICK to \in {"try", "finish"} : pc' = [pc EXCEPT ![t] = to]
                                      /\ (to = "try" => ~abort[entry[t]])
    BY <1>7 DEF Report
  <2> QED
    BY <1>7, <1>1, <2>1, MoveStep DEF Report, Running
<1>8. CASE TryAccess(t)
  <2>1. pc[t] = "try" /\ UNCHANGED <<entry, abort, asyncactive, status, latest, result, reported>>
        /\ (pc' = pc \/ pc' = [pc EXCEPT ![t] = "report"])
    BY <1>8 DEF TryAccess
  <2> QED
    BY <1>1, <2>1, MoveStep, AbortStep DEF Running, ResultInv, ResultTypes
<1>9. CASE GetsAccess(t)
  <2>1. pc[t] = "try" /\ UNCHANGED <<entry, abort, asyncactive, status, latest, result, reported>>
        /\ (pc' = pc \/ \E to \in {"report", "call"} : pc' = [pc EXCEPT ![t] = to])
    BY <1>9 DEF GetsAccess
  <2> QED
    BY <1>1, <2>1, MoveStep, AbortStep DEF Running, ResultInv, ResultTypes
<1>10. CASE ReleaseAccess(t)
  <2>1. pc[t] = "unlock" /\ UNCHANGED <<entry, abort, asyncactive, status, latest, result, reported>>
        /\ (pc' = pc \/ pc' = [pc EXCEPT ![t] = "finish"])
    BY <1>10 DEF ReleaseAccess
  <2> QED
    BY <1>1, <2>1, MoveStep, AbortStep DEF Running, ResultInv, ResultTypes
<1>11. CASE Call(t)
  <2>1. pc[t] = "call" /\ pc' = [pc EXCEPT ![t] = "unlock"]
        /\ reported' = [reported EXCEPT ![t] = status[entry[t]]]
        /\ UNCHANGED <<entry, abort, asyncactive, status, latest, result>>
    BY <1>11 DEF Call
  <2>2. entry[t] \in Entries /\ status[entry[t]] = result[t] /\ result[t] # "aborted"
    BY <1>1, <1>2, <2>1, DownloadAssumption DEF ResultInv, LatestWroteStatus, Running
  <2>3. \A s \in Threads : /\ pc'[s] = IF s = t THEN "unlock" ELSE pc[s]
                           /\ reported'[s] = IF s = t THEN result[t] ELSE reported[s]
    BY <2>1, <2>2 DEF FieldTypes, ResultInv, ResultTypes
  <2>4. ResultTypes'
    BY <2>1, <2>2 DEF ResultInv, ResultTypes
  <2>5. RunningIsLatest'
    BY <1>2, <2>1, <2>3, DownloadAssumption DEF ResultInv, RunningIsLatest, ResultTypes, Running
  <2>6. LatestWroteStatus'
    BY <2>1, <2>2, <2>3 DEF ResultInv, LatestWroteStatus, ResultTypes
  <2>7. AbortedIsSilent'
    BY <2>1, <2>2, <2>3 DEF ResultInv, AbortedIsSilent
  <2>8. ReportedAtEnd'
    BY <2>1, <2>3 DEF ResultInv, ReportedAtEnd
  <2>9. IdleIsOver'
    BY <1>2, <2>1, <2>3 DEF Running, ResultInv, IdleIsOver, ResultTypes
  <2> QED
    BY <2>4, <2>5, <2>6, <2>7, <2>8, <2>9 DEF ResultInv
<1>12. ASSUME NEW to \in {"close", "ended"},
              pc[t] = IF to = "close" THEN "finish" ELSE "close",
              pc' = [pc EXCEPT ![t] = to],
              asyncactive' \in [Entries -> BOOLEAN],
              \A e \in Entries : e # entry[t] => asyncactive'[e] = asyncactive[e],
              UNCHANGED <<entry, abort, status, latest, result, reported>>
       PROVE  ResultInv'
  <2>3. \A s \in Threads : pc'[s] = IF s = t THEN to ELSE pc[s]
    BY <1>12 DEF FieldTypes
  <2>4. ResultTypes'
    BY <1>12 DEF ResultInv, ResultTypes
  <2>5. RunningIsLatest'
    BY <1>2, <1>12, <2>3, DownloadAssumption DEF ResultInv, RunningIsLatest, ResultTypes, Running
  <2>6. LatestWroteStatus'
    BY <1>12, <2>3 DEF ResultInv, LatestWroteStatus, ResultTypes
  <2>7. AbortedIsSilent'
    BY <1>12, <2>3 DEF ResultInv, AbortedIsSilent, Running
  <2>8. ReportedAtEnd'
    BY <1>12, <2>3 DEF ResultInv, ReportedAtEnd
  <2>9. IdleIsOver'
    BY <1>2, <1>12, <2>3 DEF Running, ResultInv, IdleIsOver, ResultTypes
  <2> QED
    BY <2>4, <2>5, <2>6, <2>7, <2>8, <2>9 DEF ResultInv
<1>13. CASE Finish(t)
  BY <1>12, <1>13 DEF Finish, Set, FieldTypes
<1>14. CASE Close(t)
  BY <1>12, <1>14 DEF Close, FieldTypes
<1> QED
  BY <1>3, <1>4, <1>5, <1>6, <1>7, <1>8, <1>9, <1>11, <1>10, <1>13, <1>14 DEF ThreadStep

(* A download is started only on an entry that no thread runs on.          *)
LEMMA StartKeepsResults ==
  ASSUME ResultInv, EntryInv, NEW t \in Threads, Start(t)
  PROVE  ResultInv'
<1> USE DEF EntryInv, FieldTypes
<1> DEFINE e == ui.for
<1>1. e \in Entries /\ pc[t] = "unborn" /\ ~active[e]
  BY DEF Start, Goes, UIHasEntry
<1>2. /\ pc' = [pc EXCEPT ![t] = "begin"] /\ entry' = [entry EXCEPT ![t] = e]
      /\ abort' = [abort EXCEPT ![e] = FALSE] /\ latest' = [latest EXCEPT ![e] = t]
      /\ asyncactive' = [asyncactive EXCEPT ![e] = TRUE]
      /\ UNCHANGED <<status, result, reported>>
  BY DEF Start, Goes
<1> HIDE DEF e
<1>3. \A s \in Threads : /\ s # t => pc'[s] = pc[s] /\ entry'[s] = entry[s]
                         /\ pc'[t] = "begin" /\ entry'[t] = e
  BY <1>2
<1>4. \A f \in Entries : latest'[f] = IF f = e THEN t ELSE latest[f]
  BY <1>2 DEF ResultInv, ResultTypes
<1>5. \A s \in Threads : pc[s] \in Running => s # t /\ entry[s] # e
  BY <1>1 DEF ThreadsAreActive, Running
<1>6. \A f \in Entries : latest[f] # t
  BY <1>1, DownloadAssumption DEF ResultInv, RunningIsLatest
<1>7. ResultTypes'
  BY <1>1, <1>2 DEF ResultInv, ResultTypes
<1>8. RunningIsLatest'
  <2>1. \A s \in Threads : pc'[s] \in Running => latest'[entry'[s]] = s
    BY <1>1, <1>3, <1>4, <1>5 DEF ResultInv, RunningIsLatest
  <2>2. \A f \in Entries :
          latest'[f] # UI => entry'[latest'[f]] = f /\ pc'[latest'[f]] # "unborn"
    BY <1>1, <1>3, <1>4, <1>6 DEF ResultInv, RunningIsLatest, ResultTypes
  <2> QED
    BY <2>1, <2>2 DEF RunningIsLatest
<1>9. LatestWroteStatus'
  BY <1>2, <1>3, <1>4, <1>6 DEF ResultInv, LatestWroteStatus, ResultTypes
<1>10. AbortedIsSilent'
  <2> SUFFICES ASSUME NEW s \in Threads, result[s] = "aborted"
               PROVE  /\ pc'[s] \in {"done", "report", "finish", "close", "ended"}
                      /\ pc'[s] \in Running => abort'[entry'[s]]
    BY <1>2 DEF AbortedIsSilent
  <2>1. s # t
    BY <1>1 DEF ResultInv, AbortedIsSilent
  <2>2. pc[s] \in Running => entry[s] \in Entries /\ entry[s] # e /\ abort'[entry[s]] = abort[entry[s]]
    BY <1>2, <1>5 DEF ResultInv, ResultTypes
  <2> QED
    BY <2>1, <2>2, <1>3 DEF ResultInv, AbortedIsSilent
<1>11. ReportedAtEnd'
  <2>1. reported[t] = "none"
    BY <1>1 DEF ResultInv, ReportedAtEnd
  <2> QED
    BY <2>1, <1>2, <1>3 DEF ResultInv, ReportedAtEnd
<1>12. IdleIsOver'
  BY <1>1, <1>2, <1>3, <1>4, <1>6 DEF ResultInv, IdleIsOver, ResultTypes
<1> QED
  BY <1>7, <1>8, <1>9, <1>10, <1>11, <1>12 DEF ResultInv

(* Every step keeps the invariant, when the client is patient.             *)
LEMMA ResultInvKept ==
  ResultInv /\ EntryInv /\ RetryAfterFailure /\ [Next]_vars => ResultInv'
<1> SUFFICES ASSUME ResultInv, EntryInv, RetryAfterFailure, [Next]_vars PROVE ResultInv'
  OBVIOUS
<1> USE DEF flags, local, history
<1>1. FieldTypes /\ abort \in [Entries -> BOOLEAN]
  BY DEF EntryInv, ResultInv, ResultTypes
<1>2. CASE UNCHANGED vars
  BY <1>1, <1>2, AbortStep DEF vars
<1>3. ASSUME NEW t \in Threads, ThreadStep(t) PROVE ResultInv'
  BY <1>1, <1>3, ThreadStepKeepsResults
<1>4. CASE UIStep
  <2>1. ASSUME NEW t \in Threads, Start(t) PROVE ResultInv'
    BY <2>1, StartKeepsResults
  <2>2. ASSUME NEW e \in Entries, AsyncDownLoad(e) \/ Destroy(e) \/ Abort(e)
        PROVE  ResultInv'
    BY <1>1, <2>2, AbortStep DEF AsyncDownLoad, Destroy, Abort
  <2>3. CASE EnterFrame \/ WaitForFrame \/ LeaveFrame \/ WaitFinished \/ StartNone \/ Delete
    BY <1>1, <2>3, AbortStep
       DEF EnterFrame, WaitForFrame, LeaveFrame, WaitFinished, StartNone, Delete
  <2> QED
    BY <1>4, <2>1, <2>2, <2>3 DEF UIStep
<1> QED
  BY <1>2, <1>3, <1>4 DEF Next

(* With a patient client status, result and report agree in every state.   *)
THEOREM ResultInvHolds == ASSUME Patient PROVE Spec => []ResultInv
<1>1. Init => RetryAfterFailure
  BY DEF Init, RetryAfterFailure, Outcomes, Running
<1>2. Spec => []RetryAfterFailure
  BY <1>1, RetryAfterFailureKept, PTL DEF Spec
<1> QED
  BY <1>2, ResultInitHolds, ResultInvKept, EntryInvHolds, PTL DEF Spec

(* The callback of a download is told what that download found out.        *)
THEOREM ReportsOwnStatusHolds == ASSUME Patient PROVE Spec => []ReportsOwnStatus
<1>1. ResultInv => ReportsOwnStatus
  BY DEF ResultInv, ReportedAtEnd, ReportsOwnStatus
<1> QED
  BY <1>1, ResultInvHolds, PTL

(* Once GetAsyncActive is false, the status is the last download's.        *)
THEOREM PolledStatusIsFinalHolds == ASSUME Patient PROVE Spec => []PolledStatusIsFinal
<1>1. ResultInv => PolledStatusIsFinal
  BY DEF ResultInv, LatestWroteStatus, IdleIsOver, PolledStatusIsFinal
<1> QED
  BY <1>1, ResultInvHolds, PTL

-----------------------------------------------------------------------------
(* Where a thread is in the mutex, by where it is in Download.             *)
AccessMatches ==
  /\ pc \in [Threads -> Running \cup {"unborn", "ended"}]
  /\ at \in [Actors -> Places]
  /\ \A t \in Threads :
       /\ pc[t] = "call" => at[t] = "inside"
       /\ pc[t] = "unlock" => at[t] \in {"inside", "leaving"}
       /\ at[t] # "out" => pc[t] \in {"try", "call", "unlock"}
       /\ pc[t] = "try" => at[t] \in {"out", "trywait", "marking"}

(* Threads and interface use the mutex only through its own operations.    *)
LEMMA StepIsMutexStep == [Next]_vars => [MutexNext]_mutexVars
<1> SUFFICES ASSUME [Next]_vars PROVE [MutexNext]_mutexVars
  OBVIOUS
<1> USE DEF MutexNext, MutexStep
<1> UI \in Actors /\ Threads \subseteq Actors
  BY DownloadAssumption
<1>1. CASE UNCHANGED vars
  BY <1>1 DEF vars, mutexVars
<1>2. ASSUME NEW t \in Threads, ThreadStep(t) PROVE [MutexNext]_mutexVars
  BY <1>2 DEF ThreadStep, Begin, Fetch, FetchAborted, Done, Report, TryAccess,
              GetsAccess, Call, ReleaseAccess, Finish, Close
<1>3. CASE UIStep
  BY <1>3 DEF UIStep, EnterFrame, WaitForFrame, LeaveFrame, WaitFinished,
              StartNone, Delete, Start, AsyncDownLoad, Destroy, Abort
<1> QED
  BY <1>1, <1>2, <1>3 DEF Next

(* So what is proved of the mutex alone holds of the downloads.            *)
THEOREM DownloadUsesMutex == Spec => MutexSpec
<1>1. Init => MutexInit
  BY DEF Init
<1> QED
  BY <1>1, StepIsMutexStep, PTL DEF Spec, MutexSpec

(* The steps of a thread in the mutex's code keep it where its place in     *)
(* Download says.                                                          *)
LEMMA AccessMatchesKept == AccessMatches /\ [Next]_vars => AccessMatches'
<1> SUFFICES ASSUME AccessMatches, [Next]_vars PROVE AccessMatches'
  OBVIOUS
<1> UI \in Actors /\ Threads \subseteq Actors /\ UI \notin Threads
  BY DownloadAssumption
<1> USE DEF AccessMatches, Running, Places, mutexVars
<1>1. CASE UNCHANGED vars
  BY <1>1 DEF vars, local
<1>2. ASSUME NEW t \in Threads, ThreadStep(t) PROVE AccessMatches'
  <2> USE DEF Goes, Moves
  <2>1. CASE Begin(t)
    BY <2>1 DEF Begin
  <2>2. CASE Fetch(t)
    BY <2>2 DEF Fetch
  <2>3. CASE FetchAborted(t)
    BY <2>3 DEF FetchAborted
  <2>4. CASE Done(t)
    BY <2>4 DEF Done
  <2>5. CASE Report(t)
    BY <2>5 DEF Report
  <2>6. CASE TryAccess(t)
    BY <2>6 DEF TryAccess, TryLock
  <2>7. CASE GetsAccess(t)
    BY <2>7 DEF GetsAccess, Obtain, TimeOut, Mark
  <2>8. CASE Call(t)
    BY <2>8 DEF Call
  <2>9. CASE ReleaseAccess(t)
    BY <2>9 DEF ReleaseAccess, UnLock, Release
  <2>10. CASE Finish(t)
    BY <2>10 DEF Finish
  <2>11. CASE Close(t)
    BY <2>11 DEF Close
  <2> QED
    BY <1>2, <2>1, <2>2, <2>3, <2>4, <2>5, <2>6, <2>7, <2>8, <2>9, <2>10, <2>11
       DEF ThreadStep
<1>3. CASE UIStep
  <2>1. CASE EnterFrame \/ WaitForFrame \/ LeaveFrame
    <3>1. pc' = pc /\ at' \in [Actors -> Places] /\ \A t \in Threads : at'[t] = at[t]
      BY <2>1 DEF EnterFrame, WaitForFrame, LeaveFrame, TryLock, Obtain, TimeOut,
                  Mark, UnLock, Release, Moves, local
    <3> QED
      BY <3>1
  <2>2. ASSUME NEW t \in Threads, Start(t) PROVE AccessMatches'
    BY <2>2 DEF Start, Goes
  <2>3. CASE WaitFinished \/ StartNone \/ Delete
    BY <2>3 DEF WaitFinished, StartNone, Delete, local
  <2>4. ASSUME NEW e \in Entries, AsyncDownLoad(e) \/ Destroy(e) \/ Abort(e)
        PROVE  AccessMatches'
    BY <2>4 DEF AsyncDownLoad, Destroy, Abort, local
  <2> QED
    BY <1>3, <2>1, <2>2, <2>3, <2>4 DEF UIStep
<1> QED
  BY <1>1, <1>2, <1>3 DEF Next

(* A thread that calls back is inside the mutex, in every state.           *)
THEOREM AccessMatchesHolds == Spec => []AccessMatches
<1>1. Init => AccessMatches
  BY DownloadAssumption DEF Init, MutexInit, AccessMatches, Running, Places
<1> QED
  BY <1>1, AccessMatchesKept, PTL DEF Spec

(* No callback runs while the interface is in a frame.                     *)
THEOREM CallbacksHaveAccessHolds == Spec => []CallbacksHaveAccess
<1>1. AccessMatches /\ Exclusive => CallbacksHaveAccess
  BY DownloadAssumption DEF AccessMatches, Exclusive, CallbacksHaveAccess, Owning
<1> QED
  BY <1>1, AccessMatchesHolds, DownloadUsesMutex, ExclusiveHolds, PTL
=============================================================================
