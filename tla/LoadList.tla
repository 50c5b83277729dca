------------------------------ MODULE LoadList ------------------------------
(***************************************************************************)
(* How a page of src/kguihtml.cpp loads its links and images: the interface *)
(* puts them on two lists (kGUICommStack), a thread of the page             *)
(* (LoadListThread) takes them off, downloads a few at a time and, with     *)
(* access to the interface, calls back for those that have finished.  A     *)
(* click resets the lists and the page's destructor stops the thread, each  *)
(* with a flag the interface raises and waits for the thread to lower.      *)
(***************************************************************************)
EXTENDS Integers, SequencesExt, KMutex

CONSTANTS
  UI, Loader,    (* The interface's thread and the page's LoadListThread.   *)
  Links,         (* Links of the page (style sheets), hi priority,          *)
  Images,        (* and its images.                                         *)
  HiRoom, LoRoom,(* The entries m_hiloadlist and m_loadlist have room for.  *)
  MaxDownloads,  (* MAXDOWNLOADS                                            *)
  NoItem,
  MaxRequests    (* Bound: the loads the page asks for.                     *)

ASSUME LoadListAssumption ==
  /\ Actors = {UI, Loader} /\ UI # Loader
  /\ HiRoom \in Nat /\ LoRoom \in Nat /\ MaxDownloads \in Nat /\ MaxRequests \in Nat
  /\ Links \cap Images = {} /\ NoItem \notin Links \cup Images

Items == Links \cup Images

VARIABLES
  known,       (* the links the page has made (m_linkhash)                  *)
  triggered,   (* m_loadtriggered of each image                             *)
  aborted,     (* m_loadaborted of each image                               *)
  hi, lo,      (* m_hiloadlist and m_loadlist, oldest first                 *)
  loading,     (* loadinglist                                               *)
  done,        (* donelist, up to numdone                                   *)
  place,       (* i, where the thread is in loadinglist; counted from 1     *)
  taken,       (* the item the thread is about to start, or NoItem          *)
  asyncactive, (* GetAsyncActive of each item's download                    *)
  numloading,  (* m_numloading: what the status line shows                  *)
  numskipped,  (* m_numskipped                                              *)
  loadreset,   (* m_loadreset                                               *)
  shutdown,    (* m_shutdown                                                *)
  pc,          (* where LoadListThread is                                   *)
  ui,          (* what the interface is waiting for                         *)
  requests,    (* history: the loads asked for                              *)
  lost         (* history: those that found their list full                 *)

page == <<known, triggered, aborted>>
lists == <<hi, lo, loading, done>>
local == <<place, taken>>
vars == <<mutexVars, page, lists, local, asyncactive, numloading, numskipped,
          loadreset, shutdown, pc, ui, requests, lost>>

Init ==
  /\ MutexInit
  /\ known = {}
  /\ triggered = [i \in Images |-> FALSE]
  /\ aborted = [i \in Images |-> FALSE]
  /\ hi = <<>> /\ lo = <<>> /\ loading = <<>> /\ done = <<>>
  /\ place = 1
  /\ taken = NoItem
  /\ asyncactive = [i \in Items |-> FALSE]
  /\ numloading = 0 /\ numskipped = 0
  /\ loadreset = FALSE /\ shutdown = FALSE
  /\ pc = "top"
  /\ ui = "running"
  /\ requests = 0 /\ lost = 0

-----------------------------------------------------------------------------
(* The page's code runs in a frame of the interface, or in a callback from  *)
(* the loader's thread.                                                    *)
HasPage ==
  /\ \/ at[UI] = "inside" /\ ui = "running"
     \/ at[Loader] = "inside" /\ pc = "called"
  /\ ui # "gone"

(* AsyncLoad ignores what kGUICommStack::Write returns, so a full list      *)
(* loses the item.                                                         *)
AsyncLoad(i) ==
  LET full == IF i \in Links THEN Len(hi) = HiRoom ELSE Len(lo) = LoRoom IN
  /\ requests < MaxRequests
  /\ requests' = requests + 1
  /\ lost' = IF full THEN lost + 1 ELSE lost
  /\ hi' = IF i \in Links /\ ~full THEN Append(hi, i) ELSE hi
  /\ lo' = IF i \in Images /\ ~full THEN Append(lo, i) ELSE lo
  /\ numloading' = numloading + 1
  /\ UNCHANGED <<mutexVars, loading, done, local, asyncactive, numskipped,
                 loadreset, shutdown, pc, ui>>

(* LocateLink: a link not yet known is loaded.                             *)
LocateLink(i) ==
  /\ HasPage /\ i \notin known
  /\ known' = known \cup {i}
  /\ AsyncLoad(i)
  /\ UNCHANGED <<triggered, aborted>>

(* LocateImage: an image whose load is not triggered is loaded.            *)
LocateImage(i) ==
  /\ HasPage /\ ~triggered[i]
  /\ triggered' = [triggered EXCEPT ![i] = TRUE]
  /\ aborted' = [aborted EXCEPT ![i] = TRUE]
  /\ AsyncLoad(i)
  /\ UNCHANGED known

(* kGUIOnlineImage::Purge, from FlushCurrentMedia or from the limit on      *)
(* images in memory: the next reference loads the image again.             *)
Purge(i) ==
  /\ HasPage
  /\ ~asyncactive[i]
  /\ triggered[i]
  /\ triggered' = [triggered EXCEPT ![i] = FALSE]
  /\ UNCHANGED <<mutexVars, known, aborted, lists, local, asyncactive,
                 numloading, numskipped, loadreset, shutdown, pc, ui, requests,
                 lost>>

(* Parsing the page again clears the flags of the "aborted" images.        *)
ClearAborted ==
  /\ HasPage
  /\ \E i \in Images : aborted[i]
  /\ triggered' = [i \in Images |-> triggered[i] /\ ~aborted[i]]
  /\ aborted' = [i \in Images |-> FALSE]
  /\ UNCHANGED <<mutexVars, known, lists, local, asyncactive, numloading,
                 numskipped, loadreset, shutdown, pc, ui, requests, lost>>

-----------------------------------------------------------------------------
(* The interface's frames.                                                 *)
Frame ==
  /\ ui # "gone"
  /\ \/ TryLock(UI) \/ Obtain(UI) \/ TimeOut(UI) \/ Mark(UI) \/ Release(UI)
     \/ ui = "running" /\ UnLock(UI)
  /\ UNCHANGED <<page, lists, local, asyncactive, numloading, numskipped,
                 loadreset, shutdown, pc, ui, requests, lost>>

(* Click: raise m_loadreset, wait for the thread to notice, correct the    *)
(* count.                                                                  *)
Click ==
  /\ at[UI] = "inside" /\ ui = "running"
  /\ loadreset' = TRUE
  /\ ui' = "click"
  /\ UNCHANGED <<mutexVars, page, lists, local, asyncactive, numloading,
                 numskipped, shutdown, pc, requests, lost>>

ClickDone ==
  /\ ui = "click" /\ ~loadreset
  /\ numloading' = numloading - numskipped
  /\ ui' = "running"
  /\ UNCHANGED <<mutexVars, page, lists, local, asyncactive, numskipped,
                 loadreset, shutdown, pc, requests, lost>>

(* The page's destructor, in a frame or after the last one.                *)
Destroy ==
  /\ at[UI] \in {"inside", "out"} /\ ui = "running"
  /\ shutdown' = TRUE
  /\ ui' = "destroy"
  /\ UNCHANGED <<mutexVars, page, lists, local, asyncactive, numloading,
                 numskipped, loadreset, pc, requests, lost>>

BugNoWait ==
  /\ ui = "destroy"
  /\ ui' = "gone"
  /\ UNCHANGED <<mutexVars, page, lists, local, asyncactive, numloading,
                 numskipped, loadreset, shutdown, pc, requests, lost>>
Destroyed ==
  /\ ui = "destroy" /\ ~shutdown
  /\ ui' = "gone"
  /\ UNCHANGED <<mutexVars, page, lists, local, asyncactive, numloading,
                 numskipped, loadreset, shutdown, pc, requests, lost>>

UIStep ==
  \/ Frame \/ Click \/ ClickDone \/ Destroy \/ Destroyed \/ ClearAborted
  \/ \E i \in Links : LocateLink(i)
  \/ \E i \in Images : LocateImage(i) \/ Purge(i)

-----------------------------------------------------------------------------
Goes(from, to) == pc = from /\ pc' = to

(* LoadListThread, from the top of its loop.                               *)
Top ==
  /\ Goes("top", IF shutdown THEN "ended" ELSE "collect")
  /\ shutdown' = FALSE
  /\ UNCHANGED <<mutexVars, page, lists, local, asyncactive, numloading,
                 numskipped, loadreset, ui, requests, lost>>

(* Have any finished?  Each entry of loadinglist is asked at its own time:  *)
(* one that is active is left there ...                                    *)
StillActive ==
  /\ pc = "collect"
  /\ place <= Len(loading) /\ asyncactive[loading[place]]
  /\ place' = place + 1
  /\ UNCHANGED <<mutexVars, page, lists, taken, asyncactive, numloading,
                 numskipped, loadreset, shutdown, pc, ui, requests, lost>>

(* ... one that is not goes to donelist, and the next one takes its place.  *)
Collect ==
  /\ pc = "collect"
  /\ place <= Len(loading) /\ ~asyncactive[loading[place]]
  /\ loading' = RemoveAt(loading, place)
  /\ done' = Append(done, loading[place])
  /\ UNCHANGED <<mutexVars, page, hi, lo, local, asyncactive, numloading,
                 numskipped, loadreset, shutdown, pc, ui, requests, lost>>

Collected ==
  /\ place > Len(loading)
  /\ Goes("collect", "reset")
  /\ place' = 1
  /\ UNCHANGED <<mutexVars, page, lists, taken, asyncactive, numloading,
                 numskipped, loadreset, shutdown, ui, requests, lost>>

(* A reset throws away what is queued and the callbacks not yet made.      *)
BugForgetsDone ==
  /\ Goes("reset", "report")
  /\ IF loadreset
       THEN /\ numskipped' = Len(hi) + Len(lo)
            /\ hi' = <<>> /\ lo' = <<>> /\ done' = <<>>
            /\ loadreset' = FALSE
       ELSE UNCHANGED <<numskipped, hi, lo, done, loadreset>>
  /\ UNCHANGED <<mutexVars, page, loading, local, asyncactive, numloading,
                 shutdown, ui, requests, lost>>
BugDropsLoading ==
  /\ Goes("reset", "report")
  /\ IF loadreset
       THEN /\ numskipped' = Len(hi) + Len(lo) + Len(done) + Len(loading)
            /\ hi' = <<>> /\ lo' = <<>> /\ done' = <<>> /\ loading' = <<>>
            /\ loadreset' = FALSE
       ELSE UNCHANGED <<numskipped, hi, lo, done, loading, loadreset>>
  /\ UNCHANGED <<mutexVars, page, local, asyncactive, numloading, shutdown, ui,
                 requests, lost>>
Reset ==
  /\ Goes("reset", "report")
  /\ IF loadreset
       THEN /\ numskipped' = Len(hi) + Len(lo) + Len(done)
            /\ hi' = <<>> /\ lo' = <<>> /\ done' = <<>>
            /\ loadreset' = FALSE
       ELSE UNCHANGED <<numskipped, hi, lo, done, loadreset>>
  /\ UNCHANGED <<mutexVars, page, loading, local, asyncactive, numloading,
                 shutdown, ui, requests, lost>>

(* TryAccess, when there is something to tell; a refusal puts it off.      *)
BugInsists ==
  /\ pc = "report" /\ at[Loader] = "out"
  /\ \/ done = <<>> /\ Goes("report", "fill") /\ UNCHANGED mutexVars
     \/ done # <<>> /\ TryLock(Loader) /\ Goes("report", "try")
  /\ UNCHANGED <<page, lists, local, asyncactive, numloading, numskipped,
                 loadreset, shutdown, ui, requests, lost>>
Report ==
  /\ pc = "report" /\ at[Loader] = "out"
  /\ \/ done = <<>> /\ Goes("report", "fill") /\ UNCHANGED mutexVars
     \/ done # <<>> /\ Refused(Loader) /\ Goes("report", "fill") /\ UNCHANGED mutexVars
     \/ done # <<>> /\ TryLock(Loader) /\ Goes("report", "try")
  /\ UNCHANGED <<page, lists, local, asyncactive, numloading, numskipped,
                 loadreset, shutdown, ui, requests, lost>>

GetsAccess ==
  /\ pc = "try"
  /\ \/ Obtain(Loader) /\ UNCHANGED pc
     \/ TimeOut(Loader) /\ Goes("try", "fill")
     \/ Mark(Loader) /\ Goes("try", "call")
  /\ UNCHANGED <<page, lists, local, asyncactive, numloading, numskipped,
                 loadreset, shutdown, ui, requests, lost>>

(* The callbacks: kGUIOnlineLink::LoadFinished and, for images, that of     *)
(* kGUIOnlineImage, which an error leaves with m_loadtriggered as it was.   *)
Finished == {done[k] : k \in 1 .. Len(done)}
Call ==
  /\ Goes("call", "called")
  /\ \E ok \in SUBSET (Finished \cap Images) :
       triggered' = [i \in Images |-> triggered[i] \/ i \in ok]
  /\ aborted' = [i \in Images |-> aborted[i] /\ i \notin Finished]
  /\ numloading' = numloading - Len(done)
  /\ done' = <<>>
  /\ UNCHANGED <<mutexVars, known, hi, lo, loading, local, asyncactive,
                 numskipped, loadreset, shutdown, ui, requests, lost>>

ReleaseAccess ==
  /\ \/ pc = "called" /\ UnLock(Loader) /\ UNCHANGED pc
     \/ Release(Loader) /\ Goes("called", "fill")
  /\ UNCHANGED <<page, lists, local, asyncactive, numloading, numskipped,
                 loadreset, shutdown, ui, requests, lost>>

(* Fill up the downloads, hi priority first.                               *)
BugOneMore ==
  /\ pc = "fill"
  /\ Len(loading) <= MaxDownloads + 1
  /\ hi # <<>> \/ lo # <<>>
  /\ taken' = IF hi # <<>> THEN Head(hi) ELSE Head(lo)
  /\ hi' = IF hi # <<>> THEN Tail(hi) ELSE hi
  /\ lo' = IF hi # <<>> THEN lo ELSE Tail(lo)
  /\ loading' = Append(loading, taken')
  /\ pc' = "start"
  /\ UNCHANGED <<mutexVars, page, done, place, asyncactive, numloading, numskipped,
                 loadreset, shutdown, ui, requests, lost>>
Take ==
  /\ pc = "fill"
  /\ Len(loading) <= MaxDownloads
  /\ hi # <<>> \/ lo # <<>>
  /\ taken' = IF hi # <<>> THEN Head(hi) ELSE Head(lo)
  /\ hi' = IF hi # <<>> THEN Tail(hi) ELSE hi
  /\ lo' = IF hi # <<>> THEN lo ELSE Tail(lo)
  /\ loading' = Append(loading, taken')
  /\ pc' = "start"
  /\ UNCHANGED <<mutexVars, page, done, place, asyncactive, numloading, numskipped,
                 loadreset, shutdown, ui, requests, lost>>

Filled ==
  /\ Len(loading) > MaxDownloads \/ (hi = <<>> /\ lo = <<>>)
  /\ Goes("fill", "top")
  /\ UNCHANGED <<mutexVars, page, lists, local, asyncactive, numloading,
                 numskipped, loadreset, shutdown, ui, requests, lost>>

(* AsyncDownLoad waits while an earlier download of the item is active.    *)
StartDownload ==
  /\ Goes("start", "fill")
  /\ ~asyncactive[taken]
  /\ asyncactive' = [asyncactive EXCEPT ![taken] = TRUE]
  /\ taken' = NoItem
  /\ UNCHANGED <<mutexVars, page, lists, place, numloading, numskipped, loadreset,
                 shutdown, ui, requests, lost>>

LoaderStep ==
  \/ Top \/ StillActive \/ Collect \/ Collected \/ Reset \/ Report
  \/ GetsAccess \/ Call \/ ReleaseAccess \/ Take \/ Filled \/ StartDownload

(* A download ends, well or not: module Download has the details.          *)
DownloadEnds(i) ==
  /\ asyncactive[i]
  /\ asyncactive' = [asyncactive EXCEPT ![i] = FALSE]
  /\ UNCHANGED <<mutexVars, page, lists, local, numloading, numskipped,
                 loadreset, shutdown, pc, ui, requests, lost>>

Next == UIStep \/ LoaderStep \/ \E i \in Items : DownloadEnds(i)

Spec == Init /\ [][Next]_vars

(* The loader's thread runs; a download it waits for has been aborted and   *)
(* so ends; the interface goes on once its flag is lowered.                *)
Fairness ==
  /\ WF_vars(LoaderStep)
  /\ \A i \in Items : WF_vars(DownloadEnds(i))
  /\ WF_vars(ClickDone) /\ WF_vars(Destroyed)

FairSpec == Spec /\ Fairness

-----------------------------------------------------------------------------
Outstanding == Len(hi) + Len(lo) + Len(loading) + Len(done)

TypeOK ==
  /\ MutexTypeOK
  /\ {hi, loading, done, lo} \subseteq Seq(Items)
  /\ Len(hi) <= HiRoom /\ Len(lo) <= LoRoom
  /\ Len(loading) <= MaxDownloads + 1
  /\ place \in 1 .. (MaxDownloads + 2)
  /\ place # 1 => pc = "collect"
  /\ taken \in Items \cup {NoItem}
  /\ taken # NoItem <=> pc = "start"
  /\ lost <= requests

(* The number the status line shows is the number of loads whose callback   *)
(* is still to come, but for those a full list lost: a reset takes off      *)
(* exactly what it threw away, although the thread counts and the           *)
(* interface subtracts, and although an item may be listed twice.          *)
CountMatches ==
  numloading = Outstanding + lost
                 + (IF ui = "click" /\ ~loadreset THEN numskipped ELSE 0)

(* A download that has been started is on loadinglist until it ends, so     *)
(* that somebody will notice its end.                                      *)
StartedIsListed ==
  \A i \in Items : asyncactive[i] => \E k \in 1 .. Len(loading) : loading[k] = i

(* The page is not destroyed under a thread that still uses it.            *)
NoThreadAfterPage == ui = "gone" => pc = "ended"

(* LocateImage's comment: "don't trigger a new load since if it is not in   *)
(* memory then it is already loading".  No image is loaded twice at once.  *)
NoDoubleLoad ==
  \A i \in Images :
    \A k, n \in 1 .. Len(loading \o done \o lo) :
      (loading \o done \o lo)[k] = i /\ (loading \o done \o lo)[n] = i => k = n

(* The interface's waits end: Click's for m_loadreset, the destructor's for *)
(* m_shutdown, though it may hold the access the thread would like.        *)
WaitsEnd ==
  /\ (ui = "click") ~> (ui = "running")
  /\ (ui = "destroy") ~> (ui = "gone")
=============================================================================
