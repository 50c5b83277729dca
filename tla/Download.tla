------------------------------ MODULE Download ------------------------------
(***************************************************************************)
(* kGUIDownloadEntry (src/kguidl.cpp) over kGUIThread and the access mutex  *)
(* of kGUI: the interface's thread starts, aborts and destroys download     *)
(* entries, each download runs Download() in a thread of its own, and a     *)
(* thread that is done takes the access mutex to call its entry's callback. *)
(*                                                                          *)
(* A member of Threads is one call of AsyncDownLoad: it is born when        *)
(* kGUIThread::Start creates it and is not used again.  The entry's fields  *)
(* are read and written by both sides without a lock, one at a time.        *)
(***************************************************************************)
EXTENDS KMutex

CONSTANTS
  UI,       (* The interface's thread.                                      *)
  Threads,  (* Bound: the downloads started, each with its thread.          *)
  Entries,  (* The kGUIDownloadEntry objects.                               *)
  NoEntry,  (* The entry of a thread not born yet.                          *)
  Patient   (* The client starts a download on an entry again only while    *)
            (* GetAsyncActive is true or when the last thread has ended.    *)

ASSUME DownloadAssumption ==
  /\ Actors = Threads \cup {UI} /\ UI \notin Threads
  /\ NoEntry \notin Entries
  /\ Patient \in BOOLEAN

VARIABLES
  abort,        (* m_abort of each entry                                    *)
  asyncactive,  (* m_asyncactive                                            *)
  status,       (* m_status                                                 *)
  callback,     (* m_donecallback.IsValid()                                 *)
  active,       (* m_active of the entry's kGUIThread                       *)
  alive,        (* the entry has not been deleted                           *)
  pc,           (* where each thread is in Download                         *)
  entry,        (* the entry each thread works for                          *)
  again,        (* wasblocked or wasredirected, in each thread              *)
  ui,           (* what the interface is doing, and with which entry        *)
  latest,       (* history: the last thread started for each entry          *)
  result,       (* history: what each thread found out                      *)
  reported      (* history: what each thread told its entry's callback      *)

flags == <<abort, asyncactive, callback, active, alive>>
local == <<pc, entry, again>>
history == <<latest, result, reported>>
vars == <<mutexVars, flags, status, local, ui, history>>

Statuses == {"ERROR", "SAME", "OK"}

(* The states of a thread that still has code of Download to run.          *)
Running == {"begin", "fetch", "done", "report", "try", "call", "unlock",
            "finish", "close"}

Calm == [do |-> "nothing", for |-> NoEntry]

Init ==
  /\ MutexInit
  /\ abort = [e \in Entries |-> FALSE]
  /\ asyncactive = [e \in Entries |-> FALSE]
  /\ status = [e \in Entries |-> "ERROR"]
  /\ callback = [e \in Entries |-> FALSE]
  /\ active = [e \in Entries |-> FALSE]
  /\ alive = [e \in Entries |-> TRUE]
  /\ pc = [t \in Threads |-> "unborn"]
  /\ entry = [t \in Threads |-> NoEntry]
  /\ again = [t \in Threads |-> FALSE]
  /\ ui = Calm
  /\ latest = [e \in Entries |-> UI]
  /\ result = [t \in Threads |-> "none"]
  /\ reported = [t \in Threads |-> "none"]

Goes(t, from, to) == pc[t] = from /\ pc' = [pc EXCEPT ![t] = to]
Set(field, t, value) == [field EXCEPT ![entry[t]] = value]

-----------------------------------------------------------------------------
(* A download thread.  An abort seen before the first request skips even    *)
(* the reset of m_status.                                                  *)
BugKeepsStatus(t) ==
  LET e == entry[t] IN
  /\ Goes(t, "begin", IF abort[e] THEN "done" ELSE "fetch")
  /\ result' = [result EXCEPT ![t] = IF abort[e] THEN "aborted" ELSE "ERROR"]
  /\ UNCHANGED <<mutexVars, flags, status, entry, again, ui, latest, reported>>
Begin(t) ==
  LET e == entry[t] IN
  /\ Goes(t, "begin", IF abort[e] THEN "done" ELSE "fetch")
  /\ status' = IF abort[e] THEN status ELSE Set(status, t, "ERROR")
  /\ result' = [result EXCEPT ![t] = IF abort[e] THEN "aborted" ELSE "ERROR"]
  /\ UNCHANGED <<mutexVars, flags, entry, again, ui, latest, reported>>

(* One pass from the label again to the label done: the server is looked    *)
(* up, asked and answers.  It can fail at many points, with m_status as it  *)
(* is, answer with the page, with "not changed", or with a redirect or a    *)
(* refusal worth a second try.                                             *)
Fetch(t) ==
  \E answer \in Statuses, retry \in BOOLEAN :
    /\ Goes(t, "fetch", "done")
    /\ retry => answer = "ERROR"
    /\ status' = IF answer = "ERROR" THEN status ELSE Set(status, t, answer)
    /\ result' = [result EXCEPT ![t] = answer]
    /\ again' = [again EXCEPT ![t] = retry]
    /\ UNCHANGED <<mutexVars, flags, entry, ui, latest, reported>>

(* The read loop, and the loop around connect, leave when aborted.         *)
FetchAborted(t) ==
  /\ Goes(t, "fetch", "done")
  /\ abort[entry[t]]
  /\ again' = [again EXCEPT ![t] = FALSE]
  /\ UNCHANGED <<mutexVars, flags, status, entry, ui, history>>

(* The label done: try again, report, or have nobody to report to.         *)
Done(t) ==
  LET e == entry[t]
      next == IF again[t] /\ ~abort[e] THEN "fetch"
              ELSE IF callback[e] THEN "report" ELSE "finish"
  IN
  /\ Goes(t, "done", next)
  /\ again' = [again EXCEPT ![t] = FALSE]
  /\ UNCHANGED <<mutexVars, flags, status, entry, ui, history>>

(* The loop that reports: an abort drops the callback ...                  *)
BugDeafReport(t) ==
  /\ Goes(t, "report", "try")
  /\ UNCHANGED <<mutexVars, flags, status, entry, again, ui, history>>
Report(t) ==
  LET e == entry[t] IN
  /\ Goes(t, "report", IF abort[e] THEN "finish" ELSE "try")
  /\ callback' = IF abort[e] THEN Set(callback, t, FALSE) ELSE callback
  /\ UNCHANGED <<mutexVars, abort, asyncactive, active, alive, status, entry,
                 again, ui, history>>

(* ... otherwise TryAccess decides.  Refused, the loop starts over.         *)
BugIgnoresRefusal(t) ==
  /\ pc[t] = "try" /\ at[t] = "out"
  /\ \/ Refused(t) /\ Goes(t, "try", "call") /\ UNCHANGED mutexVars
     \/ TryLock(t) /\ UNCHANGED pc
  /\ UNCHANGED <<flags, status, entry, again, ui, history>>
TryAccess(t) ==
  /\ pc[t] = "try" /\ at[t] = "out"
  /\ \/ Refused(t) /\ Goes(t, "try", "report") /\ UNCHANGED mutexVars
     \/ TryLock(t) /\ UNCHANGED pc
  /\ UNCHANGED <<flags, status, entry, again, ui, history>>

GetsAccess(t) ==
  /\ pc[t] = "try"
  /\ \/ Obtain(t) /\ UNCHANGED pc
     \/ TimeOut(t) /\ Goes(t, "try", "report")
     \/ Mark(t) /\ Goes(t, "try", "call")
  /\ UNCHANGED <<flags, status, entry, again, ui, history>>

(* With access, the callback is called with m_status and then cleared.     *)
Call(t) ==
  /\ Goes(t, "call", "unlock")
  /\ reported' = [reported EXCEPT ![t] = status[entry[t]]]
  /\ callback' = Set(callback, t, FALSE)
  /\ UNCHANGED <<mutexVars, abort, asyncactive, active, alive, status, entry,
                 again, ui, latest, result>>

ReleaseAccess(t) ==
  /\ \/ UnLock(t) /\ pc[t] = "unlock" /\ UNCHANGED pc
     \/ Release(t) /\ Goes(t, "unlock", "finish")
  /\ UNCHANGED <<flags, status, entry, again, ui, history>>

Finish(t) ==
  /\ Goes(t, "finish", "close")
  /\ asyncactive' = Set(asyncactive, t, FALSE)
  /\ UNCHANGED <<mutexVars, abort, callback, active, alive, status, entry,
                 again, ui, history>>

(* m_thread.Close(false), the last thing the thread does to its entry.     *)
Close(t) ==
  /\ Goes(t, "close", "ended")
  /\ active' = Set(active, t, FALSE)
  /\ UNCHANGED <<mutexVars, abort, asyncactive, callback, alive, status, entry,
                 again, ui, history>>

ThreadStep(t) ==
  \/ Begin(t) \/ Fetch(t) \/ FetchAborted(t) \/ Done(t) \/ Report(t)
  \/ TryAccess(t) \/ GetsAccess(t) \/ Call(t) \/ ReleaseAccess(t)
  \/ Finish(t) \/ Close(t)

-----------------------------------------------------------------------------
(* The interface's thread: a frame (UpdateInput, or Draw) that TryLock does *)
(* not let in is skipped.  A frame that is refused changes nothing.        *)
EnterFrame ==
  /\ ui = Calm
  /\ TryLock(UI)
  /\ UNCHANGED <<flags, status, local, ui, history>>

WaitForFrame ==
  /\ Obtain(UI) \/ TimeOut(UI) \/ Mark(UI) \/ Release(UI)
  /\ UNCHANGED <<flags, status, local, ui, history>>

LeaveFrame ==
  /\ ui = Calm
  /\ UnLock(UI)
  /\ UNCHANGED <<flags, status, local, ui, history>>

(* The program's code runs in a frame or between two frames.               *)
MayAct(e) == ui = Calm /\ at[UI] \in {"out", "inside"} /\ alive[e]

(* AsyncDownLoad on an entry whose download is active first aborts it and   *)
(* waits for its thread; the destructor waits for an active thread.        *)
BugStartsAtOnce(e) ==
  /\ MayAct(e)
  /\ Patient => asyncactive[e] \/ ~active[e]
  /\ ui' = [do |-> "start", for |-> e]
  /\ UNCHANGED <<mutexVars, flags, status, local, history>>
AsyncDownLoad(e) ==
  /\ MayAct(e)
  /\ Patient => asyncactive[e] \/ ~active[e]
  /\ abort' = IF asyncactive[e] THEN [abort EXCEPT ![e] = TRUE] ELSE abort
  /\ ui' = [do |-> IF asyncactive[e] THEN "wait to start" ELSE "start", for |-> e]
  /\ UNCHANGED <<mutexVars, asyncactive, callback, active, alive, status, local,
                 history>>

BugWaitsForFlag(e) ==
  /\ MayAct(e)
  /\ abort' = IF asyncactive[e] THEN [abort EXCEPT ![e] = TRUE] ELSE abort
  /\ ui' = [do |-> IF asyncactive[e] THEN "wait to delete" ELSE "delete", for |-> e]
  /\ UNCHANGED <<mutexVars, asyncactive, callback, active, alive, status, local,
                 history>>
Destroy(e) ==
  /\ MayAct(e)
  /\ abort' = IF active[e] THEN [abort EXCEPT ![e] = TRUE] ELSE abort
  /\ ui' = [do |-> IF active[e] THEN "wait to delete" ELSE "delete", for |-> e]
  /\ UNCHANGED <<mutexVars, asyncactive, callback, active, alive, status, local,
                 history>>

(* The loop of WaitFinished.                                               *)
WaitFinished ==
  /\ ui.do \in {"wait to start", "wait to delete"}
  /\ ~active[ui.for]
  /\ ui' = [ui EXCEPT !.do = IF @ = "wait to start" THEN "start" ELSE "delete"]
  /\ UNCHANGED <<mutexVars, flags, status, local, history>>

(* The rest of AsyncDownLoad: the entry is set up and its thread created.  *)
BugFlagNotRaised(t) ==
  LET e == ui.for IN
  /\ ui.do = "start"
  /\ Goes(t, "unborn", "begin")
  /\ abort' = [abort EXCEPT ![e] = FALSE]
  /\ \E given \in BOOLEAN : callback' = [callback EXCEPT ![e] = given]
  /\ active' = [active EXCEPT ![e] = TRUE]
  /\ entry' = [entry EXCEPT ![t] = e]
  /\ latest' = [latest EXCEPT ![e] = t]
  /\ ui' = Calm
  /\ UNCHANGED <<mutexVars, asyncactive, alive, status, again, result, reported>>
Start(t) ==
  LET e == ui.for IN
  /\ ui.do = "start"
  /\ Goes(t, "unborn", "begin")
  /\ asyncactive' = [asyncactive EXCEPT ![e] = TRUE]
  /\ abort' = [abort EXCEPT ![e] = FALSE]
  /\ \E given \in BOOLEAN : callback' = [callback EXCEPT ![e] = given]
  /\ active' = [active EXCEPT ![e] = TRUE]
  /\ entry' = [entry EXCEPT ![t] = e]
  /\ latest' = [latest EXCEPT ![e] = t]
  /\ ui' = Calm
  /\ UNCHANGED <<mutexVars, alive, status, again, result, reported>>

(* Bound: with every thread born, a further start does not happen.         *)
StartNone ==
  /\ ui.do = "start"
  /\ \A t \in Threads : pc[t] # "unborn"
  /\ ui' = Calm
  /\ UNCHANGED <<mutexVars, flags, status, local, history>>

Delete ==
  /\ ui.do = "delete"
  /\ alive' = [alive EXCEPT ![ui.for] = FALSE]
  /\ ui' = Calm
  /\ UNCHANGED <<mutexVars, abort, asyncactive, callback, active, status, local,
                 history>>

Abort(e) ==
  /\ MayAct(e)
  /\ asyncactive[e]
  /\ abort' = [abort EXCEPT ![e] = TRUE]
  /\ UNCHANGED <<mutexVars, asyncactive, callback, active, alive, status, local,
                 ui, history>>

UIStep ==
  \/ EnterFrame \/ WaitForFrame \/ LeaveFrame \/ WaitFinished \/ StartNone \/ Delete
  \/ \E t \in Threads : Start(t)
  \/ \E e \in Entries : AsyncDownLoad(e) \/ Destroy(e) \/ Abort(e)

Next == UIStep \/ \E t \in Threads : ThreadStep(t)

Spec == Init /\ [][Next]_vars

(* The scheduler runs every thread, and each pass over the network ends:    *)
(* select returns every 10 ms and connect and the lookup give up.  Of the   *)
(* interface only the wait loop is assumed to go on.                       *)
Fairness ==
  /\ \A t \in Threads : WF_vars(ThreadStep(t))
  /\ WF_vars(WaitFinished)

FairSpec == Spec /\ Fairness

-----------------------------------------------------------------------------
TypeOK ==
  /\ MutexTypeOK
  /\ \A f \in {abort, asyncactive, callback, active, alive} : f \in [Entries -> BOOLEAN]
  /\ status \in [Entries -> Statuses]
  /\ pc \in [Threads -> Running \cup {"unborn", "ended"}]
  /\ entry \in [Threads -> Entries \cup {NoEntry}]
  /\ again \in [Threads -> BOOLEAN]
  /\ ui \in [do : {"nothing", "wait to start", "wait to delete", "start", "delete"},
             for : Entries \cup {NoEntry}]

(* No two threads run Download on one entry: they share its buffers.       *)
OneThreadPerEntry ==
  \A s, t \in Threads :
    pc[s] \in Running /\ pc[t] \in Running /\ entry[s] = entry[t] => s = t

(* A deleted entry is left alone: the destructor's comment says that an     *)
(* entry "in the process of doing an async download" sets abort and waits   *)
(* to finish, so no thread still runs on it afterwards.                    *)
DeletedIsLeftAlone ==
  \A t \in Threads : pc[t] \in Running => alive[entry[t]]

(* The callback of a download is told what that download found, never what  *)
(* an earlier or a later download of the same entry did.                   *)
ReportsOwnStatus ==
  \A t \in Threads : reported[t] \in {"none", result[t]}

(* Clients that poll (kGUIBrowseObj::Update, LoadListThread) read the       *)
(* status once GetAsyncActive is false: by then it is the final status of   *)
(* the last download, unless that one was aborted before it began.         *)
PolledStatusIsFinal ==
  \A e \in Entries :
    ~asyncactive[e] /\ latest[e] # UI /\ result[latest[e]] # "aborted"
      => status[e] = result[latest[e]]

(* The interface never finds itself in a frame with a callback running: the *)
(* two touch the same objects.                                             *)
CallbacksHaveAccess ==
  at[UI] \in {"inside", "leaving"} => \A t \in Threads : pc[t] \notin {"call", "unlock"}

(* WaitFinished returns: the thread it waits for always gets to see the     *)
(* abort, also when the interface keeps the access mutex while it waits.   *)
WaitReturns ==
  (ui.do \in {"wait to start", "wait to delete"}) ~> (ui.do \in {"start", "delete"})
=============================================================================
