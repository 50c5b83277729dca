------------------------------- MODULE KMutex -------------------------------
(***************************************************************************)
(* kGUIMutex (src/kguimutex.cpp): an operating-system mutex and a flag,     *)
(* m_locked, that TryLock reads without holding the mutex.  Between that    *)
(* read and the wait for the mutex another thread may take it: pthread      *)
(* builds then wait without limit, Windows builds give up after 10 ms.      *)
(*                                                                          *)
(* kGUI keeps one such mutex, m_busymutex, and threads that want to touch   *)
(* the interface use it through kGUI::TryAccess and ReleaseAccess.  The     *)
(* modules that have such threads extend this one and use its actions.      *)
(***************************************************************************)

CONSTANTS
  Actors,    (* The threads that use the mutex.                             *)
  Nobody,    (* The owner of a free mutex.                                  *)
  TimedWait  (* TryLock's wait can time out: the WIN32 and MINGW builds.    *)

ASSUME ActorAssumption == Nobody \notin Actors /\ TimedWait \in BOOLEAN

VARIABLES
  locked,  (* m_locked                                                      *)
  owner,   (* who holds the operating system's mutex                        *)
  at       (* where each actor is in Lock, TryLock or UnLock                *)

mutexVars == <<locked, owner, at>>

(* An actor outside the mutex; waiting for the operating system's mutex in  *)
(* Lock or in TryLock; owning it but not having set m_locked; past Lock;    *)
(* and in UnLock, m_locked cleared, about to give the mutex back.           *)
Places == {"out", "lockwait", "trywait", "marking", "inside", "leaving"}
Owning == {"marking", "inside", "leaving"}

MutexInit ==
  /\ locked = FALSE
  /\ owner = Nobody
  /\ at = [p \in Actors |-> "out"]

Moves(p, from, to) == at[p] \in from /\ at' = [at EXCEPT ![p] = to]

-----------------------------------------------------------------------------
(* Lock goes straight to the wait.                                         *)
Lock(p) == Moves(p, {"out"}, "lockwait") /\ UNCHANGED <<locked, owner>>

(* TryLock reads m_locked first, and returns false when it is set.         *)
Refused(p) == at[p] = "out" /\ locked

TryLock(p) ==
  /\ ~locked
  /\ Moves(p, {"out"}, "trywait")
  /\ UNCHANGED <<locked, owner>>

(* The wait ends with the mutex ...                                        *)
BugSharedWait(p) ==
  /\ Moves(p, {"lockwait", "trywait"}, "marking")
  /\ owner' = p
  /\ UNCHANGED locked
Obtain(p) ==
  /\ owner = Nobody
  /\ Moves(p, {"lockwait", "trywait"}, "marking")
  /\ owner' = p
  /\ UNCHANGED locked

(* ... or, in TryLock on Windows, without it after 10 ms.                  *)
TimeOut(p) ==
  /\ TimedWait
  /\ owner # Nobody
  /\ Moves(p, {"trywait"}, "out")
  /\ UNCHANGED <<locked, owner>>

Mark(p) ==
  /\ Moves(p, {"marking"}, "inside")
  /\ locked' = TRUE
  /\ UNCHANGED owner

(* UnLock clears m_locked while it still owns the mutex, then gives it up. *)
BugReleaseFirst(p) ==
  /\ Moves(p, {"inside"}, "leaving")
  /\ owner' = Nobody
  /\ UNCHANGED locked
BugKeepsFlag(p) ==
  /\ Moves(p, {"inside"}, "leaving")
  /\ UNCHANGED <<locked, owner>>
UnLock(p) ==
  /\ Moves(p, {"inside"}, "leaving")
  /\ locked' = FALSE
  /\ UNCHANGED owner

Release(p) ==
  /\ Moves(p, {"leaving"}, "out")
  /\ owner' = Nobody
  /\ UNCHANGED locked

(* The steps an actor takes inside the mutex's own code.                   *)
MutexStep(p) == Obtain(p) \/ TimeOut(p) \/ Mark(p) \/ Release(p)

MutexNext ==
  \E p \in Actors : Lock(p) \/ TryLock(p) \/ MutexStep(p) \/ UnLock(p)

MutexSpec == MutexInit /\ [][MutexNext]_mutexVars

-----------------------------------------------------------------------------
(* The mutex's variables have the values the code gives them.              *)
MutexTypeOK ==
  /\ locked \in BOOLEAN
  /\ owner \in Actors \cup {Nobody}
  /\ at \in [Actors -> Places]

(* At most one actor is past Lock or TryLock and not yet out of UnLock:     *)
(* what every user of m_busymutex counts on.                               *)
Exclusive ==
  \A p, q \in Actors : at[p] \in Owning /\ at[q] \in Owning => p = q

(* The asserts of Lock and TryLock ("already locked?") and of UnLock        *)
(* ("already unlocked?") never fail, whatever order the threads take.      *)
AssertsHold ==
  \A p \in Actors :
    /\ at[p] = "marking" => ~locked
    /\ at[p] = "inside" => locked

(* A set flag always belongs to an actor that is inside: a flag left set    *)
(* would make every later TryLock, and so every frame, refuse.             *)
FlagHasOwner == locked => \E p \in Actors : at[p] = "inside" /\ owner = p
=============================================================================
