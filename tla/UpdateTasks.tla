----------------------------- MODULE UpdateTasks -----------------------------
(***************************************************************************)
(* The update tasks of the interface (kgui.cpp): callbacks that UpdateInput *)
(* calls once per frame, in the order in which they were added, and the     *)
(* objects that add and remove them. An object keeps a flag that says       *)
(* whether its task is listed (m_animateeventactive of images, m_attached   *)
(* of scrolls, m_track of tabs and menus, m_playing of movies).            *)
(*                                                                         *)
(* The loop holds an index into the list while a callback may add tasks,    *)
(* remove its own task or another's, and destroy objects, its own included. *)
(***************************************************************************)
EXTENDS Integers, Sequences, FiniteSets, SequencesExt

CONSTANTS
    Objs,       \* the objects that have a task
    NoObj       \* no callback runs

ASSUME ObjsAssumption == IsFiniteSet(Objs) /\ NoObj \notin Objs

VARIABLES
    m_updatetasks,  \* the list; a callback is known by its object
    i,              \* the loop's index; 0 outside the loop
    running,        \* the object whose callback is being called
    alive,          \* the objects that exist
    m_active,       \* the flag of each object
    called,         \* history: called in this frame, and not added since
    skipped         \* history: the frames that did not call a listed task

vars == <<m_updatetasks, i, running, alive, m_active, called, skipped>>

num == Len(m_updatetasks)

Listed(o) == \E k \in 1..num : m_updatetasks[k] = o
Place(o) == CHOOSE k \in 1..num : m_updatetasks[k] = o

Init ==
    /\ m_updatetasks = <<>> /\ i = 0 /\ running = NoObj
    /\ alive = {} /\ m_active = [o \in Objs |-> FALSE]
    /\ called = {} /\ skipped = [o \in Objs |-> 0]

\* Code of the program runs between the frames' loops, and in a callback until
\* the callback destroys its own object.
CodeRuns == i = 0 \/ running \in alive

BugAddUpdateTask(o) ==  \* at the front of the list
    /\ m_updatetasks' = <<o>> \o m_updatetasks
    /\ called' = called \ {o}
    /\ skipped' = [skipped EXCEPT ![o] = 0]

AddUpdateTask(o) ==
    /\ m_updatetasks' = Append(m_updatetasks, o)
    /\ called' = called \ {o}
    /\ skipped' = [skipped EXCEPT ![o] = 0]

\* The first task of the object is deleted from the array. That there is one is
\* asserted by the code.
DelUpdateTask(o) ==
    /\ m_updatetasks' = IF Listed(o) THEN RemoveAt(m_updatetasks, Place(o))
                        ELSE m_updatetasks
    /\ UNCHANGED <<called, skipped>>

Construct(o) ==
    /\ CodeRuns /\ o \notin alive
    /\ alive' = alive \cup {o}
    /\ m_active' = [m_active EXCEPT ![o] = FALSE]
    /\ UNCHANGED <<m_updatetasks, i, running, called, skipped>>

\* An image with several frames is drawn, the mouse enters a tab, a movie starts.
Start(o) ==
    /\ CodeRuns /\ o \in alive /\ ~m_active[o]
    /\ m_active' = [m_active EXCEPT ![o] = TRUE]
    /\ AddUpdateTask(o)
    /\ UNCHANGED <<i, running, alive>>

\* The image left the screen, the mouse left, the movie stops; in the object's
\* own callback or in other code. A movie that loops stops and starts again.
Stop(o) ==
    /\ CodeRuns /\ o \in alive /\ m_active[o]
    /\ m_active' = [m_active EXCEPT ![o] = FALSE]
    /\ DelUpdateTask(o)
    /\ UNCHANGED <<i, running, alive>>

BugDestroy(o) ==    \* the task of an active object stays
    /\ CodeRuns /\ o \in alive
    /\ alive' = alive \ {o}
    /\ UNCHANGED <<m_updatetasks, i, running, m_active, called, skipped>>

\* The destructor takes the task off the list if the flag is set.
Destroy(o) ==
    /\ CodeRuns /\ o \in alive
    /\ alive' = alive \ {o}
    /\ IF m_active[o]
       THEN /\ m_active' = [m_active EXCEPT ![o] = FALSE]
            /\ DelUpdateTask(o)
       ELSE UNCHANGED <<m_updatetasks, m_active, called, skipped>>
    /\ UNCHANGED <<i, running>>
-----------------------------------------------------------------------------
(* The loop at the end of UpdateInput.                                      *)

BeginFrame ==
    /\ i = 0
    /\ i' = 1
    /\ called' = {}
    /\ UNCHANGED <<m_updatetasks, running, alive, m_active, skipped>>

CallTask ==
    /\ running = NoObj /\ i \in 1..num
    /\ running' = m_updatetasks[i]
    /\ called' = called \cup {m_updatetasks[i]}
    /\ UNCHANGED <<m_updatetasks, i, alive, m_active, skipped>>

TaskReturns ==
    /\ running # NoObj
    /\ running' = NoObj
    /\ i' = i + 1
    /\ UNCHANGED <<m_updatetasks, alive, m_active, called, skipped>>

\* The history counts the tasks this frame has passed over.
EndFrame ==
    /\ running = NoObj /\ i > num
    /\ i' = 0
    /\ skipped' = [o \in Objs |-> IF Listed(o) /\ o \notin called
                                  THEN skipped[o] + 1 ELSE skipped[o]]
    /\ UNCHANGED <<m_updatetasks, running, alive, m_active, called>>

Next ==
    \/ \E o \in Objs : Construct(o) \/ Start(o) \/ Stop(o) \/ Destroy(o)
    \/ BeginFrame \/ CallTask \/ TaskReturns \/ EndFrame

Spec == Init /\ [][Next]_vars
-----------------------------------------------------------------------------
TypeOK ==
    /\ m_updatetasks \in Seq(Objs)
    /\ i \in Nat
    /\ running \in Objs \cup {NoObj}
    /\ alive \in SUBSET Objs
    /\ m_active \in [Objs -> BOOLEAN]
    /\ called \in SUBSET Objs
    /\ skipped \in [Objs -> Nat]

\* The list holds exactly the tasks of the living objects whose flag is set, each
\* once. So no callback of a destroyed object is called, and DelUpdateTask's
\* assertion "task not in list error!" never fails.
TasksMatchFlags ==
    /\ \A o \in Objs : Listed(o) <=> o \in alive /\ m_active[o]
    /\ \A j, k \in 1..num : m_updatetasks[j] = m_updatetasks[k] => j = k

\* A task the frame has called is not called again, whatever was removed in
\* between, unless it was taken off and added anew.
NotCalledAgain == i > 0 => \A k \in 1..num : m_updatetasks[k] \in called =>
                               k < i \/ (k = i /\ running # NoObj)

\* A removal makes the loop pass over tasks behind the removed one. Each such
\* frame brings the task nearer to the front, the one it was added in excepted, so
\* a task that stays listed is passed over in at most Cardinality(Objs) frames.
SkipsAreBounded ==
    \A o \in Objs : \A k \in 1..num :
        m_updatetasks[k] = o => skipped[o] + k <= Cardinality(Objs) + 1
=============================================================================
