----------------------------- MODULE BrowseTabs -----------------------------
(***************************************************************************)
(* The tabs of the browser object (kguibrowse.cpp): the history of each tab,*)
(* the downloads of pages that are under way, and the requester for a name  *)
(* and a password, which keeps the download that asked for it.              *)
(*                                                                         *)
(* Everything here runs in the interface's thread; what interleaves are the *)
(* user's actions, the refresh timers of the pages, the ends of the         *)
(* downloads and the update task that looks for them.  An entry of the      *)
(* history is its URL.                                                      *)
(***************************************************************************)
EXTENDS Integers, Sequences, SequencesExt

CONSTANTS
    Urls,
    FileUrls,   \* those with file://, which are loaded without a thread
    TabRecords, \* the records there is memory for
    MaxTabs,    \* bound: tabs open at a time
    MaxPages,   \* MAXPAGES
    Dls,        \* bound: DownloadPageRecords at a time
    NoTab, NoDl, NoUrl

ASSUME UrlsAssumption == FileUrls \subseteq Urls /\ NoUrl \notin Urls
ASSUME PagesAssumption == MaxPages \in Nat \ {0}
ASSUME NothingAssumption == NoTab \notin TabRecords /\ NoDl \notin Dls

VARIABLES
    m_tabrecords, \* the open tabs, in the order of the tab row
    m_curtab,     \* position of the tab in front
    m_histindex,  \* of each record: the position after the page it shows
    m_histend,    \* of each record: the pages its history has
    m_history,    \* of each record
    m_curdl,      \* of each record: its download, or NoDl
    dls,          \* the DownloadPageRecords: their tab, URL and state
    m_dlactive,   \* the downloads Update looks after
    refreshing,   \* the records whose page's refresh timer runs
    windows,      \* the downloads of the AuthenticateWindows, last on top
    m_gomenu,     \* the history positions the open menu lists
    crashed       \* a null pointer was followed or an assertion failed

records == <<m_histindex, m_histend, m_history, m_curdl>>
vars == <<m_tabrecords, m_curtab, records, dls, m_dlactive, refreshing, windows,
          m_gomenu, crashed>>

Open == ToSet(m_tabrecords)
CurTab == m_tabrecords[m_curtab]

FreeDl == [tab |-> NoTab, url |-> NoUrl, state |-> "free"]
Freed(d) == [dls EXCEPT ![d] = FreeDl]
NoHistory == [i \in 1..MaxPages |-> NoUrl]

Init ==
    /\ \E t \in TabRecords : m_tabrecords = <<t>>
    /\ m_curtab = 1
    /\ m_histindex = [t \in TabRecords |-> 0]
    /\ m_histend = [t \in TabRecords |-> 0]
    /\ m_history = [t \in TabRecords |-> NoHistory]
    /\ m_curdl = [t \in TabRecords |-> NoDl]
    /\ dls = [d \in Dls |-> FreeDl]
    /\ m_dlactive = <<>> /\ windows = <<>>
    /\ refreshing = {}
    /\ m_gomenu = {}
    /\ crashed = FALSE

\* TabRecord::GetCurHist
GetCurHist(t) == IF m_histindex[t] = 0 THEN NoUrl ELSE m_history[t][m_histindex[t]]

-----------------------------------------------------------------------------
(* Parts of the handlers.                                                  *)

\* kGUIBrowseObj::Goto gives the entry to the record's page, which may ask for
\* a refresh.
Goto(t) == refreshing' \in {refreshing \ {t}, refreshing \cup {t}}

\* TabRecord::NextPage, and the URL its callers set: the entries behind the
\* current one are given up, and the oldest one when there is no room.
NextIndex(t) == IF m_histindex[t] = MaxPages THEN MaxPages ELSE m_histindex[t] + 1

NextHistory(t, u) ==
    [k \in 1..MaxPages |->
        IF k = NextIndex(t) THEN u
        ELSE IF m_histindex[t] = MaxPages THEN m_history[t][k + 1]
        ELSE m_history[t][k]]

NextPage(t, u) ==
    /\ m_histindex' = [m_histindex EXCEPT ![t] = NextIndex(t)]
    /\ m_histend' = [m_histend EXCEPT ![t] = NextIndex(t)]
    /\ m_history' = [m_history EXCEPT ![t] = NextHistory(t, u)]

\* StopLoad: the download goes on until its thread sees the abort; its record
\* is left in the list without a tab.
Stopped(t) ==
    [d \in Dls |-> IF d = m_curdl[t] THEN [dls[d] EXCEPT !.tab = NoTab] ELSE dls[d]]

BugStopLoad(t) ==   \* m_tabrecord is not cleared
    /\ m_curdl' = [m_curdl EXCEPT ![t] = NoDl]
    /\ UNCHANGED dls

StopLoad(t) ==
    /\ dls' = Stopped(t)
    /\ m_curdl' = [m_curdl EXCEPT ![t] = NoDl]

\* Load of the entry u: a file is read at once (PageLoaded is called here, and
\* shows the file or an error page), anything else by a thread.  The records
\* in gone are freed afterwards.
LoadFile(t, u, gone) ==
    /\ u \in FileUrls
    /\ dls' = [d \in Dls |-> IF d \in gone THEN FreeDl ELSE Stopped(t)[d]]
    /\ m_curdl' = [m_curdl EXCEPT ![t] = NoDl]
    /\ Goto(t)
    /\ UNCHANGED m_dlactive

NewDl == CHOOSE d \in Dls : dls[d] = FreeDl

LoadPage(t, u, gone) ==
    /\ u \notin FileUrls
    /\ \E d \in Dls : dls[d] = FreeDl
    /\ dls' = [d \in Dls |->
                 IF d = NewDl THEN [tab |-> t, url |-> u, state |-> "loading"]
                 ELSE IF d \in gone THEN FreeDl ELSE Stopped(t)[d]]
    /\ m_dlactive' = Append(m_dlactive, NewDl)
    /\ m_curdl' = [m_curdl EXCEPT ![t] = NewDl]

Load(t, u, gone) ==
    \/ LoadFile(t, u, gone)
    \/ LoadPage(t, u, gone) /\ UNCHANGED refreshing

\* The input goes to the window on top: to a requester, which stays there
\* (SetTop), else to the menu, else to the browser.
RequesterOnTop == windows # <<>>
BugBrowserOnTop == m_gomenu = {}
MenuOnTop == ~RequesterOnTop /\ m_gomenu # {}
BrowserOnTop == ~RequesterOnTop /\ m_gomenu = {}

-----------------------------------------------------------------------------
(* The user.                                                               *)

\* An address typed, a search, a bookmark, or SetSource without a source.
UrlChanged(u) ==
    /\ BrowserOnTop
    /\ NextPage(CurTab, u)
    /\ Load(CurTab, u, {})
    /\ UNCHANGED <<m_tabrecords, m_curtab, windows, m_gomenu, crashed>>

\* Click on a link of the page in front.
ClickLink(u) ==
    /\ BrowserOnTop
    /\ m_histindex[CurTab] > 0
    /\ NextPage(CurTab, u)
    /\ Load(CurTab, u, {})
    /\ UNCHANGED <<m_tabrecords, m_curtab, windows, m_gomenu, crashed>>

\* NewTab puts a fresh record behind the others and in front of the user.
AddTab(t) ==
    /\ t \in TabRecords \ Open
    /\ Len(m_tabrecords) < MaxTabs
    /\ m_tabrecords' = Append(m_tabrecords, t)
    /\ m_curtab' = Len(m_tabrecords) + 1

NewTab ==
    /\ BrowserOnTop
    /\ \E t \in TabRecords : AddTab(t)
    /\ UNCHANGED <<records, dls, m_dlactive, refreshing, windows, m_gomenu, crashed>>

\* Click with m_newtab: the link is opened in a tab of its own.
ClickNewTab(u) ==
    /\ BrowserOnTop
    /\ m_histindex[CurTab] > 0
    /\ \E t \in TabRecords : AddTab(t) /\ NextPage(t, u) /\ Load(t, u, {})
    /\ UNCHANGED <<windows, m_gomenu, crashed>>

\* CloseTab deletes the record, and opens an untitled tab when it was the last
\* one.  A record that is not open is as its constructor leaves it.
Rest == RemoveAt(m_tabrecords, m_curtab)

CloseTab ==
    /\ BrowserOnTop
    /\ StopLoad(CurTab)
    /\ \E t \in TabRecords : m_tabrecords' = IF Rest = <<>> THEN <<t>> ELSE Rest
    /\ m_curtab' = IF m_curtab = Len(m_tabrecords) /\ m_curtab > 1
                   THEN m_curtab - 1 ELSE m_curtab
    /\ m_histindex' = [m_histindex EXCEPT ![CurTab] = 0]
    /\ m_histend' = [m_histend EXCEPT ![CurTab] = 0]
    /\ m_history' = [m_history EXCEPT ![CurTab] = NoHistory]
    /\ refreshing' = refreshing \ {CurTab}
    /\ UNCHANGED <<m_dlactive, windows, m_gomenu, crashed>>

TabChanged ==
    /\ BrowserOnTop
    /\ m_curtab' \in (1..Len(m_tabrecords)) \ {m_curtab}
    /\ UNCHANGED <<m_tabrecords, records, dls, m_dlactive, refreshing, windows,
                   m_gomenu, crashed>>

\* The end of GoBack, GoForward and DoGotoMenu: the entry is shown from the
\* source it has, without a load.
BugGotoEntry(i) ==
    /\ m_histindex' = [m_histindex EXCEPT ![CurTab] = i]
    /\ Goto(CurTab)
    /\ UNCHANGED <<m_tabrecords, m_curtab, m_histend, m_history, m_curdl, dls,
                   m_dlactive, windows, crashed>>

GotoEntry(i) ==
    /\ StopLoad(CurTab)
    /\ m_histindex' = [m_histindex EXCEPT ![CurTab] = i]
    /\ Goto(CurTab)
    /\ UNCHANGED <<m_tabrecords, m_curtab, m_histend, m_history, m_dlactive,
                   windows, crashed>>

GoBack ==
    /\ BrowserOnTop
    /\ m_histindex[CurTab] > 1
    /\ GotoEntry(m_histindex[CurTab] - 1)
    /\ UNCHANGED m_gomenu

GoForward ==
    /\ BrowserOnTop
    /\ m_histindex[CurTab] < m_histend[CurTab]
    /\ GotoEntry(m_histindex[CurTab] + 1)
    /\ UNCHANGED m_gomenu

\* The menus of the two buttons (positions here count from 1).
GoBackMenu ==
    /\ BrowserOnTop
    /\ m_histindex[CurTab] > 1
    /\ m_gomenu' = 1 .. (m_histindex[CurTab] - 1)
    /\ UNCHANGED <<m_tabrecords, m_curtab, records, dls, m_dlactive, refreshing,
                   windows, crashed>>

GoForwardMenu ==
    /\ BrowserOnTop
    /\ m_histindex[CurTab] < m_histend[CurTab]
    /\ m_gomenu' = (m_histindex[CurTab] + 1) .. m_histend[CurTab]
    /\ UNCHANGED <<m_tabrecords, m_curtab, records, dls, m_dlactive, refreshing,
                   windows, crashed>>

DoGotoMenu ==
    /\ MenuOnTop
    /\ \E i \in m_gomenu : GotoEntry(i)
    /\ m_gomenu' = {}

LeaveMenu ==
    /\ MenuOnTop
    /\ m_gomenu' = {}
    /\ UNCHANGED <<m_tabrecords, m_curtab, records, dls, m_dlactive, refreshing,
                   windows, crashed>>

\* The button is enabled while there is a page.
Refresh ==
    /\ BrowserOnTop
    /\ m_histindex[CurTab] > 0
    /\ Load(CurTab, GetCurHist(CurTab), {})
    /\ UNCHANGED <<m_tabrecords, m_curtab, m_histindex, m_histend, m_history,
                   windows, m_gomenu, crashed>>

-----------------------------------------------------------------------------
(* The requester on top; closing it frees the download it keeps.           *)

CloseWindow == windows' = Front(windows)

\* OK: Authenticate loads the tab in front, whichever tab asked.  Load follows
\* the null pointer when that one has no page yet.
AuthenticateOK ==
    /\ RequesterOnTop
    /\ m_histindex[CurTab] > 0
    /\ Load(CurTab, GetCurHist(CurTab), {Last(windows)})
    /\ CloseWindow
    /\ UNCHANGED <<m_tabrecords, m_curtab, m_histindex, m_histend, m_history,
                   m_gomenu, crashed>>

AuthenticateNoPage ==
    /\ RequesterOnTop
    /\ m_histindex[CurTab] = 0
    /\ crashed' = TRUE
    /\ UNCHANGED <<m_tabrecords, m_curtab, records, dls, m_dlactive, refreshing,
                   windows, m_gomenu>>

\* Cancel: ShowError in the tab that asked.
Asking == dls[Last(windows)].tab

AuthenticateCancel ==
    /\ RequesterOnTop
    /\ crashed' = (Asking \notin Open)
    /\ Goto(Asking)
    /\ dls' = Freed(Last(windows))
    /\ CloseWindow
    /\ UNCHANGED <<m_tabrecords, m_curtab, records, m_dlactive, m_gomenu>>

\* The window is closed without an answer.
AuthenticateClose ==
    /\ RequesterOnTop
    /\ dls' = Freed(Last(windows))
    /\ CloseWindow
    /\ UNCHANGED <<m_tabrecords, m_curtab, records, m_dlactive, refreshing, m_gomenu,
                   crashed>>

-----------------------------------------------------------------------------
(* The pages, the downloads and the update task.                           *)

\* kGUIHTMLPageObj::TimerEvent: a page clicks on its refresh URL once, in
\* whichever tab it is and whatever window is on top.
TimerEvent(t, u) ==
    /\ t \in refreshing
    /\ NextPage(t, u)
    /\ \/ LoadFile(t, u, {})
       \/ LoadPage(t, u, {}) /\ refreshing' = refreshing \ {t}
    /\ UNCHANGED <<m_tabrecords, m_curtab, windows, m_gomenu, crashed>>

\* The thread of a download clears m_asyncactive.
DownloadEnds(d) ==
    /\ dls[d].state = "loading"
    /\ dls' = [dls EXCEPT ![d].state = "ended"]
    /\ UNCHANGED <<m_tabrecords, m_curtab, records, m_dlactive, refreshing, windows,
                   m_gomenu, crashed>>

\* PageLoaded.  A page, which may have been redirected to u, or an error page:
\* it goes to the entry its tab is at now.
ShowPage(d, u) ==
    /\ m_history' = [m_history EXCEPT ![dls[d].tab] =
                        [@ EXCEPT ![m_histindex[dls[d].tab]] = u]]
    /\ Goto(dls[d].tab)
    /\ crashed' = (dls[d].tab \notin Open)
    /\ dls' = Freed(d)
    /\ UNCHANGED windows

\* The server wants a name and a password: the requester keeps the download.
BugAskForPassword(d) ==
    /\ windows' = Append(windows, d)
    /\ dls' = Freed(d)
    /\ UNCHANGED <<m_history, refreshing, crashed>>

AskForPassword(d) ==
    /\ windows' = Append(windows, d)
    /\ UNCHANGED <<dls, m_history, refreshing, crashed>>

\* It wants them and does not say for what: nothing is shown.
ShowNothing(d) ==
    /\ dls' = Freed(d)
    /\ UNCHANGED <<windows, m_history, refreshing, crashed>>

PageLoaded(d) ==
    /\ m_curdl' = [m_curdl EXCEPT ![dls[d].tab] = NoDl]
    /\ \/ ShowPage(d, GetCurHist(dls[d].tab))
       \/ \E u \in Urls \ FileUrls : ShowPage(d, u)
       \/ AskForPassword(d)
       \/ ShowNothing(d)

\* Update, for the download d of the list: the loop is these steps in the order
\* of the list, each with what GetAsyncActive says when it comes to d.
Update(d) ==
    /\ dls[d].state = "ended"
    /\ \E i \in 1..Len(m_dlactive) :
          /\ m_dlactive[i] = d
          /\ m_dlactive' = RemoveAt(m_dlactive, i)
    /\ \/ dls[d].tab # NoTab /\ PageLoaded(d)
       \/ /\ dls[d].tab = NoTab
          /\ dls' = Freed(d)
          /\ UNCHANGED <<m_curdl, m_history, refreshing, windows, crashed>>
    /\ UNCHANGED <<m_tabrecords, m_curtab, m_histindex, m_histend, m_gomenu>>

-----------------------------------------------------------------------------
UserAction ==
    \/ \E u \in Urls : UrlChanged(u) \/ ClickLink(u) \/ ClickNewTab(u)
    \/ NewTab \/ CloseTab \/ TabChanged
    \/ GoBack \/ GoForward \/ Refresh
    \/ GoBackMenu \/ GoForwardMenu \/ DoGotoMenu \/ LeaveMenu
    \/ AuthenticateOK \/ AuthenticateNoPage \/ AuthenticateCancel \/ AuthenticateClose

Next ==
    /\ ~crashed
    /\ \/ UserAction
       \/ \E t \in TabRecords, u \in Urls : TimerEvent(t, u)
       \/ \E d \in Dls : DownloadEnds(d) \/ Update(d)

Spec == Init /\ [][Next]_vars

-----------------------------------------------------------------------------
TypeOK ==
    /\ m_tabrecords \in Seq(TabRecords)
    /\ m_curtab \in 1..Len(m_tabrecords)
    /\ m_histindex \in [TabRecords -> 0..MaxPages]
    /\ m_histend \in [TabRecords -> 0..MaxPages]
    /\ m_history \in [TabRecords -> [1..MaxPages -> Urls \cup {NoUrl}]]
    /\ m_curdl \in [TabRecords -> Dls \cup {NoDl}]
    /\ dls \in [Dls -> [tab : TabRecords \cup {NoTab}, url : Urls \cup {NoUrl},
                        state : {"free", "loading", "ended"}]]
    /\ m_dlactive \in Seq(Dls) /\ windows \in Seq(Dls)
    /\ m_gomenu \subseteq 1..MaxPages

\* What a tab waits for is in Update's list and knows the tab, and what is in
\* the list for a tab is what the tab waits for.  Tabs are closed and loads are
\* stopped and started over at any time; a slip leaves a pointer to a deleted
\* TabRecord or DownloadPageRecord behind.
LoadsMatchTabs ==
    /\ \A t \in TabRecords : m_curdl[t] # NoDl =>
          /\ t \in Open
          /\ m_curdl[t] \in ToSet(m_dlactive)
          /\ dls[m_curdl[t]].tab = t
    /\ \A d \in ToSet(m_dlactive) : dls[d].tab # NoTab =>
          /\ dls[d].tab \in Open
          /\ m_curdl[dls[d].tab] = d

\* PageLoaded writes into the entry its tab is at when the download ends: it is
\* the entry the download was started for, whatever the user, the refresh
\* timers and the menus did meanwhile.
LoadIsForCurrentEntry ==
    \A d \in ToSet(m_dlactive) :
        dls[d].tab # NoTab => GetCurHist(dls[d].tab) = dls[d].url

\* Each DownloadPageRecord is deleted exactly once: it is in Update's list, or
\* a requester keeps it, and never both.
OneOwnerEach ==
    /\ IsInjective(m_dlactive) /\ IsInjective(windows)
    /\ ToSet(m_dlactive) \cap ToSet(windows) = {}
    /\ ToSet(m_dlactive) \cup ToSet(windows) = {d \in Dls : dls[d] # FreeDl}

\* A requester's tab cannot be closed under it: Cancel shows the error in a
\* tab that exists (the assertion of GetTabNum) and that has an entry for it.
RequesterTabExists ==
    \A d \in ToSet(windows) : dls[d].tab \in Open /\ m_histindex[dls[d].tab] > 0

=============================================================================
