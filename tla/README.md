# A verification project for kGUI

kGUI (`src/`) is a C++ framework for windowed programs: a window system with its own widgets, an
HTML page with a downloader and a browser on top, sound, movies, archives, and containers that keep
more data than fits in memory. This directory has TLA+ models of the parts whose correctness depends
on the order in which things happen, the TLC configurations that check them on small instances, and
proofs, checked by TLAPS, that the main results hold for every instance.

Contents: [inventory](#1-inventory), [hazards](#2-what-is-hard),
[modules](#3-the-modules-and-the-code), [runs](#4-the-runs), [proofs](#5-the-proofs),
[disagreements found](#6-where-the-code-and-its-comments-disagree),
[what is left out](#7-what-is-not-modelled), [plan](#8-plan).

`PROJECT.json` holds the same inventory in machine-readable form, with the source lines of every
definition (`map`), a mutant of the code for every property (`mutants`), and the hazards at their lines.
Operators named `Bug...` are those mutants; no specification uses them.

## 1. Inventory

How the parts fit together: one thread, *the interface*, runs `kGUISystem::Loop`; every frame it
polls the input, calls the update tasks and the event handlers (`UpdateInput`) and draws (`Draw`).
Both take the *access mutex* `m_busymutex` with `kGUI::TryAccess` and skip the frame when they do not
get it. Other threads - one per download, one per HTML page for its load list, one for sound, one per
image being decoded - share objects with the interface and touch them either under the access mutex,
under a mutex of the component, through a queue with one writer and one reader, or under no lock at all.

| Component | Its state | Its operations | Talks to | What makes it correct |
|---|---|---|---|---|
| **VHeap** `vheap.cpp` | bytes used, the blocks with buffer, dirty and new flag, the active list, the backing file | `Init`, `Alloc`, `Write`, `Read`, `Activate` | `HashVHeap`, tables and databases that keep rows in it; a file | what was written reads back, whatever was evicted in between; the active list is exactly the blocks in memory; no block is read back that is not in the file |
| **kGUIMutex** `kguimutex.cpp` | the system's mutex, `m_locked` | `Lock`, `TryLock`, `UnLock` | everybody | exclusion; its asserts never fail |
| **Downloads** `kguidl.cpp`, `kguithread.cpp` | per entry: status, abort flag, active flag, callback; per thread: where it is | `AsyncDownLoad`, `Abort`, destructor; the thread's `Download` | access mutex, cookies, page and browser (callback) | one thread per entry; a destroyed entry is left alone; a callback gets the status of its own download and runs only with access; waits end |
| **CommStack** `kgui.h` | ring, head, tail | `Write`, `Read` | the page's load lists | a first-in first-out queue without a lock |
| **Page load list** `kguihtml.cpp` | two queues, the lists of downloads in progress and finished, counters, reset and shutdown flags; flags of each image | `LocateLink`, `LocateImage`, `Purge`, `Click`, destructor; `LoadListThread` | CommStack, downloads, access mutex | the count in the status line is right; nothing is loaded twice; the thread is gone when the page is; waits end |
| **BigFile** `big.cpp`, `kguibig.cpp` | directory blocks, hash, end and waste; the archive on the disk | `Load`, `AddFile`, `UpdateDir` | source files | an archive interrupted anywhere but between two directory blocks keeps its files: an entry that looks up to date is; what a run leaves loads; waste is the sum of the gaps |
| **Read stream** `datahandle.cpp`, `kguixml.cpp` | stream blocks, sections, the current block, two notions of the file's position | `InitReadStream`, `StreamRead`, `StreamCmp`, `StreamPeekChar`, `StreamSkip` | `kGUIXML::StreamLoad` | the bytes handed out are the file's |
| **Dirty rectangles** `kgui.cpp`, `kguiobj.cpp`, `kguilinux.cpp` | at most 200 areas of the screen that are out of date; during a frame, Draw's copy of them and the box it returns | `Dirty`, `Draw`, the platform's `Draw` | every object that changes its looks | what changed is painted and shown; no pixel is painted twice in a frame or without need |
| **Update tasks** `kgui.cpp`, `kguiimage.cpp`, `kguimovie.cpp` | the list of callbacks, the loop's index; the flag of each object | `AddUpdateTask`, `DelUpdateTask`, the loop of `UpdateInput` | animated images, scrolls, tabs, menus, movies, browser | no callback of a destroyed object; once per frame; nobody is passed over for ever |
| **Browser tabs** `kguibrowse.cpp` | the tabs and the one in front, per tab a history and the download it waits for; the downloads under way; requesters for a password | `UrlChanged`, `Click`, `NewTab`, `CloseTab`, back and forward and their menus, `Refresh`, `Load`, `StopLoad`, `Update`, `PageLoaded`, `Authenticate`, `ShowError` | page (clicks, refresh timer), downloads, update tasks, windows | a page ends in the entry it was loaded for; each download is freed once; nothing points to a closed tab |
| Audio `kguiaudio.cpp` | active handles, pool of handles, pool of buffers; per handle: buffers, position, playing | `Play`, `Stop`, `Update`, `PlayBuffer`, `UpdateThread` | its own thread, movies, samples | locks in one order; a handle belongs to one user; buffers are given back once |
| Cookies `kguicookies.cpp` | hash of cookies, list per domain | `SetCookie`, `GetCookies`, `Load`, `Save` | download threads, the browser's viewer | longest path first; no pointer kept over an unlock |
| Item cache `kguihtml.cpp` | a hash from URL to a cached file, the total size, limit and mode | `Find`, `FindExpired`, `UpdateExpiry`, `Add`, `Purge`, `CheckCacheSize`, `Delete`, `Load`, `Save` | pages, download threads' callbacks | the total is the sum of the entries; `Purge` leaves an entry that is null, which every other operation has to expect; the oldest go first |
| Window system `kgui.cpp` | window stack, current objects, listeners, deferred deletions | `UpdateInput`, `CallEvents` | all widgets | a handler may remove what is being iterated |
| DataHandle `datahandle.cpp` | kind of handle, open flags, position, write buffer | open, read, write, close | everything that reads or writes | balanced opens; reads stay in range |
| Images `kguiimage.cpp` | pixels, frames, a decoding thread | load, draw, unload | page, interface | pixels are drawn when complete |
| Containers `hash.cpp`, `heap.cpp`, `array.h`, `classpool.h`, `kgui.h` | arrays and links | add, find, delete, sort | everything | sequential invariants |

Components not in the table (widgets, drawing, parsers, fonts, tables, BASIC, e-mail, vendored
libraries, samples, platform layers) are listed with the reason they are left out in section 7.

## 2. What is hard

* **Unlocked flags.** `kGUIDownloadEntry` and `kGUIThread` tell the interface that a download has ended
  through two plain booleans, cleared one after the other (`kguidl.cpp:1243`, `kguithread.cpp`), while
  `kGUIMutex::TryLock` reads `m_locked` before it owns anything (`kguimutex.cpp:93`).
* **Waiting in a frame.** The interface spins until a thread has ended, or has lowered a flag, while it
  may hold the mutex the thread needs (`kguidl.cpp:123`, `kguihtml.cpp` in `Click` and the destructor).
* **Counting from two threads.** `m_numloading` goes up in the interface, down in the loader's thread,
  and is corrected for what a reset threw away later.
* **Eviction.** VHeap and the read stream give a buffer to somebody else; every shortcut that trusts a
  buffer needs to know.
* **Dying between two writes.** `kguibig` updates an archive in place: data, then directory blocks (a
  body and a header each), then the root header. There is no journal, and blocks that belong together are written one by one.
* **Lists changed by those who are called from them.** An update task may remove any task or destroy its
  own object while the loop holds an index (`kgui.cpp:1224`); `Dirty` calls itself with a pointer into the
  array that the inner calls change (`kgui.cpp:1302`).
* **Answers that come late.** A page arrives after its tab was closed, has gone back, or was told by a
  timer to load something else; a refused one waits in a requester (`kguibrowse.cpp:1731`).
* **Bounds.** Rings that keep one slot empty, ranges that end on a block's boundary, files of size zero,
  lists with room for one more than they say.

The instances that matter most are in `PROJECT.json` under `hazards`, with the properties about them, or the
reason there is none.

## 3. The modules and the code

| Module | What it is |
|---|---|
| `FlatHeap` | abstract: a growing array of bytes |
| `VHeap`, `MCVHeap`, `VHeapProofs` | `vheap.cpp`; implements `FlatHeap` |
| `KMutex` | `kguimutex.cpp`, and `TryAccess`/`ReleaseAccess` of `kgui.cpp` |
| `Download`, `MCDownload`, `DownloadProofs` | `kguidl.cpp`; composed with `KMutex`, whose actions it uses and whose theorems are proved with its own |
| `BoundedQueue` | abstract: a first-in first-out queue |
| `CommStack`, `CommStackProofs` | `kGUICommStack`; implements `BoundedQueue` |
| `LoadList`, `MCLoadList`, `LoadListProofs` | the page's load list; composed with `KMutex`; each of its queues is what `CommStack` implements, each of its downloads what `Download` shows from outside |
| `BigFile`, `MCBigFile`, `BigFileProofs` | `big.cpp` and `kguibig.cpp` |
| `StreamCache`, `StreamCacheProofs` | the read stream and its client |
| `DirtyRects`, `MCDirtyRects`, `ScreenProofs` | the dirty rectangles, `Draw` and the copy to the window |
| `UpdateTasks`, `MCUpdateTasks`, `ScreenProofs` | the task list and the loop over it |
| `BrowseTabs`, `MCBrowseTabs`, `BrowseTabsProofs` | the browser's tabs; each download is what `Download` shows from outside, `Update` is one of the tasks of `UpdateTasks` |

### VHeap

`addr`, `dirty`, `isnew` are the fields of the blocks, `active` the linked list between `m_head` and
`m_tail`, `file` the backing file in blocks. `Alloc` is one action (nothing in it can fail half way).
`Write` and `Read` are one action per chunk, because between two chunks `Activate` may end the program
with "Read Error!": `ChunkInMemory` (the block only moves to the head), `ChunkFromFile` (the block at
the tail is written back if dirty, loses its buffer, and the buffer is zeroed or filled from the file),
`ReadError`. An `fwrite` past the end of the file makes a hole of zeros (`FileWith`). A buffer that
`Alloc` gets from `new` holds anything: `garbage` is chosen nondeterministically.

The refinement mapping to `FlatHeap` takes a byte from the buffer, or from the file, or, for the part of
a write still to be copied, from the caller's bytes; a byte never written is `Unset`. `FlatHeap` has a
`call` of its own: its write changes the array when the call begins, and its read ends by handing out the
bytes the range has, so that the refinement is about what callers see and not only about the blocks.

### KMutex and Download

`Lock` and `TryLock` are cut at the points where another thread can get between: the read of
`m_locked`, the wait for the system's mutex, setting the flag, clearing it, giving the mutex back.
`TimedWait` chooses between the builds: `WaitForSingleObject(...,10)` on Windows, `pthread_mutex_lock`,
which waits without limit, on Linux and Macintosh.

In `Download` a member of `Threads` is one run of `kGUIDownloadEntry::Download`. Each action ends where
the thread touches a field the other side also touches: the abort check and the reset of the status
(`Begin`), one pass over the network (`Fetch`, `FetchAborted`), the decision at the label `done`
(`Done`: redirects and refusals go round again), the loop that reports (`Report`, `TryAccess`,
`GetsAccess`, `Call`, `ReleaseAccess`), `Finish` (`m_asyncactive=false`) and `Close`
(`m_thread.Close(false)`, `m_active=false`). The interface enters and leaves frames and, in a frame or
between two, starts, aborts and destroys entries; `WaitFinished` is the loop
`while(m_thread.GetActive())`. All of the network - lookup, connect, SSL, headers, body - is one choice:
what `m_status` ends up being and whether the label `again` is taken.

`Patient` names an assumption about the client that the code does not enforce: that it starts an entry
again only while `GetAsyncActive` is true (then `AsyncDownLoad` waits) or after the thread has ended.

### CommStack

`Write` and `Read` are two actions each, the record and then the index. Each index is written by one
side only, so a read of the other's index is part of the action that uses it. (The model has
sequentially consistent memory, which the declaration `volatile` and the builds' x86 targets come close
to; on weaker memory nothing in the code orders the two writes.)

### LoadList

`pc` is where `LoadListThread` is in its loop: look at `m_shutdown` (`Top`), move the finished downloads
to the done list (`StillActive` and `Collect`, one entry of `loadinglist` at a time as in the code's loop, `place` being its
index, then `Collected`), obey a reset (`Reset`), call back with access (`Report`, `GetsAccess`, `Call`,
`ReleaseAccess`), fill up the downloads (`Take`, `StartDownload`, `Filled`). The page's side is
`LocateLink`, `LocateImage`, `Purge`, the clearing of the flags of "aborted" images by `SetPage`
(`ClearAborted`), `Click` and the destructor; the first four also run inside a callback, in the loader's
thread. A download is only its `GetAsyncActive` here.

### BigFile

The archive is a row of units. Directory blocks have a body and a header, written one after the other.
`phase` is the program's progress: load or make an archive, look at each source file once (`Skip`,
`Replace`, `Add`), then `UpdateDir` (`WriteBody`, `WriteHeader` per changed block, `WriteRoot`). `Crash`
can follow every write, `CrashInCopy` leaves a file copied in part, and in `ReplaceFails` and `AddFails`
the copying fails with the program alive (the `write error, abort!` return), at most `MaxFails` times.
`failures` counts them: after one, an entry may be newer than its data. `torn` is set by a crash while some, but maybe not
all, changed blocks of a directory of several are written: the next run then reads a directory nobody made, with old entries beside
new ones. `UpToDateIsIntact` says nothing after either; `NoLossInCrash` shows what is lost (section 6). Between two runs of the program source files
change (`Edit`), and a file's time is what tells old from new, as in `kguibig.cpp`.

### StreamCache

Byte *i* of the file is the number *i*, so that a wrong byte can be told. `call` is a client's call in
progress; each action hands over one byte, through the quick check (`UseCurrent`), a section that has a
loaded block (`UseLoaded`), a block that is attached and not yet loaded (`FirstLoad`), or the block of
lowest priority (`Replace`). `Read`'s shortening of the number of bytes by `m_offset`
(`datahandle.cpp:657`) is in `NumRead`. The client is `StreamLoad` reduced to the way it moves: from the
end for the last `>`, then forward with looks ahead, going back to the start of a token or a CDATA text.

### DirtyRects

`Dirty` works on a *table*, the array with its count, since an index that a caller
holds may lie behind the count an inner call left. Its body is `DirtyBody`, which is given what a recursive call
does; the recursion is the function `Dirtied` over areas, and the loop of `Purged` is one over the entries looked at. A new area is dropped when an entry contains it, removes
the entries it contains (`WithoutInside`), and is split around the first entry it overlaps
(`AbovePiece`, ... , each from what the entry holds after the piece before it was added); an area that
overlaps nothing widens an entry it shares a side with, becomes an entry, or is replaced by the whole screen when
the array is full (`Added`). `Draw` is `StartDraw` (the list is copied and emptied), one `DrawArea` per area, and the
platform's copy of the returned box (`ShowDrawn`); objects mark areas between frames (`Change`) and while
they are drawn (`ChangeDuringDraw`). `asked`, `unpainted` and `unshown` are history.

The removal of an entry is a `memcpy` between overlapping ranges (`kgui.cpp:1284`), which C leaves undefined.
`CopiesUp` chooses: `TRUE` is a copy in ascending order, `FALSE` one in descending order.

### UpdateTasks

`i` is the loop's index (from 1; 0 between the loops) and `running` the object whose callback is being called.
`Construct`, `Start`, `Stop` and `Destroy` happen between the loops and in any callback, on any object, until
a callback destroys its own object (`CodeRuns`); they are the protocol of images, scrolls, tabs,
menus and movies, which all keep a flag next to the list. A looping movie calls `Seek(0)` from its callback, that is
`Stop` and `Start` of itself: its task moves to the end, is called again in the same frame, and the task behind
it is passed over. The event listeners (`kgui.cpp:2481`) have a loop of the same shape and are not a module.

### BrowseTabs

All of it runs in the interface's thread; what interleaves are the user, the refresh timers, the ends of the
downloads and the update task. A history entry is its URL; positions count from 1 and `m_histindex` 0 is an
untitled tab. A `DownloadPageRecord` has the tab it is for (`NoTab` after `StopLoad`), the URL it was started for
and a state; `m_dlactive` and the requesters in `windows` own it. A `file://` URL is read, and `PageLoaded`
called, inside `Load` (`LoadFile`). `PageLoaded` shows a page (redirected or not) or an error, opens a
requester, or does nothing (a refusal that names no realm). A requester stays on top (`SetTop(true)`), and
while it or the menu of pages is there the browser gets no input (`BrowserOnTop`); timers and `Update` go on.
`AuthenticateOK` loads the tab in front, whichever asked, as the code does; when that one is untitled,
`Load` follows a null pointer (`AuthenticateNoPage`) and the model stops.

## 4. The runs

| Run | Checks | Shows |
|---|---|---|
| `vheap_calls` | `ActiveList` `OnlyAllocated` `NothingLost` `ErrorOnlyUnwritten` `ImplementsFlatHeap` `CallsReturn` | reads and writes over up to three blocks, two in memory: nothing written is lost, every call does to the heap what it would do to a flat array, and it ends (or the program died) |
| `download_entries` | `OneThreadPerEntry` `DeletedIsLeftAlone` `ReportsOwnStatus` `PolledStatusIsFinal` `CallbacksHaveAccess`, `Exclusive` `AssertsHold` `FlagHasOwner` of `KMutex`, `WaitReturns` | two downloads on two entries, or one after the other on one, against frames, aborts, restarts and destructors, with a patient client and a wait that times out |
| `download_wait_pthread` | `WaitReturns` (violated) | see section 6 |
| `commstack_queue` | `CopyIsOldest` `ImplementsQueue` | a ring of four slots is a queue of three records |
| `loadlist_page` | `TypeOK` `CountMatches` `StartedIsListed` `NoThreadAfterPage` `WaitsEnd` | a link and two images, queues with room for one, three requests; the waits of Click and of the destructor end |
| `bigfile_crash` | `UpToDateIsIntact` `NoDuplicates` | two files, a directory block each, crashes everywhere and a write of file data that fails: a file that looks up to date is, unless the program died between two directory blocks |
| `bigfile_update` | `LoadsAgain` `WasteIsGaps` | three files over two directory blocks, grown and shrunk, no failures |
| `bigfile_empty_file` | `EntriesInside` (violated) | see section 6 |
| `stream_reads` | `KnowEachOther` `GivesTheFile` `PositionKnown` | four sections, three blocks, texts no longer than a block can bear |
| `dirty_rects` | `ChangedIsDirty` `Disjoint` `NothingExtra` `PaintedIsShown` | every area of a 3 by 3 screen marked in every order, also while a frame is drawn: all that changed is painted and shown, no pixel twice |
| `update_tasks` | `TasksMatchFlags` `NotCalledAgain` `SkipsAreBounded` | four objects that add and remove tasks and die, in and out of callbacks: no dead object is called, none is called twice, none is passed over in more frames than there are objects |
| `browse_tabs` | `LoadsMatchTabs` `LoadIsForCurrentEntry` `OneOwnerEach` `RequesterTabExists` | two tabs with clicks, timers, menus, closing, stopping and requesters against two downloads: a page ends where it belongs and is freed once |

**Bounds, and why they are enough.** *VHeap:* two of three blocks in memory is the least at which a block
is evicted while another stays; the calls cover one block, two, three, and a range of no bytes on a
boundary; two byte values tell a right byte from a wrong one. *Download:* with two threads an entry's second
download can overlap with its own first or with another entry's, and the mutex has three actors. Nothing
in `Download` takes the mutex with `Lock`, so that half of `KMutex` is covered by its proofs only.
*LoadList:* a queue with room for one fills up; `MaxDownloads = 1` lets two downloads run (the code's
`<=`), so a third item waits; three requests are the least that fill both. *BigFile:* two files over directory blocks with room for one entry exercise the chain of blocks;
`MaxTime = 3`: each file can change twice after it was first seen, at its own moment, so that an update can follow a
crash that followed an update; with that many changes a torn directory does its damage within these bounds (section 6), so
that the guard `~torn` is seen to be needed; a file of two units can be copied in part, an empty one shares its place with its neighbour;
an addition that would make the archive longer than `MaxUnits` is not taken, and `MaxUnits` has room for
both directory blocks, a file and a second copy of it, or of the other one, in part (12 units and three files without crashes in `bigfile_update`);
`MaxFails = 1` is one disk that was full and no longer is. *StreamCache:* four sections over three blocks,
the last one short (15 = 3\*4 + 3), is the least at which every way to a byte is taken: `StreamLoad` itself
uses two blocks, `InitReadStream(16,2)`, and with two a block that is attached and not yet loaded is met
only in a file of two sections (section 6). *DirtyRects:* three by three pixels
are the least on which an area sticks out of an entry on all four sides; room for four entries is what the four
pieces need, so the array also fills up in the middle of a split; one area is marked per frame while it is drawn
(`MaxDuring`). *UpdateTasks:* four objects, so that one can be removed before, at and behind the loop's
place with another left to be passed over. *BrowseTabs:* two tabs and two tab records, so that a closed record is
used again; histories of two pages, so that an entry is given up at either end; two downloads, so that a stopped one is still
there when the next starts or when a requester holds one; a URL of a file and two of the net.

**Symmetry** is used only where a run has no liveness property and the members of the set are
interchangeable: the files of BigFile, the objects of UpdateTasks, the tab records and the URLs of the net of
BrowseTabs.

**Deadlock.** `CHECK_DEADLOCK FALSE` is used where the program really stops: VHeap after the fatal error,
Download when all entries are destroyed, LoadList when the page is gone, BigFile after a failed assertion or
when no file changes any more, StreamCache at the end of the file, BrowseTabs after its crash. Where a wait could hang, a liveness
property says that it does not. CommStack, DirtyRects and UpdateTasks never stop, and their runs
check that.

**Fairness.** Only what the scheduler and the operating system give: each thread takes its next step
(`WF` per thread, not per action); the network's calls return, because `select` has a timeout of 10 ms
and `connect` and the lookup give up; in LoadList a download ends for the same reason. Of the interface
only its wait loop is assumed to run: no fairness on frames, on aborts or on clients, so a liveness result
never depends on the user; the three modules of the screen and the browser, where all but the network
waits for the user, state no liveness (that a task is not starved is the invariant `SkipsAreBounded`). Within VHeap a call in progress continues, since nothing else holds the thread.

## 5. The proofs

Each `...Proofs` module proves its theorems from the assumptions on constants stated, by name, in the
module it extends, and from nothing else.

* **VHeapProofs.** `HeapInvHolds`: `Spec => []HeapInv`. Type correctness, the active list and
  "nothing lost" are not inductive one by one: an eviction keeps `NothingLost` only because the tail of the
  active list is a block in memory (`ActiveList`), because a new block has no buffer (`NewIsOut`), and
  because the range of the call in progress is allocated (`CallInRange`, `Sized`). `HeapInv` is their
  conjunction; three lemmas say what `PushFront` does to the list's shape, to its members and to their
  being distinct, and carry the eviction step. The invariants of `vheap_calls` follow, and the types: `TypesHold`, `ActiveListHolds`, `OnlyAllocatedHolds`,
  `NothingLostHolds`, `ErrorOnlyUnwrittenHolds`.
  `HeapImplementsFlatHeap` is the refinement. It needs `ReadSoFar` beside `HeapInv`: what a read has copied is what
  the flat heap holds there. The bytes of the flat heap (`Cells`) are kept by `Activate`, whichever block it evicts (`Activated`
  says what buffers and file hold after it, for a block in memory and for one from the file); so a chunk changes no byte of the
  flat heap, the flat write happens as the call begins, and the flat read when its last chunk is copied.
* **DownloadProofs.** First the mutex by itself: `MutexInv` adds to the types that the owner is the one actor in
  `Owning` and that the flag is set exactly while it is inside. `ExclusiveHolds`, `AssertsNeverFail`,
  `FlagHasOwnerHolds`, from `MutexSpec`, for any set of threads and both kinds of wait.
  `EntryInv` says that an entry whose `m_active` is false has no running thread and
  that the thread of an active one is unique; it is inductive only with a patient client, and
  section 6 shows that the assumption is needed. `OneThreadHolds`, `DeletedIsLeftAloneHolds`.
  `ResultInv` adds what a thread has found and what its entry shows: before its first step `m_status` may be the
  previous download's, and a thread aborted there stays silent; afterwards entry and thread agree until the thread ends.
  `ReportsOwnStatusHolds`, `PolledStatusIsFinalHolds`.
  `DownloadUsesMutex` proves that `Download` implements `KMutex`'s specification, so the theorems about
  the mutex carry over; with `AccessMatches`, which ties a thread's place in `Download` to its place in the
  mutex, they give `CallbacksHaveAccessHolds`, for both builds and any client.
* **CommStackProofs.** `RingInv` is type correctness, `CopyIsOldest` and `StoreIsUnpublished`.
  `RingImplementsQueue`: every step of the ring is a step or a stutter of `BoundedQueue`, with the records
  from head to tail as the queue; for every size and set of records.
* **StreamCacheProofs.** `CacheInvHolds`, `KnowEachOtherHolds`, and `NeverPastEnd`: no call of the XML
  parser asks for a byte past the end, which `LoadStreamBlock` asserts.
  `GivesTheFileHolds` and `PositionKnownHolds` need a condition, `FileFits`: more than two sections, two or more
  blocks, no comparison longer than a block, and `MaxText + MaxCmp <= BlockSize + 1`. The code chooses two blocks of 64k
  (`kguixml.cpp:1180`); nothing in it keeps a text shorter than a block, or a file longer than two. The condition is
  what the code needs with its two blocks: where one of these bounds is passed by one, TLC finds `GivesTheFile` violated
  (section 6), but for `MaxCmp = BlockSize + 1`, which the last bound allows only if no text has a byte. More blocks bear
  somewhat longer texts, which the condition leaves out. The run's constants meet it.
  The cache does not keep the two properties alone: `ReadStreamBlock` shortens its read by an `m_offset` behind the
  block's start, and the quick check trusts a current block whose section may have lost it. `StreamInv` shows that `StreamLoad`
  meets neither. `PlacesSafe`: where it stands, and where it may go back to, is the first byte of a section or in
  a section that is in a block or starts before the file's position, so a section that is read without a
  seek never starts before `m_offset`. `CurrentRight`: the current block is fresh, or its end is not behind any place that will be
  asked for again; only the next section was compared with since, and its block is the newest. `TargetSafe`: the same for the
  end of a text that is being read. `SearchRight`: the search from the end reads one section, then only earlier bytes.
* **ScreenProofs.** *UpdateTasks:* the three properties of the run for any finite set of objects. Lemmas say
  what removing one entry does to a list and that a list without repetitions is no longer than its set;
  `Inv` adds types and the relation of `running` to the index. `SkipsAreBounded` holds because a frame
  that passes over a task has removed one in front of it: frames passed over plus place never grows.

  *DirtyRects:* the four properties of the run for any surface, any `MAXDIRTY` and any areas. They rest on what one call of
  `Dirty` does to the table. `Part` is the half that every call meets: the table stays one, only pixels of the area or the
  whole screen are added and, when the copy ascends, entries that were apart stay apart and no covered pixel is lost; and as long
  as the area contains none of the first m entries (`Firm`), these stay where they are and are at most widened (`Grows`), unless the array was full. This last is what makes the pointer
  into the array right that a caller holds during four inner calls: each piece is cut from what the entry holds *then*, and
  an entry that was widened meanwhile leaves less to cut. `Result` adds the other half (`Takes`), that the area's own pixels end up covered.
  `Result` is proved of a call from `Result` of the calls it makes (`OneCall`). A piece has a smaller `Measure` (width plus
  height) than the area it is cut from, so the recursion ends: `DirtyEnds` says that `Dirtied` is the function the
  code describes, for every area and table, and that `Result` holds of it. The function is built for areas of
  a bounded measure and the bound is removed by the least counterexample, since the induction theorems are out of reach.
  `ChangedIsDirtyHolds` and `DisjointHolds` have the hypothesis `CopiesUp = TRUE`, and section 6 shows that they need it;
  `NothingExtraHolds`, `PaintedIsShownHolds` and `ScreenTypeHolds` do not.
* **BrowseTabsProofs.** The four properties of the run for any tabs, URLs, histories and downloads. They are
  not inductive alone: a requester's tab survives because `CloseTab` needs the browser on top, and a
  download ends in the right entry because what moves the entry also stops or replaces the download
  (`Core` = the four properties, that records in use are in `dls`, and that entries up to `m_histindex` exist; plus
  distinct tabs and timers of open tabs only). Three lemmas carry the actions: fewer downloads keep
  `Core`, starting one does, and `Update` does.
* **LoadListProofs.** `NoThreadAfterPageHolds` from an invariant that ties the page's and the thread's place to
  the shutdown flag; `LoadListUsesMutex` (an implementation of `KMutex`, as for `Download`) and, with `MutexInv` again,
  `CallbackIsAloneHolds`: no callback of the loading thread runs while the interface is inside a frame.
  `LoadInv` is for the lists: their types and bounds with `CountMatches` and `StartedIsListed`, that a reset is only pending
  while a click waits for it, that the item the thread has taken is the last one of `loadinglist`, and that `place` is within it.
  Appending, taking off and removing in the middle each have a lemma. `TypeOKHolds`, `CountMatchesHolds`, `StartedIsListedHolds`.

* **BigFileProofs.** `BigFileInvHolds`: `Spec => []BigFileInv`, for any files, sizes, room in a block and length of
  the archive, with crashes and with writes that fail. `BigFileInv` claims `KeepsFiles` as long as `failures = 0` and
  `~torn`; section 6 shows by example that without either guard an entry can look up to date and not be. `KeepsFiles` says
  for each phase of `kguibig` what is on the disk, and while it works on a directory `RunInv` ties memory and disk together:
  `Layout` (blocks are linked upwards, names are distinct, files and blocks share no unit), `Behind` (a block on the disk has
  the link and, but for out-of-date entries, the first entries of the block in memory), `Fresh` and `MemFresh` (an entry with its
  file's time has its file's data, on the disk and in memory), `Fits` and `HashFits` (nothing is behind `m_curend`, and
  `m_hash` leads to the entry of each file still to be looked at), and `DiskTidy` (the disk has a layout of its own, so
  that the next `Load` is right). `Witnessed` is the part one would not guess: `Load` never compares a block's place with the
  root's `m_curend`, which an interrupted run leaves behind; a block is nevertheless before the end, because it was there when the root was
  written or an entry behind it was, and that entry is compared. A file's new data may
  overwrite the old as soon as it is out of date, which is why `Behind` does not promise those entries.
  The directory on the disk is a chain of links and `Chain` a recursive function: as links go upwards it exists, by the
  least unit for which it would not, and it is the one path from the first block (`ChainIsThePath`). After that, lemmas treat data
  written to free space, the three ways a block changes in memory, the writes of a body, a header and the root, and each
  action has one of its own. `UpToDateIsIntactHolds` is the run's property. `NoDuplicatesHolds` has the two guards, which
  the run's property has not: that names stay distinct in a torn directory, and after a failed write within its bounds, is
  only checked. `LoadsAgainHolds` is for a `kguibig` that is not interrupted, no write of which fails, and files that are not
  empty (`Crashes = FALSE`, `MaxFails = 0`, `0 \notin Sizes`), as in the run; section 6 has an example without each of the three.
  `WasteIsGapsHolds` is for one that is not interrupted (`Crashes = FALSE`) and holds until a write fails, empty files included.
  `UnitsCounted` counts in memory while `kguibig` runs and on the disk when it does not: the end is the root header, the
  blocks, the waste and the sum of the sizes. Every way `AddFile` places a file moves the end, the waste and the sum
  together (`ReplacementCounts`); what it needs from `RunInv` is that names are distinct, so that the entry that is replaced is
  counted once. The sum is the library's fold, which takes the elements in an order of its own; `SumByAny` shows, by the least
  counterexample on the cardinality, that any order gives the same.

**Only model-checked:** all liveness (`CallsReturn`, `WaitReturns`, `WaitsEnd`; liveness under fairness and
`ENABLED` are out of the prover's reach), and what `NoDuplicates` says of torn directories and failed writes. Every other
property of a passing run is a theorem. For `NoDuplicates` there is no theorem to be had beyond the two guards by this argument: once claims
overlap, the end of the archive can be moved back (a file at the end shrinks) behind which a block still lies, and a block
that is added later may then be put on the place of one that is linked already. The chain of links can then come back to
itself, and neither `Chain` nor the code's loop over it has an end. This takes more updates than the run's bounds have room for; within
them `NoDuplicates` holds.

## 6. Where the code and its comments disagree

Two of these are runs that TLC finds violated; `PROJECT.json` quotes the lines under `findings`.

* `download_wait_pthread`: `TryAccess` is said to return false "if not able to get access right away"; on
  pthreads it can wait, and the interface that destroys an entry in a frame then waits for a thread
  that waits for the interface.
* `bigfile_empty_file`: an empty file at the end of the archive does not move the end, so that replacing
  the file before it by a smaller one leaves an entry past the end, which the next `Load` asserts not to exist.

Changing a line of a `.cfg` shows others, which have no run of their own:

| In | Change | Then TLC finds violated |
|---|---|---|
| `VHeapCalls.cfg` | the invariant `NoReadError` | it: the first blocks `Alloc` hands out have a buffer, are neither new nor dirty, and so are dropped without being written (`vheap.cpp:98`); activating one again reads past the end of the file, "Read Error!" (`vheap.cpp:297`). `ErrorOnlyUnwritten` shows the limit of the damage: only a block nobody wrote to |
| `LoadListPage.cfg` | the invariant `NoDoubleLoad` (in place of the property), `Spec`, `MaxRequests = 4` | it: "it is already loading" (`kguihtml.cpp:1752`) is not so. An image that only waits on the list looks idle to `Purge`, and any unfinished image looks aborted to `SetPage`; both then load it a second time |
| `DirtyRects.cfg` | `CopiesUp = FALSE` | `Disjoint`: a `memcpy` in descending order over the overlapping ranges (`kgui.cpp:1284`) repeats the last entry |
| `DownloadEntries.cfg` | `Patient = FALSE` | `OneThreadPerEntry`, and without that invariant `DeletedIsLeftAlone`: an entry started again between the clearing of `m_asyncactive` and of `m_active` gets a thread nobody waits for, and the destructor leaves it running |
| `BigFileCrash.cfg` | the invariant `NoLossInCrash` | it: a file at the end of the archive shrinks, another one is moved behind it, and `kguibig` dies after the directory block of the second is written and before that of the first. The old entry of the first, read again, claims space the second has; changed once more, it is written over the second, whose entry goes on looking up to date (`big.cpp:332`, `big.cpp:518`) |
| `BigFileEmptyFile.cfg` | `Sizes = {1, 2}`, `Crashes = TRUE` | `EntriesInside`: the program died between a directory block and the root header |
| `BigFileEmptyFile.cfg` | `Sizes = {1, 2}`, `MaxFails = 1` | `EntriesInside`: a replacement of the last file failed after the end was moved back |
| `StreamCacheReads.cfg` | `FileSize = 7`, `NumBlocks = 2` | `GivesTheFile`: with two sections the look for the last `>` reads garbage, as a read is shortened by an offset that is the client's and not the block's (`datahandle.cpp:657`) |
| `StreamCacheReads.cfg` | `MaxText = 4`, `NumBlocks = 2` | `GivesTheFile`: the current block is trusted after a comparison gave it to another section |
| `StreamCacheReads.cfg` | `NumBlocks = 1` | `GivesTheFile`: for the same reason, when a text that ended behind the block is gone back to |

## 7. What is not modelled

* *Worth a module, and without one:* audio (section 8), cookies, the item cache, the dispatch of input
  through windows, the open state of a DataHandle, the image thread, the containers. Apart from audio and the
  image thread these are sequential: cookies and the cache are changed under one lock or by one thread, and what can be
  wrong in them is an order of links or a sum, met as well by tests.
* *Sequential and large, state local to one object:* widgets, tables, reports, BASIC, CSV, XML trees, HTML
  and CSS parsing and layout, TSP, BSP, e-mail. Their hazards are those of parsing and arithmetic, better
  met by tests.
* *Pure data transformation:* zip, drawing, polygons, subpixels, fonts, protection, random numbers.
* *Outside the program:* platform layers, OpenSSL/matrixssl glue, ffmpeg, freetype, databases, the operating
  system's threads. What of them the models need (an `fwrite` past the end, a mutex, a thread) is modelled
  from how the code uses it.
* Within the modelled parts: `BigFile::Delete` (never called), the contents of downloads, the parsing
  inside `StreamLoad`, `VHeap`'s destructor, the browser's destructor, bookmarks, form input and scroll
  positions, `SetSource` with a source (nothing calls it; it would move the entry without stopping the load), the text
  of the address line (a redirect in another tab overwrites it, `kguibrowse.cpp:1758`), a movie without frames
  (its task would be called for ever in one frame), and the sizes of the integers, none of which comes near its width
  in a model of this size.

## 8. Plan

Done, in this order: VHeap (core: a refinement with a proof), KMutex, Download, CommStack, LoadList, BigFile,
StreamCache, DirtyRects, UpdateTasks, BrowseTabs.

Next:

1. `Audio`: two mutexes taken in both orders, buffers and handles given back by two threads; properties:
   a call that waits for a lock gets it, no buffer is used by two handles, a handle that finished can
   be used again. What is known from reading: `Play` holds the handle's lock and takes the manager's in
   `GetBuffer`, `UpdateThread` takes them the other way round; `Update` tests `m_playing` before it has the lock, so
   a `Stop` in between is undone; and as nothing calls `SetRelease(true)`, a handle that has finished is never used again. So most of what one would state fails, and no comment states it: the first thing
   to model is what holds on Windows, where `Update` uses `TryLock`.
2. `ItemCache`: the total against the sum of the entries (`Purge` does not subtract, `Delete` does not
   reset it), and the operations that meet the null entry `Purge` leaves (`UpdateExpiry`, `CheckCacheSize`).
3. `Cookies`: the order of the list, and pointers kept over an unlock by the viewer.
4. The containers as pure functions (the order `Heap` and the sort keep, `Hash` against a function).

The proofs have reached what they can of the ten modules above: what remains for TLC is named at the end of section 5, with the
reasons. A theorem about BigFile that would say more needs `Load` to bound its walk over the blocks, which the code does not.
