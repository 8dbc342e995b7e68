# Verification of vdr-osr-browser

TLA+ modules, model-checking configurations and machine-checked proofs about
the OSR browser of VDR: an off-screen CEF browser that renders HbbTV pages into
shared memory, tells VDR about each frame, and plays the page's videos with
ffmpeg. Paths and line numbers are those of the repository.

## 1. The system

One process with several threads, and its environment:

| Actor | Code | What it does |
|---|---|---|
| CEF UI thread | `OSRHandler::OnPaint`, `JavascriptHandler::OnQuery`, `OnLoadEnd` | paints, carries out the page's queries, plays and stops videos |
| page (renderer process) | `js/hbbtv_polyfill.js` (built from `thirdparty/HybridTvViewer/src/js/hbbtv-polyfill/`), `js/video_quirks.js`, `js/focus.js`, ... | stands in for HbbTV's video objects, keys and applications, sends `cefQuery` commands |
| CEF IO thread | `GetResourceHandler`, `ProcessRequest`, `ReadResponse`, `ClientSchemeHandler` | loads pages and local files |
| control thread | `BrowserControl::Start` | receives VDR's commands, one at a time |
| heartbeat thread | `BrowserClient::heartbeat` | PING, SEND_INIT, then PING every ten seconds |
| load threads | `DashHandler::LoadDash` | append DASH segments to a file; detached |
| ffmpeg processes | `TranscodeFFmpeg::fork_ffmpeg` | transcode to UDP, TCP or a UNIX socket |
| VDR | external | reads the frames, answers OSDU, sends commands |

They interact through two nanomsg sockets (`TO_VDR_CHANNEL`, PUSH, and
`FROM_VDR_CHANNEL`, PULL), one shared-memory segment, `shm_mutex`, plain
(unsynchronised) members of `BrowserClient`, `TranscodeFFmpeg` and
`DashHandler`, signals and `waitpid`, and files in the working directory.

### Components

| Component | State | Operations | What makes it correct |
|---|---|---|---|
| OSD handshake | shm_mutex, segment, messages in flight | OnPaint, osdProcessed, SENDOSD, PAUSE, RESUME, STOP, PING, heartbeat | the segment is not written while VDR reads it; the mutex comes back |
| Video control | transcoder, ffmpeg_pid, processes, socket and transparent-video files | VIDEO_URL, CHANGE_VIDEO_URL, PAUSE, RESUME, SEEK, STOP, END, ERROR, DESTROY_APP, PLAYER_DETACHED | at most one ffmpeg, always known; VDR is told the truth; no leftovers; no command hangs |
| Transcoding settings | configuration, ffprobe results, the command | read_configuration, set_input, fork_ffmpeg | the command is what was configured and probed |
| DASH loader | thread_ended, load_dash_running, segmentIdx, curl, the file | DASH:, CLEAR_DASH, SetFilename, InitLoadThread, StartLoadThread, StopLoadThread | the file holds the segments once and in order; no use after delete; stop stops |
| DASH manifest | requests under way, the stream tables of both handlers | GetAndParseMpd, DASH:, CLEAR_DASH, GetBestStream, InitLoadThread | the tables describe one manifest, the best stream is played, preloaded segments exist |
| Page loading | one response for all requests, content-type cache, cookies | GetResourceHandler, ProcessRequest, GetResponseHeaders, ReadResponse | each request gets its own page |
| Local resources | data, two offsets | Open, GetResponseHeaders, Skip, Read | the bytes of the file, in order |
| Application registry | appUrls, the page's map, currentChannel, injectJavascript | CHANNEL, APPURL, URL, OnLoadEnd, createApplication, destroyApplication | the page can start the current channel's applications, and has its font |
| Keys and focus | the page's key codes, the active element | KEY, cefKeyPress, a keyboard's keys, findNextFocusableElement | a key is seen once; the focus gets everywhere |
| Video on the page | elements, players, sizes, what the quirks wrote | VideoHandler, both mappers, release, cefVideoSize, quirks | VDR knows the size of the largest video; a film hides what covers it; players are not mixed up |
| Render geometry | renderWidth/Height, mode | SIZE, MODE, ZOOM, GetViewRect | a paint fits the segment |
| Video object of a page | data, src, the video element, playState, timers, media events | constructor, play, stop, seek, mutation observers, listeners | ffmpeg plays what the page asked for last, and the page knows |
| Page fixes, the rest of the polyfill | text, DOM | tryToFixPage, injected scripts, constant objects | HTML is fixed as a browser would like it; not stated anywhere |

Logging, the native-JS stub, packaging and the vendored libraries have no
behaviour of their own worth a model.

The hard parts are the lock that is held across a message round trip, commands
that run on two threads without a lock, detached threads that end late,
restarts of either side, and a page whose own scripts, observers, timers and
requests interleave with what the browser sends it. `PROJECT.json` lists these hazards line by line with
the properties aimed at them.

## 2. The modules

| Module | Models | Composes |
|---|---|---|
| `OsdHandshake` | the OSD handshake | - |
| `FrameSlot` | its abstract specification: a one-slot buffer | - |
| `OsdRefinement` | the refinement mapping from the first to the second | `OsdHandshake`, `FrameSlot` |
| `OsdProofs` | theorems about both | `OsdRefinement` |
| `VideoControl` | video commands, stop on two threads, ffmpeg processes | - |
| `TranscodeSettings` | configuration, ffprobe, the ffmpeg command | - |
| `TranscodeProofs` | theorems about both | `VideoControl`, `TranscodeSettings` |
| `DashHandler` | one DASH handler, its threads and its file | - |
| `DashProofs` | theorems about it | `DashHandler` |
| `PageLoad` | how navigations are answered: block list, content type, page, redirects | - |
| `MCPageLoad` | five URLs for it, with a chain of redirects | `PageLoad` |
| `PageLoadProofs` | theorems about it | `PageLoad` |
| `VideoObject` | the polyfill's video object, its commands, and the player they reach | - |
| `VideoObjectProofs` | theorems about it | `VideoObject` |
| `DashManifest` | a manifest's way from the page to the stream tables and the choice of a stream | - |
| `MCDashManifest` | nine manifests for it | `DashManifest` |
| `ManifestProofs` | theorems about it | `DashManifest` |
| `PageVideo` | the video objects of a page, their size, the quirks | - |
| `MCPageVideo` | four elements and three pages for it | `PageVideo` |
| `PageVideoProofs` | theorems about it | `PageVideo` |
| `Keys` | keyevent-init.js and focus.js as operators | - |
| `PageApps` | VDR's commands to a page: applications, keys, addresses; how pages load | `Keys` |
| `MCPageApps` | two applications, two pages, keys and addresses for it | `PageApps` |
| `PageAppsProofs` | theorems about it and its keys | `PageApps` |

Definitions that their comment calls "Mutant of" another are deliberate
bugs: each property is checked to fail with one of them. No specification uses
them.

### OsdHandshake

`OnPaint` is split where another thread or process can see the difference:
lock, memcpy, recolour, send. `osdProcessed` is one unlock, on the control
thread. `toVdr` and `fromVdr` are FIFO sequences; `Send` blocks while `toVdr`
is full, as `nn_send` without `NN_DONTWAIT` does, on whichever thread called
it. OSDU messages carry the frame they were sent for as a record field that no
action of the browser looks at: the program's message has no such field, it is
there for the properties.

VDR (external, modelled from the way the browser uses it) takes a message,
reads the segment on OSDU and answers. Its restart loses a prefix of what is
on the way to it and a suffix of what it had sent; a restart of the browser
the reverse. After its restart the user may open the OSD again, which sends
SENDOSD (`VdrReopen`).

Three history variables, read by no action's guard: `stolen` (the mutex was
released while a frame was in flight, by SENDOSD or a browser restart, and a
message of that time is still around), `lost` (a restart swallowed the message
that would have unlocked) and `bounds`, which counts bounded events.

Unlocking a mutex that is not locked, or that another thread locked, is
undefined for `std::mutex`. The model takes what the pthread mutex below it
does: it becomes, or stays, free.

### VideoControl

Both threads can run `stop_video`, so `pc` has two entries and each access to
`transcoder` or `ffmpeg_pid` is a step (`TestPid`, `KillFfmpeg`, `WaitFfmpeg`,
`ClearPid`, ...). `this` is the object `stop_video` runs on, which the UI thread
may delete meanwhile. `kill` with a pid cleared in between is `kill(0)`, after
which the browser is gone (`Up`). `proc` says of each process whether it runs,
is a zombie or was waited for.

`overlap` becomes true when a command of one thread begins while the other is
in video code, and stays so. The safety properties are stated for behaviours
without it; with it TLC finds all of them violated, as it must: the code has no
lock there. `DashHandler` has the files of the DASH loaders.

### DashHandler

Each statement that touches `load_dash_running`, `thread_ended`, `segmentIdx`
or `curl` is a step. `load_dash_running` is a plain `bool`; every loop that
reads it calls library functions in between, so the compiler has to reload it,
and the model reads it afresh each time. `file` is "ok" as long as it holds the
init segment and then each segment once and in order. A failed download leaves
a gap that the code does not notice either, so it is not told apart.
`disturbed` records that the last start met a load thread that had not ended,
or the control thread's stop; the properties of the file and of the DashCurl
hold without it and fail with it.

### TranscodeSettings

`read_configuration` line by line, with the numbers reduced to the width of
`uint32_t`; ffprobe's output line by line, with error messages at any place,
because stderr goes through the same pipe; `fork_ffmpeg` as the choice of
codecs, start position and output. Its three callers convert the position each in
their way: `ForkAtInput` starts at 0, `ForkAtSeek` at the milliseconds it is given,
and `ForkAtResume` drops the fraction of the seconds the page sends (`strtol`,
`transcodeffmpeg.cpp:480`). Encoder strings, user agent and cookies are
passed through and left out. Both modules are about `transcodeffmpeg.cpp` and are proved
about together; this one's `SettingsInit`, `SettingsNext`, `SettingsSpec` and
`SettingsTypeOK` have names of their own for that reason.

### PageLoad

Each callback of CEF's IO thread is one action; those of several requests
interleave. The two that wait for a transfer (`GetResourceHandler` and
`ProcessRequest`) are split at it, and the thread serves nobody in between
(`IoFree`). What they share is modelled as it is: `curl` is what the last
transfer left in `HbbtvCurl`, `client` and `offset` are the one response of
`BrowserClient`. A transfer that fails leaves everything as it was (`LoadUrl`
assigns only after `CURLE_OK`), so the content of the transfer before is then
judged, or served. `ReadContentType` judges by content, which the model has as
the URL the content is of (`HbbtvPages`); the judgement of pro7.gofresh.tv by a
header, which is the first one of all responses, is left open (`TypedUrls`).
Redirects are followed by curl in `ReadContentType` and by CEF, which asks
again, otherwise.

`spoiled` is a history variable: the requests whose time between
`ProcessRequest` and the last `ReadResponse` another request's `ProcessRequest`
fell into, or whose own transfer failed. `OwnPage` is about the others; without
the exception it fails, as it must with one response for all. What a spoiled
request reads is not recorded.

Cookies, response headers and the MIME type, tryToFixPage and the injected
scripts, and timing are abstracted. `OnLoadEnd` is in `PageApps`.

### VideoObject

The polyfill hides an HbbTV object's video: it puts in a video element that
plays a transparent movie of the same length, and sends commands to `OnQuery`,
which has ffmpeg play the real one. The model has both sides and the three
queues between them: `commands` (cefQuery is FIFO), `timers` (setTimeout 0 is
FIFO) and `events` (one FIFO per media element, emptied when it loads anew).

JavaScript tasks are atomic. The mutation observers run at the end of the task
that set `data`, so `data # Fail` marks that a task which has set it is still
running: only calls of the page, another change, or `DataChanged`, which is both
observers in turn, are possible then. The element (HTMLMediaElement, external)
is modelled by what its specification says of pause, play, autoplay and load;
a movie that is asked for before the browser made its file, or whose file a stop
or seek has unlinked, may fail.

The commands are carried out in one step each; `VideoControl` has their steps
and the second thread. `player.state` says what ffmpeg does: besides "on" and "off",
an input may fail ("failed") or fork() may ("unforked"), ffmpeg ends by itself
("dead", and RESUME_VIDEO is then ignored, since `ffmpeg_pid` still names it), and
PLAYER_DETACHED stops it ("detached"). The page hears of none of these.

`wish` is what the page asked for, read off its calls alone: a play, however
fast, wants the video on; stop and pause want it off; a seek wants no change; and
the end of the movie, which the element tells, is off. `unheard` names the calls after
which the commands say something else:

| `unheard` | The call | What the code does |
|---|---|---|
| `seek` | seek in a video that is off | SEEK_VIDEO starts ffmpeg |
| `speed` | play with another speed than 1 in a video that is off | SPEED_VIDEO is empty, ffmpeg stays off |
| `overtaken` | stop or pause after a change of `data`, in the same task | CHANGE_VIDEO_URL comes after it and starts ffmpeg |

`wound` says that winding back has paused the element at the start of the movie,
while ffmpeg plays on. `hasty` is about the element only: a call in the same task as
a change of `data`, on a video that is not there yet or over, a stop, winding back, new data
or the end of the movie while a play's timer is due, and new data while the movie is wound
back. `InStep` excepts these; `LastWordCounts` holds in them as well. `Navigate`:
nothing stops ffmpeg when a page is left.

`rewinds` are the intervals that wind back (play with a negative speed). The
polyfill knows one of them at most (`rewindInterval`) and clears it only at the
start of the movie, so that others run on, under the next video, too, and pause it
there.

A DASH video that is started before its manifest was answered ends the browser
(`crashed`); `DashManifest` says when.

### DashManifest

`GetAndParseMpd` asks for the manifest and goes on; the answer comes at any
time, in any order, or never. `Described` is its loop over adaptation sets and
representations, with `xmlToJson`'s peculiarity that a single child is no array,
the running index over all sets, the TypeError that ends it at a set without a
`SegmentTemplate` (`SetsDescribed`), and missing attributes as `NaN`, which whatever is
computed from them becomes (`Numbers`); times are
whole seconds and every division is the floor the code takes. The `DASH:`
commands fill one table per handler. `GetStream` makes the entry it does not
find, `GetBestStream` looks for the highest bandwidth, `InitLoadThread` divides
by the duration and looks ten segments back, and `GetNextUrl` puts the number in the
place of `$Number$`: an address without that literal (`Numbered`) is an exception. `Wide` stands for 2^64, over which
`unsigned long` wraps. An exception nobody catches, and a division by 0, end the
browser (`crashed`). The history variable `overtaken` says that an answer came
after the next manifest had been asked for.

### PageVideo

A page is a set of elements in document order; what the page's scripts may do to
them (add, add inside another, remove, resize, rewrite `data`, bind, release, show)
is one action each, with the observers that run at the end of the same task.
`DOMContentLoaded`, `beforeend.js` and the timers of the quirks come between.
All players have one id, so `FirstPlayer`, the first in document order, is what
`release`, `bindToCurrentChannel`, `cefVideoSize` and `process_video_quirk` work
on, whoever it belongs to. `doc.seen` is history: nothing has moved since a size
was sent (only films watch their style, nobody watches a removal, so the size is
stale otherwise, which the properties leave out); `doc.list` is the list of the quirks that
was written last. A film that filled the screen and is then removed or hidden, without
other video on the page, leaves what its start list hid: `cefVideoSize` sends the full size
and asks for no list. `QuirkFollowsVideo` names this page (`Deserted`). `Better` is one of
`cefVideoSize`'s four tests, which look at one candidate each. `Quirks` is the table of
`video_quirks.js`, site by site; `Written` is a style after a list of it.

### Keys and PageApps

`Keys` has the key tables and what a listener does with an event, as operators.
In `focus.js` the elements with a tab index above 0 are sorted and go before the others;
`Focusable` says which list that is by the place of each element in the order `Before`.
A key of a keyboard is taken from the page when it goes down, and turned into events
of the polyfill; its keyup nobody takes, so `PcKeyUp` brings it to the page that is there by
then. `PageApps` has five actors: the control thread, which takes VDR's commands; the IO
thread, which sets the font's flag when the page is asked for (`GetResourceRequestHandler`)
and writes the channel into it two transfers later (`ProcessRequest`); the
UI thread, which loads pages and tells each that has loaded what the registry
holds (`OnLoadEnd`, one step per entry of its loop, since the control thread may
clear the map under it: `Disturbs`); the renderer, which runs the scripts it was
sent in their order, those for the old page before the new one is there; and the
person at the page. `missed`, `twice` and `stolen` are history and name what the
code lets through: a redirect (to any request) keeps `OnLoadEnd` from telling the
page, an APPURL is half done when a page ends loading, an id gets two URLs, a
frame of the old page takes the font of the new one, at any time between the first of these
and the new page. A click of `cefKeyPress` may lead to another page.

## 3. What is checked

| Run | Shows | Size |
|---|---|---|
| `osd_safety` | `NoTornFrame`, `ReadsAnnouncedFrame`, `NoLostUnlock`, `OneCredit` with SENDOSD, STOP and a restart of each side | 8.7 million states |
| `osd_liveness` | `PaintReturns`, `ReopenUnfreezes`, `SendOsdRepaints`, `ControlReturns` with a restart of VDR | 44 thousand |
| `osd_slot` | `OneSlotBuffer`: the handshake implements `FrameSlot!Spec` | 46 thousand |
| `osd_freeze` | finding: `UiNeverFreezes` fails after a restart of VDR | violation |
| `video` | `NoOrphan`, `KillsOwnChild`, `ToldTheTruth`, `NothingLeft`, `CommandEnds` | 191 thousand |
| `dash` | `FileInOrder`, `NoStaleCurl`, `LoaderStops`, `ClearReturns` | 341 thousand |
| `settings` | `WholePackets`, `CopiesWhatVdrPlays`, `ForcedTranscoding`, `StartsWhereAsked` | 247 thousand |
| `page_load` | `OwnPage`, `CacheSound`, `BlockedNotServed`, `RequestsEnd` with three navigations, a failed transfer, MODE at any time | 267 thousand |
| `video_object` | `LastWordCounts`, `InStep` with two videos, three calls and winding back, while ffmpeg ends, forks fail and the player is detached | 4.8 million |
| `manifest` | `OneManifest`, `PlaysBest`, `PreloadExists`, `RegularFilesPlay` with every two of nine manifests and two videos | 33 thousand |
| `page_video` | `ToldLargest`, `QuirkFollowsVideo`, `SpoiltNotPlayed`, `FilmKeepsPlayer` on three pages with four elements | 3.6 million |
| `page_apps` | `AppsStart`, `FontSet`, `KeySeenOnce`, `FocusReaches` with three commands of VDR | 16.4 million |

Each module but `FrameSlot`, `Keys`, `DashManifest` and `PageVideo` has a type invariant
`TypeOK`. It holds in the instances above and is the base of the inductive invariants; the
runs spend their properties on what is less obvious.

### What the code does not do

The one finding in `PROJECT.json` is the UI thread that a restart of VDR freezes
(`TODO:23-24` describes it). While modelling the code these came up as well;
the models contain them, and the properties name them as their exceptions:

* `transcodeffmpeg.cpp:475` ignores a "resume without pause" only while ffmpeg runs:
  RESUME_VIDEO after a stop or a failure starts one (`VideoControl!ResumeVideo`).
* `ReadContentType` lets curl follow redirects, so a blocked URL is fetched when a
  page that is not blocked leads to it; it is never served
  (`PageLoad!ReadContentType`, `BlockedNotServed`).
* A DASH video that is played before its manifest was answered divides by 0
  (`dashhandler.cpp:107`); so do segments of less than a second. Subtitles and
  manifests without a clock end the browser by an exception of `stoi` or `stoul`,
  and addresses without the literal `$Number$` by one of `replace`
  (`dashhandler.cpp:89`, `RegularFilesPlay`).
* An answer to an earlier manifest fills the tables that were cleared for the next
  one (`OneManifest` holds without it).
* `release` of a live TV object removes the first player of the page, also a film's,
  whose object is then played with the address "client://movie/fail"
  (`FilmKeepsPlayer`, `SpoiltNotPlayed`).
* `createApplication` does not find the id of an address with a full stop and a
  fragment behind it, or with more than two digits (`AppsStart`).
* A page's interval for winding back outlives play, stop and the next video
  (`InStep`).
* Nothing tells the page that ffmpeg ended, was not forked or lost its player, and
  RESUME_VIDEO after ffmpeg ended by itself is ignored (`LastWordCounts`, `InStep`).
* A seek starts the ffmpeg of a paused video; SPEED_VIDEO starts none
  (`LastWordCounts`).
* RESUME_VIDEO goes back by the fraction of a second (`StartsWhereAsked`).
* A film that is removed or hidden leaves the page hidden that its start hid
  (`QuirkFollowsVideo`).
* A keyboard's keyup reaches the page besides the one the polyfill makes of it
  (`KeySeenOnce`).

### Bounds

* `SendCap` 1 or 2: at 1 every sender can block every other; at 2 an OSDU can
  wait behind another message and be lost without it.
* `CommandCap` 1 bounds only what VDR sends on its own account; its answers come
  on top, so a command and an answer do queue.
* `FrameCount` 2 or 3 in the runs about content: frames are numbered cyclically,
  and at most one is in flight, so two tell "this frame" from "another one".
  The liveness runs need no identity (1).
* one restart of each side and one SENDOSD: the second of two would find a state
  that the first of one can find, since nothing counts them.
* `MaxPlays` 2, `MaxForks` 3, `MaxDetach` 1: an object and its successor, an
  ffmpeg of each and one more from resume or seek, and one command on the
  control thread that meets each of their steps.
* `MaxLoaders` 2 and `MaxDetach` 1: a thread that ends late and its successor.
  `Indices` 3 tells the expected segment from the one before and the one after.
* `Numbers` has both sides of every boundary in `PacketSize` and of `Word`, which
  stands for 2^32; `Starts` has both sides of every carry.

* `PageLoad`: three navigations on two requests are two that overlap and a clean
  one after or between them; a page of `Size` 2 is read in pieces or at once;
  one failure, since the state it leaves is that of the transfer before,
  whatever came earlier; five URLs: a plain page, an HbbTV page, a redirect to an
  HbbTV page, one to a blocked URL, and the blocked URL.
* `VideoObject`: `MaxVideos` 2 is a video and its successor; `MaxCalls` 3 is an
  object and two calls, or two pages and a call, in any position between the
  changes of data, timers, events and commands. Four calls were checked with
  plain videos only (13.5 million states), with the same result.

* `DashManifest`: `MaxAsked` 2 is a manifest and the next one, and a video of each; the
  nine files differ in what the code treats differently: one set or several, old
  or young, a clock or none, long or short segments, subtitles, a set without a
  template, without a start number, or with a width for its number. `Wide` is larger
  than any segment number, and small enough that a number below 0 is still told
  apart.
* `PageVideo`: `MaxOps` 3 is what it takes to add or rewrite an object, release
  another and move a third; the four elements have every way to be a candidate and
  an order in which the first player is not the live one; the sizes include two
  that neither covers the other.
* `PageApps`: `MaxCommands` 3 is two commands that contradict each other and a page;
  `MaxOps` 1 an operation of the page between any of them. The ids are written
  with one, two and three digits, capital and small; the links include one that is not
  shown and tab indices out of order.

`video`, `dash`, `settings`, `page_load`, `video_object`, `manifest`, `page_video` and
`page_apps` do not check deadlock: they end when the browser is gone or their
bounds are used up, `settings` when the last line is read. The OSD runs check it.

### Fairness

* Threads are scheduled: weak fairness of their steps.
* `nn_send` queues blocked senders, so a sender gets room when room keeps
  appearing: strong fairness of the sends (`OnPaintSend`, `OnQuerySend`, `Pong`,
  the heartbeat's).
* CEF paints a visible view that has changed again and again: strong fairness of
  `OnPaint`, because the UI thread may have queries to serve in between.
* The tasks of CEF's IO thread are a queue, so a callback that is due is made when
  the thread gets free again and again: strong fairness of `Serve(r)` for every
  request, since it is not enabled during the transfers of others. That a transfer ends
  is not assumed by the fairness; a request may be cancelled at any time.
* Nothing is assumed of the page, of the user, of restarts or of ffmpeg. Where a
  property needs it, the assumption is its premise: `ReopenUnfreezes` assumes
  that the user opens the OSD again, `LoaderStops` and `ClearReturns` that
  downloads end, and `RequestsEnd` that the transfers the IO thread waits for end
  (`[]<>IoFree`), since no `LoadUrl` sets a timeout.

## 4. What is proved

`OsdProofs` proves with TLAPS, for all capacities, frame counts, command sets
and bounds that satisfy the named assumptions of `OsdHandshake`:

| Theorem | Statement |
|---|---|
| `TypeCorrect` | `Spec => []TypeOK` |
| `TornFrameFree` | `Spec => []NoTornFrame` |
| `AnnouncedFrameRead` | `Spec => []ReadsAnnouncedFrame` |
| `UnlockNeverLost` | `Spec => []NoLostUnlock` |
| `OneCreditAtATime` | `Spec => []OneCredit` |
| `OneSlot` | `Undisturbed => (Spec => Slot!SafeSpec)` |

None of the safety invariants is inductive. The inductive invariant `CreditInv`
says where the credit is: unless it was stolen, at most one of painter, OSDU on
the way, VDR and answer on the way has it, and the mutex is held then
(`Exclusive`); there is one OSDU and one answer at most (`Single`,
`SingleAnswer`); and the frame in the message, or in VDR's hand, is the frame in
the segment, recoloured (`FrameTravels`). It is needed because the message that
unlocks names no frame: that VDR's answer unlocks the right frame follows only
from there being no other. Lemmas about sequences (`AppendOsdu`, `TailAnswer`,
`PieceOsdu`, ...) say how a send, a receive and a loss move the credit; every
action is either quiet about the credit (`QuietStep`) or moves it (`CreditStep`).
`OneSlot` maps each step with the same invariant to a step of `FrameSlot` or to a
stutter.

`PageLoadProofs` proves, for every set of URLs, web of redirects, block list, page
length and number of requests:

| Theorem | Statement |
|---|---|
| `TypeCorrect` | `Spec => []TypeOK` |
| `EachItsOwnPage` | `Spec => []OwnPage` |
| `BlockListHolds` | `Spec => []BlockedNotServed` |
| `CacheNeverLies` | `Spec => []CacheSound` |

`OwnPage` is not inductive: it says nothing of the response before it is read.
The invariant `PageInv` adds that a request which is not spoiled is the only one
between `ProcessRequest` and its end, that the one response is then the one of
its URL, and that it has got exactly the first `offset` pieces (`OwnResponse`);
`Opened` and `Shape` say which values the shared variables can have.
`BlockListHolds` needs only that a URL is looked at again after every redirect
(`Allowed`). `Sharing` grows only by the request that marks all others, which is
what makes the argument work for any number of requests. `TypeCorrect` needs that the
recursive function `Final` is defined and ends at a URL (`FinalType`): for finitely many
URLs (`FiniteAssumption`) a function on those of a rank below `n` is built by induction
over `n` (`Ending`), because no chain of redirects is endless.

`TranscodeProofs` proves of `VideoControl`, for any number of videos, processes and commands of the
control thread:

| Theorem | Statement |
|---|---|
| `TypeCorrect` | `Spec => []TypeOK` |
| `OneFfmpeg` | `Spec => []NoOrphan` |
| `OwnChildKilled` | `Spec => []KillsOwnChild` |
| `VdrKnows` | `Spec => []ToldTheTruth` |
| `StopCleansUp` | `Spec => []NothingLeft` |

Each is about the moments at which no command is at work, so the invariant has to
say what is true in the middle of one. `Flow` says which command leads to which
statement. Without `overlap`, `Alone` has one thread in video code, `ObjectKept`
the object it runs on alive, `ChildKept` every process that was not waited for
named by `ffmpeg_pid` or by a child not stored yet, `Told` and `PlayTold` every
process announced to VDR or about to be killed or announced, and `Owned` and `Left`
everything else on the list of a stop that is still to come.

`DashProofs` proves, for any number of load threads and segments:

| Theorem | Statement |
|---|---|
| `TypeCorrect` | `Spec => []TypeOK` |
| `NoLoaderOutlivesCurl` | `Spec => []NoStaleCurl` |
| `SegmentsInOrder` | `Spec => []FileInOrder` |

`UiFlow` needs no premise: only the UI thread makes and deletes DashCurls. Without
`disturbed`, one load thread is all there is, `thread_ended` is about it
(`OneLoader`), it is in the present DashCurl (`CurlKept`), and the segment that
keeps the file whole is the next one it loads (`FileKept`).

`TranscodeProofs` proves of `TranscodeSettings`, for files and outputs of any length, all numbers and all
positions:

| Theorem | Statement |
|---|---|
| `SettingsTypeCorrect` | `SettingsSpec => []SettingsTypeOK` |
| `PacketsAreWhole` | `SettingsSpec => []WholePackets` |
| `CopiesPlayable` | `SettingsSpec => []CopiesWhatVdrPlays` |
| `ForcedIsTranscoded` | `SettingsSpec => []ForcedTranscoding` |
| `StartIsExact` | `SettingsSpec => []StartsWhereAsked` |

`StartIsExact` says "exactly" of a new input and of a seek; of a resume, that less than a
second is played again and none is left out. The arithmetic is in lemmas about `PacketSize`
and `TimeOf`; the invariant ties
ffprobe's line count to what it reported (`Counted`), and the command to the
fields it is made from (`Command`).

`ManifestProofs` proves, for all files the named assumptions allow and any requests:
lists are lists, a representation has a bandwidth and belongs to one set, an attribute
that is there is a number of its kind, and a segment's length and the number of the
newest fit an `unsigned long` (`ManifestAssumption`, `RepresentationAssumption`,
`NumbersAssumption`):

| Theorem | Statement |
|---|---|
| `TablesAreOfOneFile` | `Spec => []OneManifest` |
| `BestIsPlayed` | `Spec => []PlaysBest` |
| `OnlyIrregularCrash` | `Spec => RegularFilesPlay` |
| `PreloadedIsThere` | `Spec => []PreloadExists` |

The invariant is about the queue: an answer is in it in one piece (`InOnePiece`);
until one is overtaken, everything that describes another file before it has a
CLEAR_DASH behind it (`Apart`), and so would the answer to the last request
(`Fresh`); and what is left of the file of `baseUrl` is at the head of the queue,
the rest of it in the tables (`Rest`). What `FlattenSeq` and `GetBestStream` compute
is shown by induction, in the form that a set of naturals which is not empty has a
least element (`LeastNatural`, from the well-foundedness of finite sets): the
least counterexample to a statement is none.

`PreloadedIsThere` adds that what is played came from a description (`PlayedInv`), and
from there on is arithmetic: of an age of `a` and segments of `d`, `c = a \div d` are
complete (`Complete`); the newest is number `startNumber + c - 1` and loading starts one
before it, so that nothing wraps (`NumbersOld`); what `InitLoadThread` makes of that lies
two to twelve segments behind the present (`PreloadIs`), and all of these are on the
server when thirteen fit the age and the buffer (`StillThere`).

`VideoObjectProofs` proves, for every set of videos, DASH or not, and any number of
objects and calls:

| Theorem | Statement |
|---|---|
| `TypeCorrect` | `Spec => []TypeOK` |
| `LastWord` | `Spec => []LastWordCounts` |
| `StaysInStep` | `Spec => []InStep` |

Both properties are about moments when nothing is under way, so the invariant says
where what is under way leads. `Obeyed`: the last command in the queue that names a
video names the one the page asked for (`EndsWith`), and the last one that starts or
stops ffmpeg says what was told (`EndsIn`, `Told`), which is what the page asked for but
for `unheard`; `Reasons` says which of its values go with which wish. No step of
ffmpeg's own disturbs this, since what it leads to is neither "on" nor "off".
`Steady`, without `hasty`: the last timer takes the element where the page wanted it
(`FatePlays`), or its end is on its way to the listener, or it was wound back to its
start (`Follows`), and the last event says what the element does
(`Says`). That a video which fails has no element playing follows from the numbers of
the transparent movies, which grow along the queue (`Numbers`).

`PageVideoProofs` proves, for every set of elements in any document order, any sizes
and pages, and any number of steps of their scripts:

| Theorem | Statement |
|---|---|
| `ToldRight` | `Spec => []ToldLargest` |
| `StyleFits` | `Spec => []QuirkFollowsVideo` |
| `NoSpoiltAddress` | `Spec => []SpoiltNotPlayed` |
| `FilmStays` | `Spec => FilmKeepsPlayer` |

The invariant is about one document, `Good(site, doc, told, lost)`, so that it can be
carried through the functions that make one document from another. `Measured`: once a
size was sent and nothing has moved, the last size on its way, or the one VDR knows, is
the one `cefVideoSize` would send now. `Styled`: likewise the last list that is due, or
the one written last, is the one `process_video_quirk` would ask for; that a list undoes
the other holds of the table itself (`QuirksTable`, site by site). `Listed` says the same of
the list that was written last, which is all there is to say of a page whose film has gone. `Spoilt`: an address is
spoilt only while its film has a player, or a film has lost one. That the target is a
largest candidate follows from what each test keeps (`BetterLargest`); that `initialize`
keeps the invariant, by induction over the elements in document order
(`InitializeGood`). `FilmStays` adds that what `getElementById` finds stands before all
others (`FirstIs`).

`PageAppsProofs` proves, for any applications with ids of two digits, any addresses,
pages, elements and key codes, and any number of commands and operations:

| Theorem | Statement |
|---|---|
| `TypeCorrect` | `Spec => []TypeOK` |
| `ApplicationsStart` | `Spec => []AppsStart` |
| `FontReaches` | `Spec => []FontSet` |
| `KeysOnce` | `Spec => []KeySeenOnce` |
| `FocusMoves` | `Spec => []FocusReaches` |

`AppsStart` and `FontSet` are about moments of rest, so their invariants follow what is
under way. `FontInv`: as long as no font was stolen, `injectJavascript` is up while a page
is coming or has not loaded, and one that has loaded has the font or its script ahead of
it. The flag may be taken in each of the steps between the request and the page, so that `FontInv`
speaks of a page from the request on (`Coming`). `HeldInv` says of the key that is down
what the page there, if it is the same, has seen of it. `Promised`: what the registry holds
and the page's map does not is in `scripts`, with the last script of an id naming the
registry's URL, or `OnLoadEnd`'s loop has still to send it. `SoundInv`: conversely, a
page of this channel, or one among the scripts, knows and is told of ids of the registry,
or of the APPURL that is half done, only. That the id `createApplication` cuts out of an address is the
one with the same number is shown by induction over its digits (`NumberOf`, `LastTwo`,
`SameNumber`). `FocusReaches` needs of the state only that the focus is on an element of
the list (`FocusInv`); the rest is about `Focusable`: `Before` is a strict total order
(`BeforeOrder`), so that counting what is before an element numbers the list from 1 to
its length without a gap (`OrderOf`), a step forward is the next number or the first
(`NextIs`), a step back undoes it (`DownUp`), and as many steps as there are elements
pass all of them (`AllReached`).

Only model-checked:

* all liveness, `OneSlotBuffer`'s fairness part included: fairness and ENABLED are
  out of the prover's reach.

## 5. Plan

Done: the OSD handshake (core) with its abstract specification and proofs, video
control, the transcoding settings, the DASH loader and its manifests, page
loading, the video object, the video on the page, and VDR's commands to a page, all
with proofs: every safety property of a run that passes is a theorem.

What else would say more:

* `Player`, an abstract player that `VideoControl` implements when its threads do
  not meet, and that `VideoObject` has as its other side, so that the two are one
  chain; `VideoControl` with `DashHandler` for seeks in a DASH video.

## 6. Not modelled

* `tryToFixPage`, `replaceAll` and the injection of scripts: substitutions on
  unbounded text whose correctness is a matter of HTML.
* The polyfill's objects that answer with constants: capabilities, configuration,
  DRM, keyset, the channel list; the mixin that installs them; the quirk that
  rewrites a `sid` in an XMLHttpRequest's URL to hexadecimal. They keep no state
  that another part reads. The listeners of stream events are kept in an array
  nothing dispatches to.
* Positions, durations and playPosition of the video object: numbers of the media
  element that the browser only passes on.
* `ClientSchemeHandler`: one object per request that reads a file and hands it out;
  `Skip` sets the offset where it could be expected to add to it, and no document
  says what may be skipped.
* Cookies: `VisitUrlCookies` is asynchronous (`browserclient.cpp:664`), so a visitor's
  strings are set before it saw a cookie; no document says which cookies a
  request carries.
* SIZE, ZOOM and the geometry of a paint: no document says which sizes may be asked
  for; SIZE without two numbers (`browsercontrol.cpp:115`) uses what is on the stack.
* The failure paths of shmget and shmat (`osrhandler.cpp:50` tests for `nullptr`
  where `(void*)-1` is returned), and what the segment holds before the first paint.
* Command line, paths, CEF settings, logging, the native-JS stub, packaging, the
  vendored libraries (ajaxhook, xhook, nng, spdlog, backward).
