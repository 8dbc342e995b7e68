---------------------------- MODULE DashHandler ----------------------------
(***************************************************************************)
(* One DashHandler (dashhandler.cpp; there is one for video and one for    *)
(* audio) and the file ffmpeg reads: the CEF UI thread describes, plays,   *)
(* stops and clears a stream, the control thread stops it on               *)
(* PLAYER_DETACHED, and every StartLoadThread detaches a thread that       *)
(* appends segments to the file.                                           *)
(*                                                                         *)
(* Nothing waits for a load thread but ClearAll, and ClearAll waits for    *)
(* thread_ended, one flag for all of them.  load_dash_running, segmentIdx  *)
(* and curl are shared without a lock, so each access is a step.           *)
(***************************************************************************)
EXTENDS Naturals, FiniteSets

CONSTANTS
  MaxLoaders,   \* bound: load threads, and DashCurl objects, created
  Indices,      \* bound: segment numbers are counted modulo this
  MaxPreload,   \* bound: segments InitLoadThread loads before the thread starts
  MaxDetach     \* bound: PLAYER_DETACHED commands

ASSUME LoadersAssumption == MaxLoaders \in Nat \ {0}
ASSUME IndicesAssumption == Indices \in Nat /\ Indices > 1
ASSUME PreloadAssumption == MaxPreload \in Nat \ {0}
ASSUME DetachAssumption  == MaxDetach \in Nat

VARIABLES
  uiPc, ctlPc,   \* the UI thread and the control thread
  left,          \* segments InitLoadThread still has to load
  ended,         \* thread_ended
  running,       \* load_dash_running
  joinable,      \* load_dash_thread.joinable()
  segmentIdx,    \* the next segment, counted from where InitLoadThread starts
  curl,          \* the current DashCurl, 0 for nullptr
  made,          \* DashCurl objects created so far
  deleted,       \* those deleted again
  described,     \* the page has described a stream: it has a duration
  loader,        \* the next statement of each load thread
  held,          \* the segment a load thread loads
  using,         \* the DashCurl a load thread is in
  handles,       \* load threads whose open file is the one at the path
  file,          \* "none", "ok" (the init segment and then every segment that
                 \* was asked for, in order, once) or "bad"
  expected,      \* the segment that keeps it ok
  detached,      \* PLAYER_DETACHED commands so far
  faults,        \* history: what crashed the browser
  disturbed      \* history: the last start met a load thread that had not
                 \* ended, or the control thread's stop

flagVars == <<ended, running, joinable>>
curlVars == <<curl, made, deleted>>
loadVars == <<loader, held, using>>
fileVars == <<handles, file, expected>>
histVars == <<detached, faults, disturbed>>
vars == <<uiPc, ctlPc, left, flagVars, segmentIdx, curlVars, described, loadVars, fileVars,
          histVars>>

Threads == 1 .. MaxLoaders
Unborn == {t \in Threads : loader[t] = "unborn"}
Active == {t \in Threads : loader[t] \notin {"unborn", "done"}}
Newest == CHOOSE t \in Threads \ Unborn : \A u \in Threads \ Unborn : u <= t
Next1(i) == (i + 1) % Indices

\* The UI thread is between SetFilename and the end of StartLoadThread.
Starting == uiPc \in {"init", "preload", "start", "run", "spawn", "detach"}

Init ==
  /\ uiPc = "idle" /\ ctlPc = "recv" /\ left = 0
  /\ ended = TRUE /\ running = FALSE /\ joinable = FALSE
  /\ segmentIdx = 0
  /\ curl = 0 /\ made = 0 /\ deleted = {}
  /\ described = FALSE
  /\ loader = [t \in Threads |-> "unborn"]
  /\ held = [t \in Threads |-> 0]
  /\ using = [t \in Threads |-> 0]
  /\ handles = {} /\ file = "none" /\ expected = 0
  /\ detached = 0 /\ faults = {} /\ disturbed = FALSE

-----------------------------------------------------------------------------
(***************************************************************************)
(* The file.                                                               *)
(***************************************************************************)
\* unlink: an open file stays with the thread that has it, without a name.
Unlink == /\ file' = "none"
          /\ handles' = {}

\* Appending segment i.  Whether the server delivers it makes no difference
\* here: the code ignores the result, and a failure leaves a gap in the file.
AppendSegment(i) ==
  /\ file' = IF file = "ok" /\ i = expected THEN "ok" ELSE "bad"
  /\ expected' = Next1(i)

-----------------------------------------------------------------------------
(***************************************************************************)
(* The UI thread.  Nothing happens after a crash.                          *)
(***************************************************************************)
Up == faults = {}

\* OnQuery "DASH:": GetStream finds or creates the stream, and it is filled.
Describe ==
  /\ Up /\ uiPc = "idle" /\ ~described
  /\ described' = TRUE
  /\ UNCHANGED <<uiPc, ctlPc, left, flagVars, segmentIdx, curlVars, loadVars, fileVars, histVars>>

\* stop_video; StopLoadThread clears a flag.  The thread is never joinable
\* here, because this same thread has detached it.
StopVideo ==
  /\ Up /\ uiPc = "idle"
  /\ running' = FALSE
  /\ uiPc' = "unlink"
  /\ UNCHANGED <<ctlPc, left, ended, joinable, segmentIdx, curlVars, described, loadVars,
                 fileVars, histVars>>

\* set_input_file stops the video that plays before set_input starts the next.
PlayVideo ==
  /\ Up /\ uiPc = "idle"
  /\ Unborn # {}
  /\ running' = FALSE
  /\ uiPc' = "replace"
  /\ UNCHANGED <<ctlPc, left, ended, joinable, segmentIdx, curlVars, described, loadVars,
                 fileVars, histVars>>

UnlinkFile ==
  /\ Up /\ uiPc \in {"unlink", "replace"}
  /\ Unlink
  /\ uiPc' = IF uiPc = "unlink" THEN "idle" ELSE "setFilename"
  /\ UNCHANGED <<ctlPc, left, flagVars, segmentIdx, curlVars, described, loadVars, expected,
                 histVars>>

\* SetFilename: the file starts anew; the DashCurl before this one is leaked.
SetFilename ==
  /\ Up /\ uiPc = "setFilename"
  /\ made < MaxLoaders
  /\ Unlink
  /\ made' = made + 1
  /\ curl' = made + 1
  /\ disturbed' = (Active # {} \/ ctlPc # "recv")
  /\ uiPc' = "init"
  /\ UNCHANGED <<ctlPc, left, flagVars, segmentIdx, deleted, described, loadVars, expected,
                 detached, faults>>

\* Mutant of InitLoadThread: the index is not reset.
InitKeepsIndex ==
  /\ Up /\ uiPc = "init"
  /\ described
  /\ expected' = 0
  /\ file' = IF file = "none" THEN "ok" ELSE "bad"
  /\ left' \in 1 .. MaxPreload
  /\ uiPc' = "preload"
  /\ UNCHANGED <<ctlPc, flagVars, segmentIdx, curlVars, described, loadVars, handles, histVars>>

\* InitLoadThread: set the index, load the init segment, decide how many
\* segments to preload: 60 / duration, where an unknown stream has duration 0.
InitLoadThread ==
  /\ Up /\ uiPc = "init"
  /\ segmentIdx' = 0
  /\ expected' = 0
  /\ IF described
     THEN /\ file' = IF file = "none" THEN "ok" ELSE "bad"
          /\ left' \in 1 .. MaxPreload
          /\ uiPc' = "preload"
          /\ UNCHANGED faults
     ELSE /\ faults' = {"divideByZero"}
          /\ UNCHANGED <<uiPc, left, file>>
  /\ UNCHANGED <<ctlPc, flagVars, curlVars, described, loadVars, handles, detached, disturbed>>

Preload ==
  /\ Up /\ uiPc = "preload"
  /\ AppendSegment(segmentIdx)
  /\ segmentIdx' = Next1(segmentIdx)
  /\ left' = left - 1
  /\ uiPc' = IF left = 1 THEN "start" ELSE "preload"
  /\ UNCHANGED <<ctlPc, flagVars, curlVars, described, loadVars, handles, histVars>>

\* StartLoadThread, statement by statement: thread_ended = false,
\* load_dash_running = true, std::thread(...), detach().
StartEnded ==
  /\ Up /\ uiPc = "start"
  /\ ended' = FALSE
  /\ uiPc' = "run"
  /\ UNCHANGED <<ctlPc, left, running, joinable, segmentIdx, curlVars, described, loadVars,
                 fileVars, histVars>>

StartRunning ==
  /\ Up /\ uiPc = "run"
  /\ running' = TRUE
  /\ uiPc' = "spawn"
  /\ UNCHANGED <<ctlPc, left, ended, joinable, segmentIdx, curlVars, described, loadVars,
                 fileVars, histVars>>

Spawn ==
  /\ Up /\ uiPc = "spawn"
  /\ \E t \in Unborn : /\ \A u \in Unborn : t <= u
                       /\ loader' = [loader EXCEPT ![t] = "check"]
  /\ joinable' = TRUE
  /\ uiPc' = "detach"
  /\ UNCHANGED <<ctlPc, left, ended, running, segmentIdx, curlVars, described, held, using,
                 fileVars, histVars>>

\* detach() of a thread the control thread has joined throws.
Detach ==
  /\ Up /\ uiPc = "detach"
  /\ faults' = IF joinable THEN {} ELSE {"detachJoined"}
  /\ joinable' = FALSE
  /\ uiPc' = "idle"
  /\ UNCHANGED <<ctlPc, left, ended, running, segmentIdx, curlVars, described, loadVars,
                 fileVars, detached, disturbed>>

\* OnQuery "CLEAR_DASH", ClearAll: stop, wait for thread_ended, clear.
ClearAll ==
  /\ Up /\ uiPc = "idle"
  /\ running' = FALSE
  /\ uiPc' = "clear"
  /\ UNCHANGED <<ctlPc, left, ended, joinable, segmentIdx, curlVars, described, loadVars,
                 fileVars, histVars>>

\* Mutant of ClearDone: it does not wait for thread_ended.
ClearAtOnce ==
  /\ Up /\ uiPc = "clear"
  /\ deleted' = deleted \cup ({curl} \ {0})
  /\ curl' = 0
  /\ described' = FALSE
  /\ uiPc' = "idle"
  /\ UNCHANGED <<ctlPc, left, flagVars, segmentIdx, made, loadVars, fileVars, histVars>>

ClearDone ==
  /\ Up /\ uiPc = "clear"
  /\ ended
  /\ deleted' = deleted \cup ({curl} \ {0})
  /\ curl' = 0
  /\ described' = FALSE
  /\ uiPc' = "idle"
  /\ UNCHANGED <<ctlPc, left, flagVars, segmentIdx, made, loadVars, fileVars, histVars>>

-----------------------------------------------------------------------------
(***************************************************************************)
(* PLAYER_DETACHED on the control thread: StopLoadThread tests the flag,   *)
(* clears it, and joins a thread the UI thread has not detached yet; then  *)
(* stop_video unlinks the file.                                            *)
(***************************************************************************)
PlayerDetached ==
  /\ Up /\ ctlPc = "recv"
  /\ detached < MaxDetach
  /\ detached' = detached + 1
  /\ disturbed' = (disturbed \/ Starting)
  /\ ctlPc' = IF running THEN "stop" ELSE "unlink"
  /\ UNCHANGED <<uiPc, left, flagVars, segmentIdx, curlVars, described, loadVars, fileVars,
                 faults>>

StopLoadThread ==
  /\ Up /\ ctlPc = "stop"
  /\ running' = FALSE
  /\ ctlPc' = IF joinable THEN "join" ELSE "unlink"
  /\ UNCHANGED <<uiPc, left, ended, joinable, segmentIdx, curlVars, described, loadVars,
                 fileVars, histVars>>

Join ==
  /\ Up /\ ctlPc = "join"
  /\ loader[Newest] = "done"
  /\ joinable' = FALSE
  /\ ctlPc' = "unlink"
  /\ UNCHANGED <<uiPc, left, ended, running, segmentIdx, curlVars, described, loadVars, fileVars,
                 histVars>>

UnlinkDetached ==
  /\ Up /\ ctlPc = "unlink"
  /\ Unlink
  /\ ctlPc' = "recv"
  /\ UNCHANGED <<uiPc, left, flagVars, segmentIdx, curlVars, described, loadVars, expected,
                 histVars>>

-----------------------------------------------------------------------------
(***************************************************************************)
(* LoadDash, a load thread.  The pause between two segments is no step of  *)
(* its own: it ends when its time is over and when the flag is cleared.    *)
(***************************************************************************)
Goto(t, label) == loader' = [loader EXCEPT ![t] = label]

\* Mutant of Check: the loop does not end.
CheckNothing(t) ==
  /\ Up /\ loader[t] = "check"
  /\ Goto(t, "read")
  /\ UNCHANGED <<uiPc, ctlPc, left, flagVars, segmentIdx, curlVars, described, held, using,
                 fileVars, histVars>>

\* while (load_dash_running)
Check(t) ==
  /\ Up /\ loader[t] = "check"
  /\ Goto(t, IF running THEN "read" ELSE "end")
  /\ UNCHANGED <<uiPc, ctlPc, left, flagVars, segmentIdx, curlVars, described, held, using,
                 fileVars, histVars>>

\* GetNextUrl: reads segmentIdx, then increments it.
ReadIndex(t) ==
  /\ Up /\ loader[t] = "read"
  /\ held' = [held EXCEPT ![t] = segmentIdx]
  /\ Goto(t, "increment")
  /\ UNCHANGED <<uiPc, ctlPc, left, flagVars, segmentIdx, curlVars, described, using, fileVars,
                 histVars>>

IncrementIndex(t) ==
  /\ Up /\ loader[t] = "increment"
  /\ segmentIdx' = Next1(segmentIdx)
  /\ Goto(t, "test")
  /\ UNCHANGED <<uiPc, ctlPc, left, flagVars, curlVars, described, held, using, fileVars, histVars>>

\* if (load_dash_running) curl->LoadUrl(...)
TestRunning(t) ==
  /\ Up /\ loader[t] = "test"
  /\ Goto(t, IF running THEN "open" ELSE "check")
  /\ using' = [using EXCEPT ![t] = IF running THEN curl ELSE 0]
  /\ UNCHANGED <<uiPc, ctlPc, left, flagVars, segmentIdx, curlVars, described, held, fileVars,
                 histVars>>

\* LoadUrl: fopen(filename, "ab") creates a file that does not exist.
OpenFile(t) ==
  /\ Up /\ loader[t] = "open"
  /\ file' = IF file = "none" THEN "bad" ELSE file
  /\ handles' = handles \cup {t}
  /\ Goto(t, "loading")
  /\ UNCHANGED <<uiPc, ctlPc, left, flagVars, segmentIdx, curlVars, described, held, using,
                 expected, histVars>>

\* curl_easy_perform and fclose.
LoadUrl(t) ==
  /\ Up /\ loader[t] = "loading"
  /\ IF t \in handles THEN AppendSegment(held[t]) ELSE UNCHANGED <<file, expected>>
  /\ handles' = handles \ {t}
  /\ using' = [using EXCEPT ![t] = 0]
  /\ Goto(t, "check")
  /\ UNCHANGED <<uiPc, ctlPc, left, flagVars, segmentIdx, curlVars, described, held, histVars>>

\* Mutant of EndThread: thread_ended is not set.
EndSilently(t) ==
  /\ Up /\ loader[t] = "end"
  /\ Goto(t, "done")
  /\ UNCHANGED <<uiPc, ctlPc, left, flagVars, segmentIdx, curlVars, described, held, using,
                 fileVars, histVars>>

EndThread(t) ==
  /\ Up /\ loader[t] = "end"
  /\ ended' = TRUE
  /\ Goto(t, "done")
  /\ UNCHANGED <<uiPc, ctlPc, left, running, joinable, segmentIdx, curlVars, described, held,
                 using, fileVars, histVars>>

-----------------------------------------------------------------------------
Queries == Describe \/ StopVideo \/ PlayVideo \/ ClearAll
UiSteps == \/ UnlinkFile \/ SetFilename \/ InitLoadThread \/ Preload \/ StartEnded
           \/ StartRunning \/ Spawn \/ Detach \/ ClearDone
ControlSteps == StopLoadThread \/ Join \/ UnlinkDetached
LoaderSteps(t) == \/ Check(t) \/ ReadIndex(t) \/ IncrementIndex(t) \/ TestRunning(t)
                  \/ OpenFile(t) \/ EndThread(t)

Next == \/ Queries \/ UiSteps \/ PlayerDetached \/ ControlSteps
        \/ \E t \in Threads : LoaderSteps(t) \/ LoadUrl(t)

Spec == Init /\ [][Next]_vars

\* Every thread runs.  LoadUrl sets no timeout, so nothing is assumed of it.
FairSpec == /\ Spec
            /\ WF_vars(UiSteps) /\ WF_vars(ControlSteps)
            /\ \A t \in Threads : WF_vars(LoaderSteps(t))

-----------------------------------------------------------------------------
TypeOK ==
  /\ uiPc \in {"idle", "unlink", "replace", "setFilename", "init", "preload", "start", "run",
               "spawn", "detach", "clear"}
  /\ ctlPc \in {"recv", "stop", "join", "unlink"}
  /\ left \in 0 .. MaxPreload
  /\ ended \in BOOLEAN /\ running \in BOOLEAN /\ joinable \in BOOLEAN
  /\ segmentIdx \in 0 .. Indices - 1
  /\ curl \in 0 .. MaxLoaders /\ made \in 0 .. MaxLoaders
  /\ deleted \subseteq 1 .. MaxLoaders
  /\ described \in BOOLEAN
  /\ loader \in [Threads -> {"unborn", "check", "read", "increment", "test", "open", "loading",
                             "end", "done"}]
  /\ held \in [Threads -> 0 .. Indices - 1]
  /\ using \in [Threads -> 0 .. MaxLoaders]
  /\ handles \subseteq Threads
  /\ file \in {"none", "ok", "bad"}
  /\ expected \in 0 .. Indices - 1
  /\ detached \in 0 .. MaxDetach
  /\ faults \subseteq {"divideByZero", "detachJoined"}
  /\ disturbed \in BOOLEAN

\* Unless the last start met a load thread still at work, ClearAll deletes no
\* DashCurl that a load thread is in, and no load thread finds nullptr: waiting
\* for the one flag thread_ended is then waiting for the right thread.
NoStaleCurl ==
  ~disturbed => \A t \in Threads :
                  loader[t] \in {"open", "loading"} => using[t] # 0 /\ using[t] \notin deleted

\* Under the same condition the file ffmpeg reads holds, while the load thread
\* is on, the init segment and then each segment once and in order, although
\* the UI thread and the load threads share segmentIdx and the file.
FileInOrder == (~disturbed /\ running) => file = "ok"

\* A thread told to stop ends unless another start turns the shared flag on
\* again, provided that downloads end.
LoaderStops ==
  (\A t \in Threads : WF_vars(LoadUrl(t))) =>
    \A t \in Threads : (t \in Active /\ ~running) ~> (t \notin Active \/ running \/ ~Up)

\* CLEAR_DASH keeps the UI thread waiting no longer than the downloads last.
ClearReturns ==
  (\A t \in Threads : WF_vars(LoadUrl(t))) => ((uiPc = "clear") ~> (uiPc # "clear" \/ ~Up))
=============================================================================
