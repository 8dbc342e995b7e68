---------------------------- MODULE VideoControl ----------------------------
(***************************************************************************)
(* Playing a video: the OnQuery commands of the page on the CEF UI thread, *)
(* PLAYER_DETACHED on the control thread, the TranscodeFFmpeg object both  *)
(* reach through BrowserClient::transcoder, and the ffmpeg processes       *)
(* (browserclient.cpp, browsercontrol.cpp, transcodeffmpeg.cpp).           *)
(*                                                                         *)
(* transcoder and the static ffmpeg_pid are shared by the two threads      *)
(* without a lock, so every read and every write of them is a step.        *)
(***************************************************************************)
EXTENDS Naturals, FiniteSets

CONSTANTS
  MaxPlays,   \* bound: VIDEO_URL and CHANGE_VIDEO_URL commands
  MaxForks,   \* bound: ffmpeg processes started
  MaxDetach,  \* bound: PLAYER_DETACHED commands
  UnixProto   \* the video goes through the socket file VIDEO_UNIX

ASSUME MaxPlaysAssumption == MaxPlays \in Nat
ASSUME MaxForksAssumption == MaxForks \in Nat
ASSUME MaxDetachAssumption == MaxDetach \in Nat
ASSUME UnixProtoAssumption == UnixProto \in BOOLEAN

VARIABLES
  pc,          \* the next statement of each thread
  command,     \* the OnQuery command the UI thread carries out
  this,        \* the object a thread's stop_video runs on
  transcoder,  \* BrowserClient::transcoder: 0 is nullptr, else an object
  alive,       \* the objects not deleted yet
  plays,       \* objects created so far
  ffmpegPid,   \* static ffmpeg_pid: 0, or a process started by fork_ffmpeg
  proc,        \* the state of each ffmpeg process
  child,       \* pid in fork_ffmpeg, before it is stored in ffmpeg_pid
  loading,     \* the DASH load threads have been started and not stopped
  socket,      \* VIDEO_UNIX exists
  transparent, \* the objects whose transparent video exists
  vdr,         \* what VDR was last told
  detach,      \* PLAYER_DETACHED commands on their way, and sent so far
  overlap,     \* history: both threads were in video code at once
  faults       \* history: undefined or misdirected operations

objVars  == <<transcoder, alive, plays>>
procVars == <<ffmpegPid, proc, child>>
fileVars == <<socket, transparent>>
histVars == <<overlap, faults>>
vars == <<pc, command, this, objVars, procVars, loading, fileVars, vdr, detach, histVars>>

Threads == {"ui", "control"}
Objects == 1 .. MaxPlays
Pids == 1 .. MaxForks

Unborn == {p \in Pids : proc[p] = "unborn"}
Running == {p \in Pids : proc[p] = "running"}
Busy(t) == pc[t] # "idle"

\* The browser is gone once kill(0, SIGKILL) hit its own process group.
Up == "killGroup" \notin faults

Goto(t, label) == pc' = [pc EXCEPT ![t] = label]

Init ==
  /\ pc = [t \in Threads |-> "idle"]
  /\ command = "none"
  /\ this = [t \in Threads |-> 0]
  /\ transcoder = 0 /\ alive = {} /\ plays = 0
  /\ ffmpegPid = 0 /\ proc = [p \in Pids |-> "unborn"] /\ child = 0
  /\ loading = FALSE
  /\ socket = FALSE /\ transparent = {}
  /\ vdr = "stopped"
  /\ detach = [waiting |-> 0, sent |-> 0]
  /\ overlap = FALSE /\ faults = {}

-----------------------------------------------------------------------------
(***************************************************************************)
(* OnQuery: the page's commands.  The command decides what happens around  *)
(* stop_video and fork_ffmpeg, which several of them call.                 *)
(***************************************************************************)
Query(c, label) ==
  /\ Up
  /\ ~Busy("ui")
  /\ command' = c
  /\ Goto("ui", label)
  /\ overlap' = (overlap \/ Busy("control"))

\* VIDEO_URL and CHANGE_VIDEO_URL: unlink the socket file, tell VDR to play.
PlayVideo ==
  /\ plays < MaxPlays
  /\ Query("play", "replace")
  /\ socket' = FALSE
  /\ vdr' = "playing"
  /\ UNCHANGED <<this, objVars, procVars, loading, transparent, detach, faults>>

\* END_VIDEO, STOP_VIDEO and DESTROY_APP: tell VDR, then stop.
StopVideo ==
  /\ Query("stop", "stop")
  /\ vdr' = "stopped"
  /\ UNCHANGED <<this, objVars, procVars, loading, fileVars, detach, faults>>

\* ERROR_VIDEO: stop without telling VDR.
ErrorVideo ==
  /\ Query("stop", "stop")
  /\ UNCHANGED <<this, objVars, procVars, loading, fileVars, vdr, detach, faults>>

\* PAUSE_VIDEO, SEEK_VIDEO: both stop the running ffmpeg first.
PauseVideo ==
  /\ Query("pause", "stop")
  /\ UNCHANGED <<this, objVars, procVars, loading, fileVars, vdr, detach, faults>>

SeekVideo ==
  /\ Unborn # {}
  /\ Query("seek", "stop")
  /\ UNCHANGED <<this, objVars, procVars, loading, fileVars, vdr, detach, faults>>

\* Mutant of ResumeVideo: ffmpeg_pid is not looked at.
ResumeAnyway ==
  /\ transcoder # 0
  /\ Unborn # {}
  /\ Query("resume", "fork")
  /\ UNCHANGED <<this, objVars, procVars, loading, fileVars, vdr, detach, faults>>

\* RESUME_VIDEO: nothing without an object, nothing while ffmpeg_pid is set.
ResumeVideo ==
  /\ transcoder # 0
  /\ ffmpegPid = 0
  /\ Unborn # {}
  /\ Query("resume", "fork")
  /\ UNCHANGED <<this, objVars, procVars, loading, fileVars, vdr, detach, faults>>

-----------------------------------------------------------------------------
(***************************************************************************)
(* stop_video, of BrowserClient and of TranscodeFFmpeg, on either thread.  *)
(***************************************************************************)
\* Mutant of Cleanup: PLAYER_DETACHED calls stop_video(false).
CleanupUi(t) == t = "ui" /\ command # "pause"

\* pause_video calls stop_video(false); everything else cleans up.
Cleanup(t) == ~(t = "ui" /\ command = "pause")

\* Where the UI thread goes when stop_video returns.
AfterStop == CASE command = "play"  -> "delete"
               [] command = "pause" -> "tell"
               [] command = "seek"  -> "tell"
               [] OTHER             -> "idle"

\* if (transcoder != nullptr) transcoder->...
CheckTranscoder(t) ==
  /\ Up
  /\ pc[t] \in {"stop", "replace"}
  /\ IF transcoder = 0
     THEN /\ Goto(t, IF pc[t] = "replace" THEN "new" ELSE "idle")
          /\ UNCHANGED this
     ELSE /\ Goto(t, "loaders")
          /\ this' = [this EXCEPT ![t] = transcoder]
  /\ UNCHANGED <<command, objVars, procVars, loading, fileVars, vdr, detach, histVars>>

StopLoaders(t) ==
  /\ Up
  /\ pc[t] = "loaders"
  /\ loading' = (loading /\ ~Cleanup(t))
  /\ Goto(t, "test")
  /\ UNCHANGED <<command, this, objVars, procVars, fileVars, vdr, detach, histVars>>

\* Mutant of TestPid: off by one.
TestPidOff(t) ==
  /\ Up
  /\ pc[t] = "test"
  /\ Goto(t, IF ffmpegPid > 1 THEN "kill" ELSE "clear")
  /\ UNCHANGED <<command, this, objVars, procVars, loading, fileVars, vdr, detach, histVars>>

\* if (ffmpeg_pid > 0)
TestPid(t) ==
  /\ Up
  /\ pc[t] = "test"
  /\ Goto(t, IF ffmpegPid > 0 THEN "kill" ELSE "clear")
  /\ UNCHANGED <<command, this, objVars, procVars, loading, fileVars, vdr, detach, histVars>>

\* Mutant of KillFfmpeg: a signal ffmpeg ignores.
KillGently(t) ==
  /\ Up
  /\ pc[t] = "kill"
  /\ Goto(t, "wait")
  /\ UNCHANGED <<command, this, objVars, procVars, loading, fileVars, vdr, detach, histVars>>

\* kill(ffmpeg_pid, SIGKILL), reading the variable again: 0 is the whole
\* process group of the browser, a reaped process may be somebody else's.
KillFfmpeg(t) ==
  /\ Up
  /\ pc[t] = "kill"
  /\ Goto(t, "wait")
  /\ IF ffmpegPid = 0
     THEN /\ faults' = faults \cup {"killGroup"}
          /\ UNCHANGED proc
     ELSE /\ faults' = IF proc[ffmpegPid] = "reaped" THEN faults \cup {"killForeign"} ELSE faults
          /\ proc' = IF proc[ffmpegPid] = "running"
                     THEN [proc EXCEPT ![ffmpegPid] = "zombie"] ELSE proc
  /\ UNCHANGED <<command, this, objVars, ffmpegPid, child, loading, fileVars, vdr, detach,
                 overlap>>

\* waitpid(ffmpeg_pid): returns when that child (0: any child) is dead, or when
\* there is no such child.
WaitFfmpeg(t) ==
  /\ Up
  /\ pc[t] = "wait"
  /\ Goto(t, "clear")
  /\ LET awaited == IF ffmpegPid = 0 THEN Pids ELSE {ffmpegPid}
         zombies == {p \in awaited : proc[p] = "zombie"}
     IN \/ \E p \in zombies : proc' = [proc EXCEPT ![p] = "reaped"]
        \/ /\ zombies = {} /\ awaited \cap Running = {}
           /\ UNCHANGED proc
  /\ UNCHANGED <<command, this, objVars, ffmpegPid, child, loading, fileVars, vdr, detach, histVars>>

\* Mutant of ClearPid: ffmpeg_pid keeps the process that was waited for.
KeepPid(t) ==
  /\ Up
  /\ pc[t] = "clear"
  /\ Goto(t, IF Cleanup(t) THEN "unlink" ELSE AfterStop)
  /\ UNCHANGED <<command, this, objVars, procVars, loading, fileVars, vdr, detach, histVars>>

\* ffmpeg_pid = 0
ClearPid(t) ==
  /\ Up
  /\ pc[t] = "clear"
  /\ ffmpegPid' = 0
  /\ Goto(t, IF Cleanup(t) THEN "unlink" ELSE AfterStop)
  /\ UNCHANGED <<command, this, objVars, proc, child, loading, fileVars, vdr, detach, histVars>>

\* Unlink the transparent video this object names and the socket; the files of
\* the DASH loaders are DashHandler's.
UnlinkFiles(t) ==
  /\ Up
  /\ pc[t] = "unlink"
  /\ faults' = IF this[t] \in alive THEN faults ELSE faults \cup {"useAfterDelete"}
  /\ transparent' = transparent \ {this[t]}
  /\ socket' = FALSE
  /\ Goto(t, IF t = "ui" THEN AfterStop ELSE "idle")
  /\ UNCHANGED <<command, this, objVars, procVars, loading, vdr, detach, overlap>>

\* event_callback("PAUSE_VIDEO"), ("SEEK_VIDEO"), ("RESUME_VIDEO").
TellVdr ==
  /\ Up
  /\ pc["ui"] = "tell"
  /\ vdr' = IF command = "pause" THEN "paused" ELSE "playing"
  /\ Goto("ui", IF command = "seek" THEN "fork" ELSE "idle")
  /\ UNCHANGED <<command, this, objVars, procVars, loading, fileVars, detach, histVars>>

-----------------------------------------------------------------------------
(***************************************************************************)
(* set_input_file after stop_video, set_input and fork_ffmpeg.             *)
(***************************************************************************)
DeleteTranscoder ==
  /\ Up
  /\ pc["ui"] = "delete"
  /\ alive' = alive \ {transcoder}
  /\ Goto("ui", "null")
  /\ UNCHANGED <<command, this, transcoder, plays, procVars, loading, fileVars, vdr, detach,
                 histVars>>

NullTranscoder ==
  /\ Up
  /\ pc["ui"] = "null"
  /\ transcoder' = 0
  /\ Goto("ui", "new")
  /\ UNCHANGED <<command, this, alive, plays, procVars, loading, fileVars, vdr, detach, histVars>>

NewTranscoder ==
  /\ Up
  /\ pc["ui"] = "new"
  /\ plays' = plays + 1
  /\ transcoder' = plays + 1
  /\ alive' = alive \cup {plays + 1}
  /\ Goto("ui", "input")
  /\ UNCHANGED <<command, this, procVars, loading, fileVars, vdr, detach, histVars>>

\* set_input up to the transparent video: the failed movie is refused at once,
\* a DASH manifest starts the loaders, anything else is probed.
SetInput ==
  /\ Up
  /\ pc["ui"] = "input"
  /\ \/ /\ Goto("ui", "failed")                      \* client://movie/fail
        /\ UNCHANGED loading
     \/ /\ Goto("ui", "transparent")                 \* .mpd
        /\ loading' = TRUE
     \/ /\ \/ Goto("ui", "transparent")              \* ffprobe knows it, or not
           \/ Goto("ui", "failed")
        /\ UNCHANGED loading
  /\ UNCHANGED <<command, this, objVars, procVars, socket, transparent, vdr, detach, histVars>>

MakeTransparent ==
  /\ Up
  /\ pc["ui"] = "transparent"
  /\ \/ /\ transparent' = transparent \cup {transcoder}
        /\ Goto("ui", "fork")
     \/ /\ Goto("ui", "failed")                      \* system() returns -1
        /\ UNCHANGED transparent
  /\ UNCHANGED <<command, this, objVars, procVars, loading, socket, vdr, detach, histVars>>

\* set_input returned false: VIDEO_FAILED.
VideoFailed ==
  /\ Up
  /\ pc["ui"] = "failed"
  /\ vdr' = "failed"
  /\ Goto("ui", "idle")
  /\ UNCHANGED <<command, this, objVars, procVars, loading, fileVars, detach, histVars>>

AfterFork == IF command = "resume" THEN "tell" ELSE "idle"

\* fork(): the child becomes ffmpeg; a failing fork is ignored by every caller.
ForkFfmpeg ==
  /\ Up
  /\ pc["ui"] = "fork"
  /\ \/ \E p \in Unborn :
          /\ \A q \in Unborn : p <= q
          /\ proc' = [proc EXCEPT ![p] = "running"]
          /\ child' = p
          /\ Goto("ui", "store")
     \/ /\ Goto("ui", AfterFork)
        /\ UNCHANGED <<proc, child>>
  /\ UNCHANGED <<command, this, objVars, ffmpegPid, loading, fileVars, vdr, detach, histVars>>

\* ffmpeg_pid = pid, in the parent.
StorePid ==
  /\ Up
  /\ pc["ui"] = "store"
  /\ ffmpegPid' = child
  /\ child' = 0
  /\ Goto("ui", AfterFork)
  /\ UNCHANGED <<command, this, objVars, proc, loading, fileVars, vdr, detach, histVars>>

-----------------------------------------------------------------------------
(***************************************************************************)
(* VDR loses its player and says so; the control thread stops the video.   *)
(***************************************************************************)
VdrDetaches ==
  /\ detach.sent < MaxDetach
  /\ detach' = [waiting |-> detach.waiting + 1, sent |-> detach.sent + 1]
  /\ vdr' = "stopped"
  /\ UNCHANGED <<pc, command, this, objVars, procVars, loading, fileVars, histVars>>

PlayerDetached ==
  /\ Up
  /\ ~Busy("control")
  /\ detach.waiting > 0
  /\ detach' = [detach EXCEPT !.waiting = @ - 1]
  /\ Goto("control", "stop")
  /\ overlap' = (overlap \/ Busy("ui"))
  /\ UNCHANGED <<command, this, objVars, procVars, loading, fileVars, vdr, faults>>

-----------------------------------------------------------------------------
(***************************************************************************)
(* ffmpeg (external): listens on the socket file, or ends by itself, for   *)
(* instance at the end of the video.                                       *)
(***************************************************************************)
FfmpegListens ==
  /\ UnixProto
  /\ Running # {}
  /\ ~socket
  /\ socket' = TRUE
  /\ UNCHANGED <<pc, command, this, objVars, procVars, loading, transparent, vdr, detach,
                 histVars>>

FfmpegEnds ==
  /\ \E p \in Running : proc' = [proc EXCEPT ![p] = "zombie"]
  /\ UNCHANGED <<pc, command, this, objVars, ffmpegPid, child, loading, fileVars, vdr, detach,
                 histVars>>

-----------------------------------------------------------------------------
StopSteps(t) == \/ CheckTranscoder(t) \/ StopLoaders(t) \/ TestPid(t) \/ KillFfmpeg(t)
                \/ WaitFfmpeg(t) \/ ClearPid(t) \/ UnlinkFiles(t)

UiSteps == \/ StopSteps("ui") \/ TellVdr \/ DeleteTranscoder \/ NullTranscoder \/ NewTranscoder
           \/ SetInput \/ MakeTransparent \/ VideoFailed \/ ForkFfmpeg \/ StorePid

Queries == PlayVideo \/ StopVideo \/ ErrorVideo \/ PauseVideo \/ SeekVideo \/ ResumeVideo

Next == \/ Queries \/ UiSteps
        \/ PlayerDetached \/ StopSteps("control")
        \/ VdrDetaches \/ FfmpegListens \/ FfmpegEnds

Spec == Init /\ [][Next]_vars

\* Both threads run; ffmpeg, the page and VDR do as they like.
FairSpec == Spec /\ WF_vars(UiSteps) /\ WF_vars(StopSteps("control")) /\ WF_vars(PlayerDetached)

-----------------------------------------------------------------------------
TypeOK ==
  /\ pc \in [Threads -> {"idle", "stop", "replace", "loaders", "test", "kill", "wait", "clear",
                         "unlink", "tell", "delete", "null", "new", "input", "transparent",
                         "failed", "fork", "store"}]
  /\ command \in {"none", "play", "stop", "pause", "seek", "resume"}
  /\ this \in [Threads -> 0 .. MaxPlays]
  /\ transcoder \in 0 .. MaxPlays
  /\ alive \subseteq Objects
  /\ plays \in 0 .. MaxPlays
  /\ ffmpegPid \in 0 .. MaxForks
  /\ proc \in [Pids -> {"unborn", "running", "zombie", "reaped"}]
  /\ child \in 0 .. MaxForks
  /\ loading \in BOOLEAN
  /\ socket \in BOOLEAN
  /\ transparent \subseteq Objects
  /\ vdr \in {"stopped", "playing", "paused", "failed"}
  /\ detach \in [waiting : 0 .. MaxDetach, sent : 0 .. MaxDetach]
  /\ overlap \in BOOLEAN
  /\ faults \subseteq {"killGroup", "killForeign", "useAfterDelete"}

Quiet == ~Busy("ui") /\ ~Busy("control") /\ detach.waiting = 0

\* As long as PLAYER_DETACHED never meets a command of the page half way, there
\* is one ffmpeg at a time, and ffmpeg_pid names it once the command is done:
\* no process is left behind that stop_video cannot kill.
NoOrphan ==
  ~overlap => /\ Cardinality(Running) <= 1
              /\ Quiet => Running \subseteq {ffmpegPid}

\* Under the same condition kill hits only a child that was not waited for, and
\* no deleted TranscodeFFmpeg is used.
KillsOwnChild == ~overlap => faults = {}

\* What VDR was told last is true: after "stopped", "paused" or "failed" no
\* ffmpeg sends video.
ToldTheTruth ==
  (~overlap /\ Quiet /\ vdr \in {"stopped", "paused", "failed"}) => Running = {}

\* A stopped video leaves nothing behind: no loader, no socket, no
\* transparent video of this or an earlier object.
NothingLeft ==
  (~overlap /\ Quiet /\ vdr = "stopped") =>
    ~loading /\ ~socket /\ transparent = {}

\* Every command ends: waitpid waits for a process that was killed, never for
\* one that plays on, unless the two threads were in video code at once.
CommandEnds == \A t \in Threads : Busy(t) ~> (~Busy(t) \/ overlap)
=============================================================================
