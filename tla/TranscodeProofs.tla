-------------------------- MODULE TranscodeProofs --------------------------
(***************************************************************************)
(* Proofs about the two sides of transcodeffmpeg.cpp.  VideoControl, for   *)
(* every bound and either transport: type correctness, and, as long as     *)
(* PLAYER_DETACHED meets no command half way, one ffmpeg at a time, no     *)
(* misdirected kill, no deleted object used, and VDR told the truth about  *)
(* a video that leaves nothing behind.  TranscodeSettings, for every       *)
(* configuration file, every output of ffprobe and every position: what    *)
(* the numbers become, and what the ffmpeg command says whenever there is  *)
(* one.                                                                    *)
(***************************************************************************)
EXTENDS VideoControl, TranscodeSettings, FiniteSetTheorems, TLAPS

-----------------------------------------------------------------------------
(***************************************************************************)
(* VideoControl: the inductive invariant.                                  *)
(***************************************************************************)
\* stop_video past the test of transcoder.
Stopping == {"loaders", "test", "kill", "wait", "clear", "unlink"}

\* set_input_file after stop_video, and set_input.
Opening == {"delete", "null", "new", "input", "transparent", "failed"}

\* Which command leads to which statement, whatever the threads overlap.
Flow ==
  /\ pc["control"] \in {"idle", "stop"} \cup Stopping
  /\ pc["ui"] = "stop" => command \in {"stop", "pause", "seek"}
  /\ pc["ui"] = "replace" => command = "play"
  /\ pc["ui"] \in Stopping => command \in {"play", "stop", "pause", "seek"}
  /\ pc["ui"] = "unlink" => command # "pause"
  /\ pc["ui"] = "tell" => command \in {"pause", "seek", "resume"}
  /\ pc["ui"] \in Opening => command = "play"
  /\ pc["ui"] \in {"fork", "store"} => command \in {"play", "seek", "resume"}
  /\ (command = "play" /\ pc["ui"] \in {"replace", "delete", "null", "new"} \cup Stopping)
       => plays < MaxPlays
  /\ pc["ui"] \in {"delete", "null", "input", "transparent", "failed", "fork", "store", "tell"}
                  \cup Stopping => transcoder # 0
  /\ pc["ui"] = "new" => transcoder = 0
  /\ detach.waiting <= detach.sent

\* One thread at a time is in video code.
Alone == ~(Busy("ui") /\ Busy("control")) /\ faults = {}

\* The objects alive are the one transcoder points to, and a stop_video runs on it.
ObjectKept ==
  /\ alive = IF transcoder = 0 \/ pc["ui"] = "null" THEN {} ELSE {transcoder}
  /\ \A t \in Threads : pc[t] \in Stopping => transcoder # 0 /\ this[t] = transcoder

\* Where stop_video has run and fork_ffmpeg has not stored its child.
NoPid ==
  \/ \E t \in Threads : pc[t] = "unlink"
  \/ pc["ui"] \in Opening \cup {"fork", "store"}
  \/ pc["ui"] = "tell" /\ command # "resume"
  \/ transcoder = 0

\* A process that was not waited for is ffmpeg_pid, or the child not stored yet.
ChildKept ==
  /\ child # 0 <=> pc["ui"] = "store"
  /\ \A p \in Pids : proc[p] \in {"running", "zombie"} =>
                       p = IF pc["ui"] = "store" THEN child ELSE ffmpegPid
  /\ pc["ui"] = "store" => proc[child] \in {"running", "zombie"}
  /\ NoPid => ffmpegPid = 0
  /\ (ffmpegPid # 0 /\ \A t \in Threads : pc[t] # "clear")
       => proc[ffmpegPid] \in {"running", "zombie"}
  /\ \A t \in Threads : /\ pc[t] \in {"kill", "wait"} => ffmpegPid # 0
                        /\ pc[t] = "wait" => proc[ffmpegPid] = "zombie"
                        /\ pc[t] = "clear" /\ ffmpegPid # 0 => proc[ffmpegPid] = "reaped"

\* The UI thread is in a command that stops for good, before one of the labels.
Ending(labels) == pc["ui"] \in labels /\ command = "stop"

\* RESUME_VIDEO has forked and not told VDR yet.
Resuming == pc["ui"] \in {"store", "tell"} /\ command = "resume"

\* VDR knows of a video being opened, or is about to stop it.
PlayTold ==
  (pc["ui"] # "idle" /\ command = "play") \/ (pc["ui"] \in {"fork", "store"} /\ command = "seek")
    => vdr = "playing" \/ detach.waiting > 0

\* A process VDR was not told of is about to be killed or told of.
Told ==
  vdr # "playing" =>
    \/ Running = {}
    \/ detach.waiting > 0
    \/ pc["control"] \in {"stop", "loaders", "test", "kill", "wait"}
    \/ Ending({"stop", "loaders", "test", "kill", "wait"})
    \/ Resuming

Clean == ~loading /\ ~socket /\ transparent = {}

\* Only the present object has left anything, and not its loaders past their stop.
Owned ==
  /\ transparent \subseteq {transcoder}
  /\ transcoder = 0 \/ pc["ui"] \in {"delete", "null", "new"} => Clean
  /\ \A t \in Threads : (pc[t] \in Stopping \ {"loaders"} /\ Cleanup(t)) => ~loading

\* What a stopped video leaves is about to be removed.
Left ==
  vdr = "stopped" =>
    \/ Clean
    \/ detach.waiting > 0
    \/ Busy("control")
    \/ Ending({"stop"} \cup Stopping)
    \/ Resuming

IInv ==
  /\ TypeOK
  /\ Flow
  /\ ~overlap => Alone /\ ObjectKept /\ ChildKept /\ PlayTold /\ Told /\ Owned /\ Left

-----------------------------------------------------------------------------
(***************************************************************************)
(* Type correctness and flow, one case per action.                         *)
(***************************************************************************)
\* The initial states satisfy the invariant.
LEMMA InitIInv == Init => IInv
<1> SUFFICES ASSUME Init PROVE IInv
  OBVIOUS
<1> USE DEF Init, Threads
<1>1. TypeOK
  <2>1. 0 \in 0 .. MaxPlays /\ 0 \in 0 .. MaxForks /\ 0 \in 0 .. MaxDetach
    BY MaxPlaysAssumption, MaxForksAssumption, MaxDetachAssumption
  <2>2. QED
    BY <2>1 DEF TypeOK
<1>2. Alone /\ ObjectKept /\ PlayTold
  BY DEF Alone, Busy, ObjectKept, Stopping, PlayTold
<1>3. ChildKept /\ Told
  BY DEF ChildKept, Told, Running
<1>4. Owned /\ Left
  BY DEF Owned, Left, Clean, Stopping
<1>5. Flow
  BY DEF Flow, Stopping, Opening
<1>6. QED
  BY <1>1, <1>2, <1>3, <1>4, <1>5 DEF IInv

\* A step of stop_video keeps types and flow, on either thread.
LEMMA StopTypeFlow ==
  ASSUME TypeOK, Flow, NEW t \in Threads, StopSteps(t)
  PROVE  TypeOK' /\ Flow'
<1> USE DEF TypeOK, Flow, Stopping, Opening, Threads, Goto, objVars, procVars, fileVars, histVars
<1>1. CASE CheckTranscoder(t)
  BY <1>1 DEF CheckTranscoder
<1>2. CASE StopLoaders(t)
  BY <1>2 DEF StopLoaders, Cleanup
<1>3. CASE TestPid(t)
  BY <1>3 DEF TestPid
<1>4. CASE KillFfmpeg(t)
  BY <1>4 DEF KillFfmpeg
<1>5. CASE WaitFfmpeg(t)
  BY <1>5 DEF WaitFfmpeg
<1>6. CASE ClearPid(t)
  BY <1>6, MaxForksAssumption DEF ClearPid, Cleanup, AfterStop
<1>7. CASE UnlinkFiles(t)
  BY <1>7 DEF UnlinkFiles, AfterStop
<1>8. QED
  BY <1>1, <1>2, <1>3, <1>4, <1>5, <1>6, <1>7 DEF StopSteps

\* Every other step does, too.
LEMMA TypeFlowStep == TypeOK /\ Flow /\ [Next]_vars => TypeOK' /\ Flow'
<1> SUFFICES ASSUME TypeOK, Flow, [Next]_vars PROVE TypeOK' /\ Flow'
  OBVIOUS
<1>1. CASE StopSteps("ui") \/ StopSteps("control")
  BY <1>1, StopTypeFlow DEF Threads
<1> USE DEF TypeOK, Flow, Stopping, Opening, Threads, Goto, objVars, procVars, fileVars, histVars
<1>2. CASE Queries
  <2>1. CASE PlayVideo
    BY <2>1 DEF PlayVideo, Query, Busy
  <2>2. CASE StopVideo \/ ErrorVideo
    BY <2>2 DEF StopVideo, ErrorVideo, Query, Busy
  <2>3. CASE PauseVideo \/ SeekVideo
    BY <2>3 DEF PauseVideo, SeekVideo, Query, Busy
  <2>4. CASE ResumeVideo
    BY <2>4 DEF ResumeVideo, Query, Busy
  <2>5. QED
    BY <1>2, <2>1, <2>2, <2>3, <2>4 DEF Queries
<1>3. CASE TellVdr \/ DeleteTranscoder
  BY <1>3 DEF TellVdr, DeleteTranscoder
<1>0. CASE NullTranscoder
  BY <1>0, MaxPlaysAssumption DEF NullTranscoder
<1>4. CASE NewTranscoder
  BY <1>4, MaxPlaysAssumption DEF NewTranscoder, Objects
<1>5. CASE SetInput \/ VideoFailed
  BY <1>5 DEF SetInput, VideoFailed
<1>6. CASE MakeTransparent
  <2>1. transcoder # 0 => transcoder \in Objects
    BY MaxPlaysAssumption DEF Objects
  <2>2. QED
    BY <1>6, <2>1 DEF MakeTransparent
<1>7. CASE ForkFfmpeg
  BY <1>7, MaxForksAssumption DEF ForkFfmpeg, Unborn, Pids, AfterFork
<1>8. CASE StorePid
  BY <1>8, MaxForksAssumption DEF StorePid, AfterFork
<1>9. CASE VdrDetaches
  BY <1>9, MaxDetachAssumption DEF VdrDetaches
<1>10. CASE PlayerDetached
  BY <1>10, MaxDetachAssumption DEF PlayerDetached, Busy
<1>11. CASE FfmpegListens
  BY <1>11 DEF FfmpegListens
<1>12. CASE FfmpegEnds
  BY <1>12 DEF FfmpegEnds, Running
<1>13. CASE UNCHANGED vars
  BY <1>13 DEF vars
<1>14. QED
  BY <1>0, <1>1, <1>2, <1>3, <1>4, <1>5, <1>6, <1>7, <1>8, <1>9, <1>10, <1>11, <1>12, <1>13
     DEF Next, UiSteps

-----------------------------------------------------------------------------
(***************************************************************************)
(* The processes that run.                                                 *)
(***************************************************************************)
\* Where ffmpeg_pid is 0 and no child waits to be stored, no ffmpeg runs.
LEMMA NobodyRuns ==
  ASSUME TypeOK, ChildKept, NoPid \/ ffmpegPid = 0, pc["ui"] # "store"
  PROVE  Running = {}
  BY DEF TypeOK, ChildKept, Running, Pids

\* Past the kill of stop_video no ffmpeg runs, either.
LEMMA KilledAll ==
  ASSUME TypeOK, Alone, ChildKept, NEW t \in Threads, pc[t] \in {"wait", "clear"}
  PROVE  Running = {}
<1>1. pc["ui"] # "store"
  BY DEF Alone, Busy, Threads
<1>2. QED
  BY <1>1 DEF TypeOK, ChildKept, Running, Pids

\* kill hits ffmpeg_pid and nothing else.
LEMMA KillEffect ==
  ASSUME TypeOK, Alone, ChildKept, NEW t \in Threads, KillFfmpeg(t)
  PROVE  /\ ffmpegPid \in Pids /\ ffmpegPid' = ffmpegPid /\ faults' = faults
         /\ proc' \in [Pids -> {"unborn", "running", "zombie", "reaped"}]
         /\ proc'[ffmpegPid] = "zombie"
         /\ \A p \in Pids : p # ffmpegPid => proc'[p] = proc[p]
         /\ Running' \subseteq Running
<1>1. ffmpegPid \in Pids
  BY MaxForksAssumption DEF KillFfmpeg, ChildKept, TypeOK, Pids
<1>2. \A u \in Threads : pc[u] # "clear"
  BY DEF KillFfmpeg, Alone, Busy, Threads
<1>3. proc[ffmpegPid] \in {"running", "zombie"}
  BY <1>1, <1>2 DEF ChildKept, Pids
<1>4. ffmpegPid # 0
  BY <1>1, MaxForksAssumption DEF Pids
<1>7. \/ proc' = [proc EXCEPT ![ffmpegPid] = "zombie"]
      \/ proc' = proc /\ proc[ffmpegPid] = "zombie"
  BY <1>3, <1>4 DEF KillFfmpeg
<1>5. ffmpegPid' = ffmpegPid /\ faults' = faults
  BY <1>3, <1>4 DEF KillFfmpeg
<1>6. QED
  BY <1>1, <1>7, <1>5 DEF TypeOK, Running

\* waitpid reaps ffmpeg_pid and nothing else.
LEMMA WaitEffect ==
  ASSUME TypeOK, Alone, ChildKept, NEW t \in Threads, WaitFfmpeg(t)
  PROVE  /\ ffmpegPid \in Pids /\ ffmpegPid' = ffmpegPid
         /\ proc' = [proc EXCEPT ![ffmpegPid] = "reaped"]
<1>1. ffmpegPid \in Pids /\ proc[ffmpegPid] = "zombie"
  BY MaxForksAssumption DEF WaitFfmpeg, ChildKept, TypeOK, Pids
<1>2. QED
  BY <1>1 DEF WaitFfmpeg, Pids, procVars

\* fork starts an ffmpeg that was not born, which nothing else names.
LEMMA ForkEffect ==
  ASSUME TypeOK, Flow, ChildKept, ForkFfmpeg
  PROVE  /\ ffmpegPid = 0 /\ ffmpegPid' = 0 /\ child = 0 /\ Running = {}
         /\ \/ /\ child' \in Pids
               /\ proc' = [proc EXCEPT ![child'] = "running"]
               /\ pc' = [pc EXCEPT !["ui"] = "store"]
            \/ /\ UNCHANGED <<proc, child>>
               /\ pc' = [pc EXCEPT !["ui"] = AfterFork]
<1>1. NoPid /\ pc["ui"] = "fork"
  BY DEF ForkFfmpeg, NoPid, Opening
<1>2. Running = {}
  BY <1>1, NobodyRuns
<1>3. ffmpegPid = 0 /\ child = 0
  BY <1>1 DEF ChildKept
<1>4. QED
  BY <1>2, <1>3 DEF ForkFfmpeg, Unborn, Goto

\* A step that leaves proc alone leaves the running ones alone.
LEMMA SameRunning == proc' = proc => Running' = Running
  BY DEF Running

\* A step that leaves the files and the loaders alone leaves clean what was clean.
LEMMA SameFiles ==
  loading' = loading /\ socket' = socket /\ transparent' = transparent => (Clean' <=> Clean)
  BY DEF Clean

\* The threads stay out of each other's way and no operation is misdirected.
LEMMA AloneStep ==
  ASSUME TypeOK, Flow, ~overlap', ~overlap, Alone, ObjectKept, ChildKept, [Next]_vars
  PROVE  Alone'
<1> USE DEF TypeOK, Flow, Stopping, Opening, Threads, Pids, Goto, objVars, procVars, fileVars, histVars,
           Alone, Busy, ObjectKept, ChildKept
<1>1. ASSUME NEW t \in Threads, StopSteps(t)
      PROVE  Alone'
  <2>1. CASE CheckTranscoder(t)
    BY <2>1 DEF CheckTranscoder
  <2>2. CASE StopLoaders(t)
    BY <2>2 DEF StopLoaders, Cleanup
  <2>3. CASE TestPid(t)
    BY <2>3 DEF TestPid
  <2>4. CASE KillFfmpeg(t)
    BY <2>4, KillEffect DEF KillFfmpeg
  <2>5. CASE WaitFfmpeg(t)
    BY <2>5 DEF WaitFfmpeg
  <2>6. CASE ClearPid(t)
    BY <2>6 DEF ClearPid, AfterStop, Cleanup
  <2>7. CASE UnlinkFiles(t)
    BY <2>7 DEF UnlinkFiles, AfterStop, Cleanup
  <2>8. QED
    BY <1>1, <2>1, <2>2, <2>3, <2>4, <2>5, <2>6, <2>7 DEF StopSteps
<1>2. CASE PlayVideo
  BY <1>2 DEF PlayVideo, Query
<1>3. CASE StopVideo \/ ErrorVideo
  BY <1>3 DEF StopVideo, ErrorVideo, Query
<1>4. CASE PauseVideo \/ SeekVideo
  BY <1>4 DEF PauseVideo, SeekVideo, Query
<1>5. CASE ResumeVideo
  BY <1>5 DEF ResumeVideo, Query
<1>6. CASE TellVdr
  BY <1>6 DEF TellVdr
<1>7. CASE DeleteTranscoder \/ NullTranscoder
  BY <1>7 DEF DeleteTranscoder, NullTranscoder
<1>8. CASE NewTranscoder
  BY <1>8 DEF NewTranscoder
<1>9. CASE SetInput
  BY <1>9 DEF SetInput
<1>10. CASE MakeTransparent \/ VideoFailed
  BY <1>10 DEF MakeTransparent, VideoFailed
<1>11. CASE ForkFfmpeg
  BY <1>11 DEF ForkFfmpeg, AfterFork, Unborn
<1>12. CASE StorePid
  BY <1>12 DEF StorePid, AfterFork
<1>13. CASE VdrDetaches
  BY <1>13 DEF VdrDetaches
<1>14. CASE PlayerDetached
  BY <1>14 DEF PlayerDetached
<1>15. CASE FfmpegListens
  BY <1>15 DEF FfmpegListens
<1>16. CASE FfmpegEnds
  BY <1>16 DEF FfmpegEnds
<1>17. CASE UNCHANGED vars
  BY <1>17 DEF vars
<1>18. QED
  BY <1>1, <1>2, <1>3, <1>4, <1>5, <1>6, <1>7, <1>8, <1>9, <1>10, <1>11, <1>12, <1>13, <1>14, <1>15, <1>16, <1>17
     DEF Next, UiSteps, Queries

\* The object a stop_video runs on stays the only one.
LEMMA ObjectStep ==
  ASSUME TypeOK, Flow, ~overlap', ~overlap, Alone, ObjectKept, [Next]_vars
  PROVE  ObjectKept'
<1> USE DEF TypeOK, Flow, Stopping, Opening, Threads, Pids, Goto, objVars, procVars, fileVars, histVars,
           Alone, Busy, ObjectKept
<1>1. ASSUME NEW t \in Threads, StopSteps(t)
      PROVE  ObjectKept'
  <2>1. CASE CheckTranscoder(t)
    BY <2>1 DEF CheckTranscoder
  <2>2. CASE StopLoaders(t)
    BY <2>2 DEF StopLoaders, Cleanup
  <2>3. CASE TestPid(t)
    BY <2>3 DEF TestPid
  <2>4. CASE KillFfmpeg(t)
    BY <2>4 DEF KillFfmpeg
  <2>5. CASE WaitFfmpeg(t)
    BY <2>5 DEF WaitFfmpeg
  <2>6. CASE ClearPid(t)
    BY <2>6 DEF ClearPid, AfterStop, Cleanup
  <2>7. CASE UnlinkFiles(t)
    BY <2>7 DEF UnlinkFiles, AfterStop, Cleanup
  <2>8. QED
    BY <1>1, <2>1, <2>2, <2>3, <2>4, <2>5, <2>6, <2>7 DEF StopSteps
<1>2. CASE PlayVideo
  BY <1>2 DEF PlayVideo, Query
<1>3. CASE StopVideo \/ ErrorVideo
  BY <1>3 DEF StopVideo, ErrorVideo, Query
<1>4. CASE PauseVideo \/ SeekVideo
  BY <1>4 DEF PauseVideo, SeekVideo, Query
<1>5. CASE ResumeVideo
  BY <1>5 DEF ResumeVideo, Query
<1>6. CASE TellVdr
  BY <1>6 DEF TellVdr
<1>7. CASE DeleteTranscoder \/ NullTranscoder
  BY <1>7 DEF DeleteTranscoder, NullTranscoder
<1>8. CASE NewTranscoder
  BY <1>8 DEF NewTranscoder
<1>9. CASE SetInput
  BY <1>9 DEF SetInput
<1>10. CASE MakeTransparent \/ VideoFailed
  BY <1>10 DEF MakeTransparent, VideoFailed
<1>11. CASE ForkFfmpeg
  BY <1>11 DEF ForkFfmpeg, AfterFork, Unborn
<1>12. CASE StorePid
  BY <1>12 DEF StorePid, AfterFork
<1>13. CASE VdrDetaches
  BY <1>13 DEF VdrDetaches
<1>14. CASE PlayerDetached
  BY <1>14 DEF PlayerDetached
<1>15. CASE FfmpegListens
  BY <1>15 DEF FfmpegListens
<1>16. CASE FfmpegEnds
  BY <1>16 DEF FfmpegEnds
<1>17. CASE UNCHANGED vars
  BY <1>17 DEF vars
<1>18. QED
  BY <1>1, <1>2, <1>3, <1>4, <1>5, <1>6, <1>7, <1>8, <1>9, <1>10, <1>11, <1>12, <1>13, <1>14, <1>15, <1>16, <1>17
     DEF Next, UiSteps, Queries

\* A process that was not waited for stays within reach.
LEMMA ChildStep ==
  ASSUME TypeOK, Flow, ~overlap', ~overlap, Alone, ObjectKept, ChildKept, [Next]_vars
  PROVE  ChildKept'
<1> USE DEF TypeOK, Flow, Stopping, Opening, Threads, Pids, Goto, objVars, procVars, fileVars, histVars,
           Alone, Busy, ObjectKept, ChildKept, NoPid
<1>1. ASSUME NEW t \in Threads, StopSteps(t)
      PROVE  ChildKept'
  <2>1. CASE CheckTranscoder(t)
    BY <2>1 DEF CheckTranscoder
  <2>2. CASE StopLoaders(t)
    BY <2>2 DEF StopLoaders, Cleanup
  <2>3. CASE TestPid(t)
    BY <2>3 DEF TestPid
  <2>4. CASE KillFfmpeg(t)
    BY <2>4, KillEffect DEF KillFfmpeg
  <2>5. CASE WaitFfmpeg(t)
    BY <2>5, WaitEffect DEF WaitFfmpeg
  <2>6. CASE ClearPid(t)
    BY <2>6 DEF ClearPid, AfterStop, Cleanup
  <2>7. CASE UnlinkFiles(t)
    BY <2>7 DEF UnlinkFiles, AfterStop, Cleanup
  <2>8. QED
    BY <1>1, <2>1, <2>2, <2>3, <2>4, <2>5, <2>6, <2>7 DEF StopSteps
<1>2. CASE PlayVideo
  BY <1>2 DEF PlayVideo, Query
<1>3. CASE StopVideo \/ ErrorVideo
  BY <1>3 DEF StopVideo, ErrorVideo, Query
<1>4. CASE PauseVideo \/ SeekVideo
  BY <1>4 DEF PauseVideo, SeekVideo, Query
<1>5. CASE ResumeVideo
  BY <1>5 DEF ResumeVideo, Query
<1>6. CASE TellVdr
  BY <1>6 DEF TellVdr
<1>7. CASE DeleteTranscoder \/ NullTranscoder
  BY <1>7 DEF DeleteTranscoder, NullTranscoder
<1>8. CASE NewTranscoder
  BY <1>8 DEF NewTranscoder
<1>9. CASE SetInput
  BY <1>9 DEF SetInput
<1>10. CASE MakeTransparent \/ VideoFailed
  BY <1>10 DEF MakeTransparent, VideoFailed
<1>11. CASE ForkFfmpeg
  <2>1. UNCHANGED <<command, transcoder>> /\ transcoder # 0 /\ pc["control"] = "idle"
    BY <1>11 DEF ForkFfmpeg
  <2>2. CASE child' \in Pids /\ proc' = [proc EXCEPT ![child'] = "running"]
             /\ pc' = [pc EXCEPT !["ui"] = "store"]
    <3>1. \A p \in Pids : proc[p] \notin {"running", "zombie"}
      BY <1>11, ForkEffect, MaxForksAssumption DEF ForkFfmpeg
    <3>2. QED
      BY <2>1, <2>2, <3>1, ForkEffect, <1>11, MaxForksAssumption
  <2>3. CASE UNCHANGED <<proc, child>> /\ pc' = [pc EXCEPT !["ui"] = AfterFork]
    BY <2>1, <2>3, ForkEffect, <1>11 DEF AfterFork, ForkFfmpeg
  <2>4. QED
    BY <1>11, <2>2, <2>3, ForkEffect
<1>12. CASE StorePid
  BY <1>12 DEF StorePid, AfterFork
<1>13. CASE VdrDetaches
  BY <1>13 DEF VdrDetaches
<1>14. CASE PlayerDetached
  BY <1>14 DEF PlayerDetached
<1>15. CASE FfmpegListens
  BY <1>15 DEF FfmpegListens
<1>16. CASE FfmpegEnds
  BY <1>16 DEF FfmpegEnds, Running
<1>17. CASE UNCHANGED vars
  BY <1>17 DEF vars
<1>18. QED
  BY <1>1, <1>2, <1>3, <1>4, <1>5, <1>6, <1>7, <1>8, <1>9, <1>10, <1>11, <1>12, <1>13, <1>14, <1>15, <1>16, <1>17
     DEF Next, UiSteps, Queries

\* VDR stays told of a video being opened.
LEMMA PlayToldStep ==
  ASSUME TypeOK, Flow, ~overlap', ~overlap, Alone, PlayTold, [Next]_vars
  PROVE  PlayTold'
<1> USE DEF TypeOK, Flow, Stopping, Opening, Threads, Pids, Goto, objVars, procVars, fileVars, histVars,
           Alone, Busy, PlayTold
<1>1. ASSUME NEW t \in Threads, StopSteps(t)
      PROVE  PlayTold'
  <2>1. CASE CheckTranscoder(t)
    BY <2>1 DEF CheckTranscoder
  <2>2. CASE StopLoaders(t)
    BY <2>2 DEF StopLoaders, Cleanup
  <2>3. CASE TestPid(t)
    BY <2>3 DEF TestPid
  <2>4. CASE KillFfmpeg(t)
    BY <2>4 DEF KillFfmpeg
  <2>5. CASE WaitFfmpeg(t)
    BY <2>5 DEF WaitFfmpeg
  <2>6. CASE ClearPid(t)
    BY <2>6 DEF ClearPid, AfterStop, Cleanup
  <2>7. CASE UnlinkFiles(t)
    BY <2>7 DEF UnlinkFiles, AfterStop, Cleanup
  <2>8. QED
    BY <1>1, <2>1, <2>2, <2>3, <2>4, <2>5, <2>6, <2>7 DEF StopSteps
<1>2. CASE PlayVideo
  BY <1>2 DEF PlayVideo, Query
<1>3. CASE StopVideo \/ ErrorVideo
  BY <1>3 DEF StopVideo, ErrorVideo, Query
<1>4. CASE PauseVideo \/ SeekVideo
  BY <1>4 DEF PauseVideo, SeekVideo, Query
<1>5. CASE ResumeVideo
  BY <1>5 DEF ResumeVideo, Query
<1>6. CASE TellVdr
  BY <1>6 DEF TellVdr
<1>7. CASE DeleteTranscoder \/ NullTranscoder
  BY <1>7 DEF DeleteTranscoder, NullTranscoder
<1>8. CASE NewTranscoder
  BY <1>8 DEF NewTranscoder
<1>9. CASE SetInput
  BY <1>9 DEF SetInput
<1>10. CASE MakeTransparent \/ VideoFailed
  BY <1>10 DEF MakeTransparent, VideoFailed
<1>11. CASE ForkFfmpeg
  BY <1>11 DEF ForkFfmpeg, AfterFork, Unborn
<1>12. CASE StorePid
  BY <1>12 DEF StorePid, AfterFork
<1>13. CASE VdrDetaches
  BY <1>13 DEF VdrDetaches
<1>14. CASE PlayerDetached
  BY <1>14 DEF PlayerDetached
<1>15. CASE FfmpegListens
  BY <1>15 DEF FfmpegListens
<1>16. CASE FfmpegEnds
  BY <1>16 DEF FfmpegEnds
<1>17. CASE UNCHANGED vars
  BY <1>17 DEF vars
<1>18. QED
  BY <1>1, <1>2, <1>3, <1>4, <1>5, <1>6, <1>7, <1>8, <1>9, <1>10, <1>11, <1>12, <1>13, <1>14, <1>15, <1>16, <1>17
     DEF Next, UiSteps, Queries

\* What VDR was told stays true, or is about to be.
LEMMA ToldStep ==
  ASSUME TypeOK, Flow, ~overlap', ~overlap, Alone, ObjectKept, ChildKept, PlayTold, Told, [Next]_vars
  PROVE  Told'
<1> USE DEF TypeOK, Flow, Stopping, Opening, Threads, Pids, Goto, objVars, procVars, fileVars, histVars,
           Alone, Busy, PlayTold, Told, Ending, Resuming
<1>1. ASSUME NEW t \in Threads, StopSteps(t)
      PROVE  Told'
  <2>1. CASE CheckTranscoder(t)
    <3>1. transcoder = 0 => Running = {}
      BY <2>1, NobodyRuns DEF CheckTranscoder, NoPid
    <3>2. QED
      BY <2>1, <3>1, SameRunning DEF CheckTranscoder
  <2>2. CASE StopLoaders(t)
    BY <2>2, SameRunning DEF StopLoaders, Cleanup
  <2>3. CASE TestPid(t)
    <3>1. ffmpegPid = 0 => Running = {}
      BY <2>3, NobodyRuns DEF TestPid
    <3>2. QED
      BY <2>3, <3>1, MaxForksAssumption, SameRunning DEF TestPid
  <2>4. CASE KillFfmpeg(t)
    BY <2>4, KillEffect DEF KillFfmpeg
  <2>5. CASE WaitFfmpeg(t)
    <3>1. Running' = {}
      BY <2>5, KilledAll, WaitEffect DEF WaitFfmpeg, Running
    <3>2. QED
      BY <3>1
  <2>6. CASE ClearPid(t)
    <3>1. Running' = {}
      BY <2>6, KilledAll, SameRunning DEF ClearPid
    <3>2. QED
      BY <3>1
  <2>7. CASE UnlinkFiles(t)
    <3>1. Running' = {}
      <4>1. NoPid /\ pc["ui"] # "store"
        BY <2>7 DEF UnlinkFiles, NoPid
      <4>2. QED
        BY <2>7, <4>1, NobodyRuns, SameRunning DEF UnlinkFiles
    <3>2. QED
      BY <3>1
  <2>8. QED
    BY <1>1, <2>1, <2>2, <2>3, <2>4, <2>5, <2>6, <2>7 DEF StopSteps
<1>2. CASE PlayVideo
  BY <1>2, SameRunning DEF PlayVideo, Query
<1>3. CASE StopVideo \/ ErrorVideo
  BY <1>3, SameRunning DEF StopVideo, ErrorVideo, Query
<1>4. CASE PauseVideo \/ SeekVideo
  BY <1>4, SameRunning DEF PauseVideo, SeekVideo, Query
<1>5. CASE ResumeVideo
  BY <1>5, SameRunning DEF ResumeVideo, Query
<1>6. CASE TellVdr
  <2>1. command # "resume" => Running' = {}
    BY <1>6, NobodyRuns, SameRunning DEF TellVdr, NoPid
  <2>2. QED
    BY <1>6, <2>1 DEF TellVdr
<1>7. CASE DeleteTranscoder \/ NullTranscoder
  BY <1>7, SameRunning DEF DeleteTranscoder, NullTranscoder
<1>8. CASE NewTranscoder
  BY <1>8, SameRunning DEF NewTranscoder
<1>9. CASE SetInput
  BY <1>9, SameRunning DEF SetInput
<1>10. CASE MakeTransparent \/ VideoFailed
  <2>1. Running' = {}
    BY <1>10, NobodyRuns, SameRunning DEF MakeTransparent, VideoFailed, NoPid
  <2>2. QED
    BY <2>1
<1>11. CASE ForkFfmpeg
  BY <1>11, ForkEffect, SameRunning DEF ForkFfmpeg, AfterFork, Unborn
<1>12. CASE StorePid
  BY <1>12, SameRunning DEF StorePid, AfterFork
<1>13. CASE VdrDetaches
  BY <1>13, SameRunning DEF VdrDetaches
<1>14. CASE PlayerDetached
  BY <1>14, SameRunning DEF PlayerDetached
<1>15. CASE FfmpegListens
  BY <1>15, SameRunning DEF FfmpegListens
<1>16. CASE FfmpegEnds
  <2>1. Running' \subseteq Running
    BY <1>16 DEF FfmpegEnds, Running
  <2>2. QED
    BY <1>16, <2>1 DEF FfmpegEnds
<1>17. CASE UNCHANGED vars
  BY <1>17, SameRunning DEF vars
<1>18. QED
  BY <1>1, <1>2, <1>3, <1>4, <1>5, <1>6, <1>7, <1>8, <1>9, <1>10, <1>11, <1>12, <1>13, <1>14, <1>15, <1>16, <1>17
     DEF Next, UiSteps, Queries

\* Nothing of an earlier object is left.
LEMMA OwnedStep ==
  ASSUME TypeOK, Flow, ~overlap', ~overlap, Alone, ObjectKept, ChildKept, Owned, [Next]_vars
  PROVE  Owned'
<1> USE DEF TypeOK, Flow, Stopping, Opening, Threads, Pids, Goto, objVars, procVars, fileVars, histVars,
           Alone, Busy, ObjectKept, Owned, Cleanup
<1>1. ASSUME NEW t \in Threads, StopSteps(t)
      PROVE  Owned'
  <2>1. CASE CheckTranscoder(t)
    BY <2>1, SameFiles DEF CheckTranscoder
  <2>2. CASE StopLoaders(t)
    BY <2>2, SameFiles DEF StopLoaders, Clean
  <2>3. CASE TestPid(t)
    BY <2>3, SameFiles DEF TestPid
  <2>4. CASE KillFfmpeg(t)
    BY <2>4, SameFiles DEF KillFfmpeg
  <2>5. CASE WaitFfmpeg(t)
    BY <2>5, SameFiles DEF WaitFfmpeg
  <2>6. CASE ClearPid(t)
    BY <2>6, SameFiles DEF ClearPid, AfterStop, Cleanup
  <2>7. CASE UnlinkFiles(t)
    BY <2>7, SameFiles DEF UnlinkFiles, AfterStop, Clean
  <2>8. QED
    BY <1>1, <2>1, <2>2, <2>3, <2>4, <2>5, <2>6, <2>7 DEF StopSteps
<1>2. CASE PlayVideo
  BY <1>2, SameFiles DEF PlayVideo, Query, Clean
<1>3. CASE StopVideo \/ ErrorVideo
  BY <1>3, SameFiles DEF StopVideo, ErrorVideo, Query
<1>4. CASE PauseVideo \/ SeekVideo
  BY <1>4, SameFiles DEF PauseVideo, SeekVideo, Query
<1>5. CASE ResumeVideo
  BY <1>5, SameFiles DEF ResumeVideo, Query
<1>6. CASE TellVdr
  BY <1>6, SameFiles DEF TellVdr
<1>7. CASE DeleteTranscoder \/ NullTranscoder
  BY <1>7, SameFiles DEF DeleteTranscoder, NullTranscoder, Clean
<1>8. CASE NewTranscoder
  BY <1>8 DEF NewTranscoder, Clean
<1>9. CASE SetInput
  BY <1>9, SameFiles DEF SetInput
<1>10. CASE MakeTransparent \/ VideoFailed
  BY <1>10, SameFiles DEF MakeTransparent, VideoFailed
<1>11. CASE ForkFfmpeg
  BY <1>11, SameFiles DEF ForkFfmpeg, AfterFork, Unborn
<1>12. CASE StorePid
  BY <1>12, SameFiles DEF StorePid, AfterFork
<1>13. CASE VdrDetaches
  BY <1>13, SameFiles DEF VdrDetaches
<1>14. CASE PlayerDetached
  BY <1>14, SameFiles DEF PlayerDetached
<1>15. CASE FfmpegListens
  <2>1. NoPid => pc["ui"] = "store"
    BY <1>15, NobodyRuns DEF FfmpegListens
  <2>2. QED
    BY <1>15, <2>1 DEF FfmpegListens, NoPid, Opening
<1>16. CASE FfmpegEnds
  BY <1>16, SameFiles DEF FfmpegEnds
<1>17. CASE UNCHANGED vars
  BY <1>17, SameFiles DEF vars
<1>18. QED
  BY <1>1, <1>2, <1>3, <1>4, <1>5, <1>6, <1>7, <1>8, <1>9, <1>10, <1>11, <1>12, <1>13, <1>14, <1>15, <1>16, <1>17
     DEF Next, UiSteps, Queries

\* What a stopped video leaves stays about to be removed.
LEMMA LeftStep ==
  ASSUME TypeOK, Flow, ~overlap', ~overlap, Alone, ObjectKept, ChildKept, PlayTold, Told, Owned, Left, [Next]_vars
  PROVE  Left'
<1> USE DEF TypeOK, Flow, Stopping, Opening, Threads, Pids, Goto, objVars, procVars, fileVars, histVars,
           Alone, Busy, Left, Ending, Resuming
<1>1. ASSUME NEW t \in Threads, StopSteps(t)
      PROVE  Left'
  <2>1. CASE CheckTranscoder(t)
    <3>1. transcoder = 0 => Clean
      BY DEF Owned
    <3>2. QED
      BY <2>1, <3>1, SameFiles DEF CheckTranscoder
  <2>2. CASE StopLoaders(t)
    BY <2>2 DEF StopLoaders, Clean
  <2>3. CASE TestPid(t)
    BY <2>3, SameFiles DEF TestPid
  <2>4. CASE KillFfmpeg(t)
    BY <2>4, SameFiles DEF KillFfmpeg
  <2>5. CASE WaitFfmpeg(t)
    BY <2>5, SameFiles DEF WaitFfmpeg
  <2>6. CASE ClearPid(t)
    BY <2>6, SameFiles DEF ClearPid, AfterStop, Cleanup
  <2>7. CASE UnlinkFiles(t)
    <3>1. Clean'
      BY <2>7 DEF UnlinkFiles, ObjectKept, Owned, Clean, Cleanup
    <3>2. QED
      BY <3>1
  <2>8. QED
    BY <1>1, <2>1, <2>2, <2>3, <2>4, <2>5, <2>6, <2>7 DEF StopSteps
<1>2. CASE PlayVideo
  BY <1>2 DEF PlayVideo, Query
<1>3. CASE StopVideo \/ ErrorVideo
  BY <1>3, SameFiles DEF StopVideo, ErrorVideo, Query
<1>4. CASE PauseVideo \/ SeekVideo
  BY <1>4, SameFiles DEF PauseVideo, SeekVideo, Query
<1>5. CASE ResumeVideo
  BY <1>5, SameFiles DEF ResumeVideo, Query
<1>6. CASE TellVdr
  BY <1>6, SameFiles DEF TellVdr
<1>7. CASE DeleteTranscoder \/ NullTranscoder
  BY <1>7, SameFiles DEF DeleteTranscoder, NullTranscoder
<1>8. CASE NewTranscoder
  BY <1>8, SameFiles DEF NewTranscoder
<1>9. CASE SetInput
  BY <1>9 DEF SetInput, PlayTold
<1>10. CASE MakeTransparent \/ VideoFailed
  BY <1>10 DEF MakeTransparent, VideoFailed, PlayTold
<1>11. CASE ForkFfmpeg
  BY <1>11, SameFiles DEF ForkFfmpeg, AfterFork, Unborn
<1>12. CASE StorePid
  BY <1>12, SameFiles DEF StorePid, AfterFork
<1>13. CASE VdrDetaches
  BY <1>13, SameFiles DEF VdrDetaches
<1>14. CASE PlayerDetached
  BY <1>14, SameFiles DEF PlayerDetached
<1>15. CASE FfmpegListens
  BY <1>15 DEF FfmpegListens, Told
<1>16. CASE FfmpegEnds
  BY <1>16, SameFiles DEF FfmpegEnds
<1>17. CASE UNCHANGED vars
  BY <1>17, SameFiles DEF vars
<1>18. QED
  BY <1>1, <1>2, <1>3, <1>4, <1>5, <1>6, <1>7, <1>8, <1>9, <1>10, <1>11, <1>12, <1>13, <1>14, <1>15, <1>16, <1>17
     DEF Next, UiSteps, Queries

\* Once the threads have met, they have met.
LEMMA OverlapStays == [Next]_vars /\ overlap => overlap'
<1> SUFFICES ASSUME [Next]_vars, overlap PROVE overlap'
  OBVIOUS
<1> USE DEF histVars
<1>1. CASE Queries
  BY <1>1 DEF Queries, PlayVideo, StopVideo, ErrorVideo, PauseVideo, SeekVideo, ResumeVideo, Query
<1>2. ASSUME NEW t \in Threads, StopSteps(t) PROVE overlap'
  BY <1>2 DEF StopSteps, CheckTranscoder, StopLoaders, TestPid, KillFfmpeg, WaitFfmpeg, ClearPid,
              UnlinkFiles
<1>3. CASE \/ TellVdr \/ DeleteTranscoder \/ NullTranscoder \/ NewTranscoder \/ SetInput
           \/ MakeTransparent \/ VideoFailed \/ ForkFfmpeg \/ StorePid
  BY <1>3 DEF TellVdr, DeleteTranscoder, NullTranscoder, NewTranscoder, SetInput, MakeTransparent,
              VideoFailed, ForkFfmpeg, StorePid
<1>4. CASE PlayerDetached \/ VdrDetaches \/ FfmpegListens \/ FfmpegEnds
  BY <1>4 DEF PlayerDetached, VdrDetaches, FfmpegListens, FfmpegEnds
<1>5. CASE UNCHANGED vars
  BY <1>5 DEF vars
<1>6. QED
  BY <1>1, <1>2, <1>3, <1>4, <1>5 DEF Next, UiSteps, Threads

\* The invariant is inductive.
LEMMA IInvStep == IInv /\ [Next]_vars => IInv'
<1> SUFFICES ASSUME IInv, [Next]_vars PROVE IInv'
  OBVIOUS
<1>1. TypeOK /\ Flow /\ TypeOK' /\ Flow'
  BY TypeFlowStep DEF IInv
<1>2. ASSUME ~overlap'
      PROVE  Alone' /\ ObjectKept' /\ ChildKept' /\ PlayTold' /\ Told' /\ Owned' /\ Left'
  <2>1. ~overlap /\ Alone /\ ObjectKept /\ ChildKept /\ PlayTold /\ Told /\ Owned /\ Left
    BY <1>2, OverlapStays DEF IInv
  <2>2. Alone' /\ ObjectKept' /\ ChildKept'
    BY <1>1, <1>2, <2>1, AloneStep, ObjectStep, ChildStep
  <2>3. PlayTold' /\ Told' /\ Owned' /\ Left'
    BY <1>1, <1>2, <2>1, PlayToldStep, ToldStep, OwnedStep, LeftStep
  <2>4. QED
    BY <2>2, <2>3
<1>3. QED
  BY <1>1, <1>2 DEF IInv

\* It holds throughout.
LEMMA Invariance == Spec => []IInv
  BY InitIInv, IInvStep, PTL DEF Spec

-----------------------------------------------------------------------------
(***************************************************************************)
(* What follows for every number of videos, processes and detachments.     *)
(***************************************************************************)
\* Every variable keeps its type, whatever the two threads overlap.
THEOREM TypeCorrect == Spec => []TypeOK
<1>1. IInv => TypeOK
  BY DEF IInv
<1>2. QED
  BY <1>1, Invariance, PTL

\* One ffmpeg at a time, and ffmpeg_pid names it when the commands are done:
\* stop_video can kill whatever fork_ffmpeg started.
THEOREM OneFfmpeg == Spec => []NoOrphan
<1>1. ASSUME IInv, ~overlap
      PROVE  Cardinality(Running) <= 1 /\ (Quiet => Running \subseteq {ffmpegPid})
  <2> DEFINE p == IF pc["ui"] = "store" THEN child ELSE ffmpegPid
  <2>1. Running \subseteq {p}
    BY <1>1 DEF IInv, ChildKept, Running
  <2>2. Running = {} \/ Running = {p}
    BY <2>1
  <2>3. Cardinality(Running) <= 1
    <3>1. Cardinality({}) = 0 /\ Cardinality({p}) = 1
      BY FS_EmptySet, FS_Singleton
    <3>2. QED
      BY <2>2, <3>1
  <2>4. Quiet => p = ffmpegPid
    BY DEF Quiet, Busy
  <2>5. QED
    BY <2>1, <2>3, <2>4
<1>2. IInv => NoOrphan
  BY <1>1 DEF NoOrphan
<1>3. QED
  BY <1>2, Invariance, PTL

\* stop_video kills only a child not waited for, and uses no deleted object.
THEOREM OwnChildKilled == Spec => []KillsOwnChild
<1>1. IInv => KillsOwnChild
  BY DEF IInv, Alone, KillsOwnChild
<1>2. QED
  BY <1>1, Invariance, PTL

\* VDR told "stopped", "paused" or "failed" is told so of no ffmpeg that plays.
THEOREM VdrKnows == Spec => []ToldTheTruth
<1>1. IInv => ToldTheTruth
  BY DEF IInv, TypeOK, Told, Ending, Resuming, ToldTheTruth, Quiet, Busy
<1>2. QED
  BY <1>1, Invariance, PTL

\* A stopped video leaves no loader, no socket and no transparent video.
THEOREM StopCleansUp == Spec => []NothingLeft
<1>1. IInv => NothingLeft
  BY DEF IInv, TypeOK, Left, Clean, Ending, Resuming, Stopping, NothingLeft, Quiet, Busy
<1>2. QED
  BY <1>1, Invariance, PTL

-----------------------------------------------------------------------------
(***************************************************************************)
(* TranscodeSettings: the numbers.                                         *)
(***************************************************************************)
\* udp_packet_size makes whole packets of any number.
LEMMA PacketSizeWhole == \A n \in Nat : Whole(PacketSize(n))
<1> SUFFICES ASSUME NEW n \in Nat PROVE Whole(PacketSize(n))
  OBVIOUS
<1>1. 1316 % 188 = 0
  OBVIOUS
<1>2. CASE 1 <= n /\ n <= 187
  <2>1. n \in 1 .. 187
    BY <1>2
  <2>2. 188 <= 188 * n /\ 188 * n <= 65424 /\ (188 * n) % 188 = 0
    BY <1>2
  <2>3. PacketSize(n) = 188 * n
    BY <2>1, <2>2 DEF PacketSize
  <2> QED
    BY <2>2, <2>3 DEF Whole
<1>3. CASE n > 65424
  <2>1. n \notin 1 .. 187
    BY <1>3
  <2>2. PacketSize(n) = 1316
    BY <1>1, <1>3, <2>1 DEF PacketSize
  <2> QED
    BY <1>1, <2>2 DEF Whole
<1>4. CASE n = 0 \/ (188 <= n /\ n <= 65424)
  <2>1. n \notin 1 .. 187 /\ ~(n > 65424)
    BY <1>4
  <2>2. PacketSize(n) = IF n % 188 # 0 THEN 1316 ELSE n
    BY <2>1 DEF PacketSize
  <2> QED
    BY <1>1, <1>4, <2>2 DEF Whole
<1> QED
  BY <1>2, <1>3, <1>4

\* It makes a number of it.
LEMMA PacketSizeType == \A n \in Nat : PacketSize(n) \in Nat
BY DEF PacketSize

\* What strtoul returns becomes a value of a uint32_t.
LEMMA UintType == \A n \in Nat : ToUint(n) \in 0 .. Word - 1
  BY WordAssumption DEF ToUint

\* Hours, minutes, seconds and milliseconds add up.
LEMMA AddUp ==
  ASSUME NEW h \in Int, NEW m \in Int, NEW sec \in Int, NEW milli \in Int,
         NEW rest \in Int, NEW s \in Int, NEW ms \in Int,
         rest - m * 60 = sec, rest = s - h * 3600, ms - s * 1000 = milli
  PROVE  ((h * 60 + m) * 60 + sec) * 1000 + milli = ms
  OBVIOUS

\* ms_to_ffmpeg_time loses nothing.
LEMMA TimeOfExact ==
  ASSUME NEW ms \in Nat
  PROVE  LET t == TimeOf(ms)
         IN /\ t[2] < 60 /\ t[3] < 60 /\ t[4] < 1000
            /\ ((t[1] * 60 + t[2]) * 60 + t[3]) * 1000 + t[4] = ms
<1> DEFINE s == ms \div 1000
           hours == s \div 3600
           rest == s - hours * 3600
<1>1. s \in Nat /\ ms % 1000 \in 0 .. 999 /\ ms - s * 1000 = ms % 1000
  OBVIOUS
<1> HIDE DEF s
<1>2. hours \in Nat /\ rest \in 0 .. 3599 /\ rest % 60 = s % 60
  BY <1>1
<1>3. rest = s - hours * 3600
  OBVIOUS
<1>4. TimeOf(ms) = <<hours, rest \div 60, s % 60, ms % 1000>>
  BY DEF TimeOf, s
<1> HIDE DEF hours, rest
<1>5. rest \div 60 \in 0 .. 59 /\ rest % 60 \in 0 .. 59 /\ rest - (rest \div 60) * 60 = rest % 60
  BY <1>2
<1> DEFINE m == rest \div 60
           sec == s % 60
           milli == ms % 1000
<1>6. m \in Int /\ rest - m * 60 = sec /\ sec \in 0 .. 59 /\ milli \in 0 .. 999 /\ m < 60
  BY <1>1, <1>2, <1>5
<1>7. ms - s * 1000 = milli /\ s \in Int /\ rest \in Int /\ hours \in Int
  BY <1>1, <1>2
<1>8. TimeOf(ms) = <<hours, m, sec, milli>>
  BY <1>4
<1> HIDE DEF m, sec, milli
<1>9. ((hours * 60 + m) * 60 + sec) * 1000 + milli = ms
  BY <1>3, <1>6, <1>7, AddUp
<1>10. QED
  BY <1>6, <1>8, <1>9

-----------------------------------------------------------------------------
(***************************************************************************)
(* TranscodeSettings: the inductive invariant.                             *)
(***************************************************************************)
\* Nothing has been asked of ffprobe while the file is read, and nothing runs
\* before the input is set.
Phases ==
  /\ phase = "config" => ~isDash /\ due = "codec" /\ reported = {} /\ ~noisy
  /\ phase = "ffprobe" => ~isDash
  /\ phase \in {"config", "ffprobe", "ready"} => ffmpeg = NotRunning

\* Counting lines finds the codecs as long as nothing else is printed.
Counted ==
  /\ phase = "ffprobe" => copying \subseteq reported
  /\ (phase = "ffprobe" /\ ~noisy) => copying = reported /\ (due = "codec" <=> lines % 2 = 0)
  /\ (phase \in {"ready", "started", "failed"} /\ ~isDash) =>
       /\ copying \subseteq reported
       /\ ~noisy => reported \ always \subseteq copying

\* What the command says comes from the fields.
Command ==
  Runs =>
    /\ copying \cap always = {}
    /\ \A k \in Kinds : ffmpeg[k] = IF k \in copying /\ ~(isDash /\ k = "audio")
                                    THEN "copy" ELSE "encode"
    /\ ffmpeg.output[1] = "UDP" => ffmpeg.output[2] = packetSize
    /\ asked \in Nat
    /\ ffmpeg.start = TimeOf(IF resumed THEN (asked \div 1000) * 1000 ELSE asked)

SettingsInv == SettingsTypeOK /\ Phases /\ Counted /\ Command /\ Whole(packetSize)

-----------------------------------------------------------------------------
(***************************************************************************)
(* One lemma for each part, one case for each action.                      *)
(***************************************************************************)
\* The initial states satisfy the invariant.
LEMMA SettingsInvInit == SettingsInit => SettingsInv
<1> SUFFICES ASSUME SettingsInit PROVE SettingsInv
  OBVIOUS
<1>1. SettingsTypeOK
  <2>1. 0 \in 0 .. MaxLines /\ 1316 \in 0 .. Word - 1 /\ 31960 \in 0 .. Word - 1
    BY WordAssumption, LinesAssumption
  <2>2. lines = 0 /\ packetSize = 1316 /\ bufferSize = 31960 /\ asked = 0
    BY DEF SettingsInit
  <2>3. /\ phase = "config" /\ protocol \in Protocols /\ copying \subseteq Kinds
        /\ always \subseteq Kinds /\ reported \subseteq Kinds /\ due = "codec"
        /\ ffmpeg = NotRunning
    BY DEF SettingsInit
  <2>4. isDash \in BOOLEAN /\ known \in BOOLEAN /\ noisy \in BOOLEAN /\ resumed \in BOOLEAN
    <3>1. isDash = FALSE /\ known = FALSE /\ noisy = FALSE /\ resumed = FALSE
      BY DEF SettingsInit
    <3>2. QED
      BY <3>1
  <2>5. QED
    BY <2>1, <2>2, <2>3, <2>4 DEF SettingsTypeOK
<1>2. Phases /\ Counted /\ Command
  BY DEF SettingsInit, Phases, Counted, Command, Runs
<1>3. Whole(packetSize)
  BY DEF SettingsInit, Whole
<1>4. QED
  BY <1>1, <1>2, <1>3 DEF SettingsInv

\* Every step keeps every variable's type.
LEMMA TypeStep == SettingsTypeOK /\ [SettingsNext]_settingsVars => SettingsTypeOK'
<1> SUFFICES ASSUME SettingsTypeOK, [SettingsNext]_settingsVars PROVE SettingsTypeOK'
  OBVIOUS
<1> USE DEF SettingsTypeOK, Kinds, Protocols, configVars, probeVars, runVars
<1>1. CASE Config
  <2>1. \A n \in Numbers : ToUint(n) \in 0 .. Word - 1 /\ PacketSize(ToUint(n)) \in 0 .. Word - 1
    <3>1. \A n \in Numbers : ToUint(n) \in 0 .. Word - 1
      BY UintType, NumbersAssumption
    <3>2. \A n \in Numbers : Whole(PacketSize(ToUint(n))) /\ PacketSize(ToUint(n)) \in Nat
      BY <3>1, PacketSizeWhole, PacketSizeType, WordAssumption
    <3>3. \A size \in Nat : Whole(size) => size \in 0 .. Word - 1
      BY WordAssumption DEF Whole
    <3>4. QED
      BY <3>1, <3>2, <3>3
  <2>2. lines' \in 0 .. MaxLines \cup 0 .. MaxOutput
    BY <1>1, LinesAssumption DEF Config, ReadPacketSize, ReadBufferSize, ReadTransport,
       ReadAlwaysEncode, ConfigLine
  <2>3. QED
    BY <1>1, <2>1, <2>2 DEF Config, ReadPacketSize, ReadBufferSize, ReadTransport,
       ReadAlwaysEncode, ConfigLine
<1>2. CASE SetInputDash \/ RefuseInput \/ ProbeEnds
  BY <1>2 DEF SetInputDash, RefuseInput, ProbeEnds
<1>3. CASE StartFfprobe
  BY <1>3, LinesAssumption DEF StartFfprobe
<1>4. CASE ProbeCodec \/ ProbeDuration \/ ProbeError
  <2>1. lines' \in 0 .. MaxOutput
    <3>1. lines < MaxOutput /\ lines' = lines + 1
      BY <1>4 DEF ProbeCodec, ProbeDuration, ProbeError, ProbeLine
    <3>2. lines \in Nat
      BY LinesAssumption
    <3>3. QED
      BY <3>1, <3>2, LinesAssumption
  <2>2. QED
    BY <1>4, <2>1 DEF ProbeCodec, ProbeDuration, ProbeError, ProbeLine
<1>5. CASE Forks
  <2>1. PICK ms : BuildCommand(ms)
    BY <1>5 DEF Forks, ForkAtInput, ForkAtSeek, ForkAtResume
  <2>2. /\ copying' \subseteq Kinds /\ DOMAIN ffmpeg' = DOMAIN NotRunning
        /\ UNCHANGED <<lines, configVars, isDash, due, known, reported, noisy>>
    BY <2>1 DEF BuildCommand, NotRunning
  <2>3. asked' \in {0} \cup Starts /\ phase' \in {phase, "started"}
    BY <1>5 DEF Forks, ForkAtInput, ForkAtSeek, ForkAtResume
  <2>4. resumed' \in BOOLEAN
    BY <1>5 DEF Forks, ForkAtInput, ForkAtSeek, ForkAtResume
  <2>5. QED
    BY <2>2, <2>3, <2>4
<1>6. CASE UNCHANGED settingsVars
  BY <1>6 DEF settingsVars
<1>7. QED
  BY <1>1, <1>2, <1>3, <1>4, <1>5, <1>6 DEF SettingsNext, ProbeInput

\* Every step keeps what belongs to the phases.
LEMMA PhasesStep == Phases /\ [SettingsNext]_settingsVars => Phases'
<1> SUFFICES ASSUME Phases, [SettingsNext]_settingsVars PROVE Phases'
  OBVIOUS
<1> USE DEF Phases, configVars, probeVars, runVars
<1>1. CASE Config
  BY <1>1 DEF Config, ReadPacketSize, ReadBufferSize, ReadTransport, ReadAlwaysEncode, ConfigLine
<1>2. CASE SetInputDash \/ RefuseInput \/ StartFfprobe \/ ProbeEnds
  BY <1>2 DEF SetInputDash, RefuseInput, StartFfprobe, ProbeEnds
<1>5. CASE ProbeCodec \/ ProbeDuration \/ ProbeError
  <2>1. phase = "ffprobe" /\ UNCHANGED <<phase, isDash, ffmpeg>>
    BY <1>5 DEF ProbeCodec, ProbeDuration, ProbeError, ProbeLine
  <2>2. QED
    BY <2>1
<1>3. CASE Forks
  BY <1>3 DEF Forks, ForkAtInput, ForkAtSeek, ForkAtResume, Settled, BuildCommand
<1>4. CASE UNCHANGED settingsVars
  BY <1>4 DEF settingsVars
<1>6. QED
  BY <1>1, <1>2, <1>3, <1>4, <1>5 DEF SettingsNext, ProbeInput

\* Counting lines goes on to find the codecs.
LEMMA CountedStep == SettingsTypeOK /\ Phases /\ Counted /\ [SettingsNext]_settingsVars => Counted'
<1> SUFFICES ASSUME SettingsTypeOK, Phases, Counted, [SettingsNext]_settingsVars PROVE Counted'
  OBVIOUS
<1> USE DEF Counted, configVars, probeVars, runVars
<1>1. CASE Config
  BY <1>1 DEF Config, ReadPacketSize, ReadBufferSize, ReadTransport, ReadAlwaysEncode, ConfigLine
<1>2. CASE SetInputDash \/ RefuseInput
  BY <1>2 DEF SetInputDash, RefuseInput
<1>3. CASE StartFfprobe
  BY <1>3 DEF StartFfprobe, Phases
<1>4. (lines + 1) % 2 = 0 <=> lines % 2 # 0
  <2>1. lines \in Nat
    BY LinesAssumption DEF SettingsTypeOK
  <2>2. QED
    BY <2>1
<1>5. CASE ProbeCodec
  <2>1. phase = "ffprobe" /\ phase' = phase /\ lines' = lines + 1 /\ due = "codec" /\ due' = "duration"
        /\ noisy' = noisy /\ isDash' = isDash /\ always' = always
    BY <1>5 DEF ProbeCodec, ProbeLine
  <2>2. copying' \subseteq reported' /\ (lines % 2 = 0 /\ copying = reported => copying' = reported')
    BY <1>5, <2>1 DEF ProbeCodec, TakesAsCodec
  <2>3. lines' % 2 = 0 <=> lines % 2 # 0
    BY <1>4, <2>1
  <2>4. QED
    BY <2>1, <2>2, <2>3
<1>6. CASE ProbeDuration
  <2>1. phase = "ffprobe" /\ phase' = phase /\ lines' = lines + 1 /\ due = "duration" /\ due' = "codec"
        /\ noisy' = noisy /\ isDash' = isDash /\ always' = always
        /\ copying' = copying /\ reported' = reported
    BY <1>6 DEF ProbeDuration, ProbeLine
  <2>2. lines' % 2 = 0 <=> lines % 2 # 0
    BY <1>4, <2>1
  <2>3. QED
    BY <2>1, <2>2, Zenon
<1>7. CASE ProbeError
  <2>1. phase' = "ffprobe" /\ noisy' /\ copying' \subseteq reported'
    BY <1>7 DEF ProbeError, ProbeLine
  <2>2. QED
    BY <2>1
<1>10. CASE ProbeEnds
  <2>1. /\ phase = "ffprobe" /\ phase' # "ffprobe"
        /\ UNCHANGED <<copying, reported, isDash, always, noisy>>
    BY <1>10 DEF ProbeEnds
  <2>2. QED
    BY <2>1
<1>8. CASE Forks
  BY <1>8 DEF Forks, ForkAtInput, ForkAtSeek, ForkAtResume, Settled, BuildCommand
<1>9. CASE UNCHANGED settingsVars
  BY <1>9 DEF settingsVars
<1>11. QED
  BY <1>1, <1>2, <1>3, <1>5, <1>6, <1>7, <1>8, <1>9, <1>10 DEF SettingsNext, ProbeInput

\* fork_ffmpeg says in the command what the fields are, and they stay.
LEMMA CommandStep == SettingsTypeOK /\ Phases /\ Command /\ [SettingsNext]_settingsVars => Command'
<1> SUFFICES ASSUME SettingsTypeOK, Phases, Command, [SettingsNext]_settingsVars PROVE Command'
  OBVIOUS
<1> USE DEF configVars, probeVars, runVars
<1>1. CASE Config \/ ProbeInput
  <2>1. phase \in {"config", "ffprobe"} /\ UNCHANGED ffmpeg
    BY <1>1 DEF Config, ReadPacketSize, ReadBufferSize, ReadTransport, ReadAlwaysEncode, ConfigLine,
       ProbeInput, SetInputDash, RefuseInput, StartFfprobe, ProbeCodec, ProbeDuration, ProbeError,
       ProbeEnds, ProbeLine
  <2>2. QED
    BY <2>1 DEF Phases, Command, Runs
<1>2. CASE Forks
  <2>1. PICK ms \in Nat :
          /\ asked' = ms
          /\ BuildCommand(IF resumed' THEN (ms \div 1000) * 1000 ELSE ms)
    <3>1. CASE ForkAtInput
      BY <3>1 DEF ForkAtInput
    <3>2. CASE ForkAtSeek
      BY <3>2, StartsAssumption DEF ForkAtSeek
    <3>3. CASE ForkAtResume
      BY <3>3, StartsAssumption DEF ForkAtResume
    <3>4. QED
      BY <1>2, <3>1, <3>2, <3>3 DEF Forks
  <2> DEFINE at == IF resumed' THEN (ms \div 1000) * 1000 ELSE ms
  <2>2. /\ ffmpeg' = [video |-> Encoding("video"), audio |-> Encoding("audio"),
                      start |-> TimeOf(at), output |-> Output]
        /\ copying' \cap always' = {} /\ UNCHANGED <<isDash, packetSize>>
    BY <2>1 DEF BuildCommand
  <2> HIDE DEF at
  <2>3. \A k \in Kinds : ffmpeg'[k] = IF k \in copying' /\ ~(isDash' /\ k = "audio")
                                     THEN "copy" ELSE "encode"
    BY <2>2 DEF Kinds, Encoding
  <2>4. ffmpeg'.output[1] = "UDP" => ffmpeg'.output[2] = packetSize'
    BY <2>2 DEF Output, SettingsTypeOK, Protocols
  <2>5. asked' \in Nat /\ ffmpeg'.start = TimeOf(IF resumed' THEN (asked' \div 1000) * 1000 ELSE asked')
    BY <2>1, <2>2 DEF at
  <2>6. QED
    BY <2>2, <2>3, <2>4, <2>5 DEF Command
<1>3. CASE UNCHANGED settingsVars
  BY <1>3 DEF settingsVars, Command, Runs
<1>4. QED
  BY <1>1, <1>2, <1>3 DEF SettingsNext

\* The packet size stays whole, whatever the file says.
LEMMA WholeStep == SettingsTypeOK /\ Whole(packetSize) /\ [SettingsNext]_settingsVars => Whole(packetSize')
<1> SUFFICES ASSUME Whole(packetSize), [SettingsNext]_settingsVars PROVE Whole(packetSize')
  OBVIOUS
<1> USE DEF configVars, probeVars, runVars
<1>1. CASE ReadPacketSize
  <2>1. \A n \in Numbers : ToUint(n) \in Nat
    BY UintType, NumbersAssumption, WordAssumption
  <2>2. QED
    BY <1>1, <2>1, PacketSizeWhole DEF ReadPacketSize
<1>2. CASE ReadBufferSize \/ ReadTransport \/ ReadAlwaysEncode \/ ProbeInput \/ Forks
  <2>1. packetSize' = packetSize
    BY <1>2 DEF ReadBufferSize, ReadTransport, ReadAlwaysEncode, ProbeInput, SetInputDash, RefuseInput,
       StartFfprobe, ProbeCodec, ProbeDuration, ProbeError, ProbeEnds, Forks, ForkAtInput, ForkAtSeek,
       ForkAtResume, BuildCommand
  <2>2. QED
    BY <2>1
<1>3. CASE UNCHANGED settingsVars
  BY <1>3 DEF settingsVars
<1>4. QED
  BY <1>1, <1>2, <1>3 DEF SettingsNext, Config

\* The invariant is inductive and holds throughout.
LEMMA SettingsInvariance == SettingsSpec => []SettingsInv
<1>1. SettingsInv /\ [SettingsNext]_settingsVars => SettingsInv'
  <2>1. ASSUME SettingsInv, [SettingsNext]_settingsVars PROVE SettingsTypeOK' /\ Phases' /\ Counted' /\ Command'
    BY <2>1, TypeStep, PhasesStep, CountedStep, CommandStep DEF SettingsInv
  <2>2. ASSUME SettingsInv, [SettingsNext]_settingsVars PROVE Whole(packetSize')
    BY <2>2, WholeStep DEF SettingsInv
  <2>3. QED
    BY <2>1, <2>2 DEF SettingsInv
<1>2. QED
  BY <1>1, SettingsInvInit, PTL DEF SettingsSpec

-----------------------------------------------------------------------------
(***************************************************************************)
(* What follows for every file, video and position.                        *)
(***************************************************************************)
\* Every variable keeps its type.
THEOREM SettingsTypeCorrect == SettingsSpec => []SettingsTypeOK
<1>1. SettingsInv => SettingsTypeOK
  BY DEF SettingsInv
<1>2. QED
  BY <1>1, SettingsInvariance, PTL

\* ffmpeg sends whole packets, of a size within the documented limits or 0.
THEOREM PacketsAreWhole == SettingsSpec => []WholePackets
<1>1. ASSUME SettingsInv PROVE WholePackets
  <2>1. Whole(packetSize)
    BY <1>1 DEF SettingsInv
  <2>2. Runs /\ ffmpeg.output[1] = "UDP" => ffmpeg.output[2] = packetSize
    BY <1>1 DEF SettingsInv, Command
  <2>3. QED
    BY <2>1, <2>2 DEF WholePackets
<1>2. QED
  BY <1>1, SettingsInvariance, PTL

\* Nothing is copied but what ffprobe reported as playable and nobody forbids;
\* without error messages all of it is.
THEOREM CopiesPlayable == SettingsSpec => []CopiesWhatVdrPlays
<1>1. SettingsInv => CopiesWhatVdrPlays
  BY DEF SettingsInv, Command, Counted, CopiesWhatVdrPlays
<1>2. QED
  BY <1>1, SettingsInvariance, PTL

\* What the file forces is transcoded, and the sound of a DASH stream always.
THEOREM ForcedIsTranscoded == SettingsSpec => []ForcedTranscoding
<1>1. ASSUME SettingsInv PROVE ForcedTranscoding
  <2>1. SUFFICES ASSUME Runs
                 PROVE  /\ \A k \in always : ffmpeg[k] = "encode"
                        /\ isDash => ffmpeg.audio = "encode"
    BY DEF ForcedTranscoding
  <2>2. \A k \in Kinds : k \in always => k \notin copying
    BY <1>1, <2>1 DEF SettingsInv, Command
  <2>3. QED
    BY <1>1, <2>1, <2>2 DEF SettingsInv, SettingsTypeOK, Command, Kinds
<1>2. QED
  BY <1>1, SettingsInvariance, PTL

\* ffmpeg starts at the millisecond a new input or a seek asks for; a resume
\* starts at the full second the position lies in.
THEOREM StartIsExact == SettingsSpec => []StartsWhereAsked
<1>1. ASSUME SettingsInv, Runs PROVE StartsWhereAsked
  <2>1. asked \in Nat /\ resumed \in BOOLEAN
    BY <1>1 DEF SettingsInv, Command, SettingsTypeOK
  <2> DEFINE second == asked \div 1000
             at == IF resumed THEN second * 1000 ELSE asked
  <2>2. second \in Nat /\ second * 1000 <= asked /\ asked < second * 1000 + 1000
    BY <2>1
  <2>3. ffmpeg.start = TimeOf(at)
    BY <1>1 DEF SettingsInv, Command
  <2> HIDE DEF second
  <2>4. at \in Nat /\ (IF resumed THEN at <= asked /\ asked < at + 1000 ELSE at = asked)
    BY <2>1, <2>2
  <2> HIDE DEF at
  <2>5. LET t == TimeOf(at)
        IN /\ t[2] < 60 /\ t[3] < 60 /\ t[4] < 1000
           /\ ((t[1] * 60 + t[2]) * 60 + t[3]) * 1000 + t[4] = at
    BY <2>4, TimeOfExact
  <2>6. QED
    BY <2>3, <2>4, <2>5 DEF StartsWhereAsked
<1>2. ASSUME ~Runs PROVE StartsWhereAsked
  BY <1>2 DEF StartsWhereAsked
<1>3. SettingsInv => StartsWhereAsked
  BY <1>1, <1>2
<1>4. QED
  BY <1>3, SettingsInvariance, PTL
=============================================================================
