---------------------------- MODULE OsdHandshake ----------------------------
(***************************************************************************)
(* The OSD handshake between the browser and VDR (osrhandler.cpp,          *)
(* browsercontrol.cpp, browserclient.cpp, browser.h).                      *)
(*                                                                         *)
(* One shared-memory segment carries the rendered page.  OnPaint, on the   *)
(* CEF UI thread, takes shm_mutex, copies the frame, recolours it, sends   *)
(* "OSDU" to VDR and returns WITHOUT unlocking.  The mutex is released by  *)
(* the control thread when VDR answers "OSDU", or when VDR asks for a      *)
(* repaint with "SENDOSD".  The answer names no frame, so the mutex is in  *)
(* effect a credit that travels UI -> toVdr -> VDR -> fromVdr -> control.  *)
(*                                                                         *)
(* Everything to VDR goes through one socket with a blocking nn_send: the  *)
(* UI thread, the heartbeat thread and the control thread all wait there   *)
(* when it is full.                                                        *)
(***************************************************************************)
EXTENDS Naturals, Sequences

CONSTANTS
  SendCap,             \* messages the VDR socket holds before nn_send blocks
  CommandCap,          \* bound: commands VDR keeps unanswered on its own account
  FrameCount,          \* bound: frame identities, reused cyclically
  Commands,            \* commands VDR may send besides SENDOSD
  MaxSendOsd,          \* bound: SENDOSD requests besides those after a restart
  MaxVdrRestarts,      \* bound: restarts of VDR
  MaxBrowserRestarts   \* bound: crashes of the browser

ASSUME SendCapAssumption    == SendCap \in Nat \ {0}
ASSUME CommandCapAssumption == CommandCap \in Nat \ {0}
ASSUME FrameCountAssumption == FrameCount \in Nat \ {0}
ASSUME CommandsAssumption   == Commands \subseteq {"PING", "PAUSE", "RESUME", "STOP"}
ASSUME BoundsAssumption     == /\ MaxSendOsd \in Nat
                               /\ MaxVdrRestarts \in Nat
                               /\ MaxBrowserRestarts \in Nat

VARIABLES
  locked,     \* OSRHandler::shm_mutex is held
  shm,        \* the segment: the frame last copied, and whether it is recoloured
  buffer,     \* the frame CEF hands to OnPaint
  dirty,      \* CEF has something to paint
  hidden,     \* WasHidden(true): CEF paints nothing
  uiPc,       \* the CEF UI thread
  ctlPc,      \* the control thread (BrowserControl::Start)
  hbPc,       \* the heartbeat thread
  toVdr,      \* PUSH socket to VDR, oldest message first
  fromVdr,    \* PULL socket from VDR, oldest command first
  vdrPc,      \* VDR's receiving thread
  vdrFrame,   \* the frame the OSDU it handles was sent for
  reopen,     \* VDR restarted and has not asked for the OSD since
  bounds,     \* how often each bounded event has happened
  stolen,     \* history: the mutex was released by something else than the
              \* answer to the frame it protects, and that frame's OSDU or a
              \* later one is still on its way
  lost        \* history: an OSDU or its answer got lost since the last unlock

threadVars == <<uiPc, ctlPc, hbPc>>
pageVars   == <<buffer, dirty, hidden>>
vdrVars    == <<vdrPc, vdrFrame, reopen>>
histVars   == <<bounds, stolen, lost>>
vars == <<locked, shm, buffer, dirty, hidden, uiPc, ctlPc, hbPc, toVdr,
          fromVdr, vdrPc, vdrFrame, reopen, bounds, stolen, lost>>

Frames == 0 .. FrameCount - 1

\* What the browser sends: CMD_OSD "OSDU", CMD_PING, and CMD_STATUS strings.
\* The frame is not in the message; it is recorded for the properties.
Osdu(f) == [kind |-> "OSDU", frame |-> f]
Other(k) == [kind |-> k, frame |-> 0]
Message == [kind : {"OSDU", "PING", "STATUS"}, frame : Frames]
Command == {"OSDU", "SENDOSD", "PING", "PAUSE", "RESUME", "STOP"}

-----------------------------------------------------------------------------
(***************************************************************************)
(* Where the credit may be.                                                *)
(***************************************************************************)
PainterHolds == uiPc \in {"copy", "recolour", "send"}
Announced == \E i \in DOMAIN toVdr : toVdr[i].kind = "OSDU"
VdrHolds == vdrPc \in {"read", "ack"}
Answered == \E i \in DOMAIN fromVdr : fromVdr[i] = "OSDU"
InFlight == PainterHolds \/ Announced \/ VdrHolds \/ Answered

\* SendToVdrString, SendToVdrOsd, SendToVdrPing: nn_send without NN_DONTWAIT.
Send(m) == /\ Len(toVdr) < SendCap
           /\ toVdr' = Append(toVdr, m)

-----------------------------------------------------------------------------
Init ==
  /\ locked = FALSE
  /\ shm = [frame |-> 0, keyed |-> TRUE]
  /\ buffer = 0
  /\ dirty = TRUE
  /\ hidden = TRUE           \* main() calls WasHidden(true)
  /\ uiPc = "idle"
  /\ ctlPc = "recv"
  /\ hbPc = "first"
  /\ toVdr = <<>>
  /\ fromVdr = <<>>
  /\ vdrPc = "idle"
  /\ vdrFrame = 0
  /\ reopen = FALSE
  /\ bounds = [sendOsd |-> 0, vdr |-> 0, browser |-> 0]
  /\ stolen = FALSE
  /\ lost = FALSE

-----------------------------------------------------------------------------
(***************************************************************************)
(* The CEF UI thread.                                                      *)
(***************************************************************************)
\* The page changes, and CEF notes that it has to paint.
PageChanges ==
  /\ ~dirty
  /\ dirty' = TRUE
  /\ UNCHANGED <<locked, shm, buffer, hidden, threadVars, toVdr, fromVdr,
                 vdrVars, histVars>>

OnPaint ==
  /\ uiPc = "idle"
  /\ dirty
  /\ ~hidden
  /\ uiPc' = "lock"
  /\ dirty' = FALSE
  /\ buffer' = (buffer + 1) % FrameCount
  /\ UNCHANGED <<locked, shm, hidden, ctlPc, hbPc, toVdr, fromVdr, vdrVars,
                 histVars>>

\* Mutant of OnPaintLock: OnPaint does not wait for the mutex.
OnPaintBarges ==
  /\ uiPc = "lock"
  /\ locked' = TRUE
  /\ uiPc' = "copy"
  /\ UNCHANGED <<shm, pageVars, ctlPc, hbPc, toVdr, fromVdr, vdrVars, histVars>>

\* shm_mutex.lock()
OnPaintLock ==
  /\ uiPc = "lock"
  /\ ~locked
  /\ locked' = TRUE
  /\ uiPc' = "copy"
  /\ UNCHANGED <<shm, pageVars, ctlPc, hbPc, toVdr, fromVdr, vdrVars, histVars>>

\* Mutant of OnPaintCopy: the recolouring is left out.
OnPaintCopyOnly ==
  /\ uiPc = "copy"
  /\ shm' = [frame |-> buffer, keyed |-> FALSE]
  /\ uiPc' = "send"
  /\ UNCHANGED <<locked, pageVars, ctlPc, hbPc, toVdr, fromVdr, vdrVars, histVars>>

\* memcpy: from here the segment holds pink pixels where the video shall be.
OnPaintCopy ==
  /\ uiPc = "copy"
  /\ shm' = [frame |-> buffer, keyed |-> FALSE]
  /\ uiPc' = "recolour"
  /\ UNCHANGED <<locked, pageVars, ctlPc, hbPc, toVdr, fromVdr, vdrVars, histVars>>

\* The loop that makes every 0xfffe2e9a pixel transparent.
OnPaintRecolour ==
  /\ uiPc = "recolour"
  /\ shm' = [shm EXCEPT !.keyed = TRUE]
  /\ uiPc' = "send"
  /\ UNCHANGED <<locked, pageVars, ctlPc, hbPc, toVdr, fromVdr, vdrVars, histVars>>

\* Mutant of OnPaintSend: OnPaint returns without telling VDR.
OnPaintForgets ==
  /\ uiPc = "send"
  /\ uiPc' = "idle"
  /\ UNCHANGED <<locked, shm, pageVars, ctlPc, hbPc, toVdr, fromVdr, vdrVars, histVars>>

\* SendToVdrOsd("OSDU", w, h); OnPaint returns with the mutex held.
OnPaintSend ==
  /\ uiPc = "send"
  /\ Send(Osdu(buffer))
  /\ uiPc' = "idle"
  /\ UNCHANGED <<locked, shm, pageVars, ctlPc, hbPc, fromVdr, vdrVars, histVars>>

\* OnQuery: page script makes the UI thread send a status or video message.
OnQuery ==
  /\ uiPc = "idle"
  /\ uiPc' = "status"
  /\ UNCHANGED <<locked, shm, pageVars, ctlPc, hbPc, toVdr, fromVdr, vdrVars,
                 histVars>>

OnQuerySend ==
  /\ uiPc = "status"
  /\ Send(Other("STATUS"))
  /\ uiPc' = "idle"
  /\ UNCHANGED <<locked, shm, pageVars, ctlPc, hbPc, fromVdr, vdrVars, histVars>>

-----------------------------------------------------------------------------
(***************************************************************************)
(* The control thread: one nn_recv, one handler.                           *)
(***************************************************************************)
Receive(c) == /\ ctlPc = "recv"
              /\ fromVdr # <<>>
              /\ Head(fromVdr) = c
              /\ fromVdr' = Tail(fromVdr)

\* Mutant of HandleOsdu: the answer unlocks nothing.
IgnoreOsdu ==
  /\ Receive("OSDU")
  /\ UNCHANGED <<locked, shm, pageVars, threadVars, toVdr, vdrVars, histVars>>

\* osdProcessed() on "OSDU": unlock, whichever frame was answered.  Unlocking
\* a free mutex leaves it free (undefined for std::mutex; this is what the
\* pthread mutex below it does).
HandleOsdu ==
  /\ Receive("OSDU")
  /\ locked' = FALSE
  /\ lost' = FALSE
  /\ UNCHANGED <<shm, pageVars, threadVars, toVdr, vdrVars, bounds>>
  /\ stolen' = (stolen /\ InFlight')

\* Mutant of HandleSendOsd: repaint without unlocking first.
InvalidateOnly ==
  /\ Receive("SENDOSD")
  /\ ctlPc' = "invalidate"
  /\ UNCHANGED <<locked, shm, pageVars, uiPc, hbPc, toVdr, vdrVars, histVars>>

\* osdProcessed() on "SENDOSD", then Invalidate(PET_VIEW) as a second step.
HandleSendOsd ==
  /\ Receive("SENDOSD")
  /\ locked' = FALSE
  /\ stolen' = (stolen \/ InFlight)
  /\ lost' = FALSE
  /\ ctlPc' = "invalidate"
  /\ UNCHANGED <<shm, pageVars, uiPc, hbPc, toVdr, vdrVars, bounds>>

\* Mutant of Invalidate: SENDOSD only unlocks.
NoInvalidate ==
  /\ ctlPc = "invalidate"
  /\ ctlPc' = "recv"
  /\ UNCHANGED <<locked, shm, pageVars, uiPc, hbPc, toVdr, fromVdr, vdrVars, histVars>>

Invalidate ==
  /\ ctlPc = "invalidate"
  /\ dirty' = TRUE
  /\ ctlPc' = "recv"
  /\ UNCHANGED <<locked, shm, buffer, hidden, uiPc, hbPc, toVdr, fromVdr,
                 vdrVars, histVars>>

\* SendToVdrPing: the only handler that can block on the socket to VDR.
HandlePing ==
  /\ Receive("PING")
  /\ ctlPc' = "pong"
  /\ UNCHANGED <<locked, shm, pageVars, uiPc, hbPc, toVdr, vdrVars, histVars>>

\* Mutant of Pong: the control thread sends under shm_mutex.
PongLocked ==
  /\ ctlPc = "pong"
  /\ ~locked
  /\ Send(Other("PING"))
  /\ ctlPc' = "recv"
  /\ UNCHANGED <<locked, shm, pageVars, uiPc, hbPc, fromVdr, vdrVars, histVars>>

Pong ==
  /\ ctlPc = "pong"
  /\ Send(Other("PING"))
  /\ ctlPc' = "recv"
  /\ UNCHANGED <<locked, shm, pageVars, uiPc, hbPc, fromVdr, vdrVars, histVars>>

\* PauseRender.
HandlePause ==
  /\ Receive("PAUSE")
  /\ hidden' = TRUE
  /\ UNCHANGED <<locked, shm, buffer, dirty, threadVars, toVdr, vdrVars, histVars>>

\* ResumeRender; CEF repaints a view that becomes visible.
HandleResume ==
  /\ Receive("RESUME")
  /\ hidden' = FALSE
  /\ dirty' = TRUE
  /\ UNCHANGED <<locked, shm, buffer, threadVars, toVdr, vdrVars, histVars>>

\* Stop: isRunning = false, the loop ends and the process signals itself.
HandleStop ==
  /\ Receive("STOP")
  /\ ctlPc' = "done"
  /\ UNCHANGED <<locked, shm, pageVars, uiPc, hbPc, toVdr, vdrVars, histVars>>

-----------------------------------------------------------------------------
(***************************************************************************)
(* The heartbeat thread: PING, SEND_INIT, then a PING every ten seconds.   *)
(***************************************************************************)
HeartbeatPing ==
  /\ hbPc \in {"first", "beat"}
  /\ Send(Other("PING"))
  /\ hbPc' = IF hbPc = "first" THEN "init" ELSE "sleep"
  /\ UNCHANGED <<locked, shm, pageVars, uiPc, ctlPc, fromVdr, vdrVars, histVars>>

HeartbeatInit ==
  /\ hbPc = "init"
  /\ Send(Other("STATUS"))
  /\ hbPc' = "sleep"
  /\ UNCHANGED <<locked, shm, pageVars, uiPc, ctlPc, fromVdr, vdrVars, histVars>>

HeartbeatWake ==
  /\ hbPc = "sleep"
  /\ hbPc' = "beat"
  /\ UNCHANGED <<locked, shm, pageVars, uiPc, ctlPc, toVdr, fromVdr, vdrVars,
                 histVars>>

-----------------------------------------------------------------------------
(***************************************************************************)
(* VDR (external): a receiving thread that reads the segment on OSDU and   *)
(* answers, and a user who makes it send commands.  Its answer never waits *)
(* for room: CommandCap bounds only the commands it sends on its own       *)
(* account.                                                                *)
(***************************************************************************)
VdrTakeOsdu ==
  /\ vdrPc = "idle"
  /\ toVdr # <<>>
  /\ Head(toVdr).kind = "OSDU"
  /\ toVdr' = Tail(toVdr)
  /\ vdrPc' = "read"
  /\ vdrFrame' = Head(toVdr).frame
  /\ UNCHANGED <<locked, shm, pageVars, threadVars, fromVdr, reopen, histVars>>

VdrTakeOther ==
  /\ vdrPc = "idle"
  /\ toVdr # <<>>
  /\ Head(toVdr).kind # "OSDU"
  /\ toVdr' = Tail(toVdr)
  /\ UNCHANGED <<locked, shm, pageVars, threadVars, fromVdr, vdrVars, histVars>>

VdrReadDone ==
  /\ vdrPc = "read"
  /\ vdrPc' = "ack"
  /\ UNCHANGED <<locked, shm, pageVars, threadVars, toVdr, fromVdr, vdrFrame,
                 reopen, histVars>>

VdrAck ==
  /\ vdrPc = "ack"
  /\ fromVdr' = Append(fromVdr, "OSDU")
  /\ vdrPc' = "idle"
  /\ UNCHANGED <<locked, shm, pageVars, threadVars, toVdr, vdrFrame, reopen,
                 histVars>>

VdrCommand ==
  /\ Len(fromVdr) < CommandCap
  /\ \E c \in Commands : fromVdr' = Append(fromVdr, c)
  /\ UNCHANGED <<locked, shm, pageVars, threadVars, toVdr, vdrVars, histVars>>

VdrSendOsd ==
  /\ Len(fromVdr) < CommandCap
  /\ bounds.sendOsd < MaxSendOsd
  /\ bounds' = [bounds EXCEPT !.sendOsd = @ + 1]
  /\ fromVdr' = Append(fromVdr, "SENDOSD")
  /\ UNCHANGED <<locked, shm, pageVars, threadVars, toVdr, vdrVars, stolen, lost>>

\* The user opens the application again after VDR came back.
VdrReopen ==
  /\ reopen
  /\ Len(fromVdr) < CommandCap
  /\ reopen' = FALSE
  /\ fromVdr' = Append(fromVdr, "SENDOSD")
  /\ UNCHANGED <<locked, shm, pageVars, threadVars, toVdr, vdrPc, vdrFrame, histVars>>

-----------------------------------------------------------------------------
(***************************************************************************)
(* Restarts.  What a dead VDR had received, and what it had not delivered, *)
(* is gone; likewise for a dead browser.                                   *)
(***************************************************************************)
VdrRestart ==
  /\ bounds.vdr < MaxVdrRestarts
  /\ bounds' = [bounds EXCEPT !.vdr = @ + 1]
  /\ \E k \in 0 .. Len(toVdr) : toVdr' = SubSeq(toVdr, k + 1, Len(toVdr))
  /\ \E k \in 0 .. Len(fromVdr) : fromVdr' = SubSeq(fromVdr, 1, k)
  /\ vdrPc' = "idle"
  /\ reopen' = TRUE
  /\ UNCHANGED <<locked, shm, pageVars, threadVars, vdrFrame>>
  /\ lost' = (locked /\ ~InFlight')
  /\ stolen' = (stolen /\ InFlight')

\* The browser ends after STOP, or crashes, and is started again; the segment
\* and VDR's part of the handshake survive.
BrowserRestart ==
  /\ \/ /\ ctlPc = "done"
        /\ UNCHANGED bounds
     \/ /\ ctlPc # "done"
        /\ bounds.browser < MaxBrowserRestarts
        /\ bounds' = [bounds EXCEPT !.browser = @ + 1]
  /\ \E k \in 0 .. Len(toVdr) : toVdr' = SubSeq(toVdr, 1, k)
  /\ \E k \in 0 .. Len(fromVdr) : fromVdr' = SubSeq(fromVdr, k + 1, Len(fromVdr))
  /\ locked' = FALSE
  /\ dirty' = TRUE
  /\ hidden' = TRUE
  /\ uiPc' = "idle"
  /\ ctlPc' = "recv"
  /\ hbPc' = "first"
  /\ lost' = FALSE
  /\ UNCHANGED <<shm, buffer, vdrVars>>
  /\ stolen' = InFlight'

-----------------------------------------------------------------------------
Ui == OnPaint \/ OnPaintLock \/ OnPaintCopy \/ OnPaintRecolour \/ OnPaintSend
        \/ OnQuery \/ OnQuerySend
Control == HandleOsdu \/ HandleSendOsd \/ Invalidate \/ HandlePing \/ Pong
             \/ HandlePause \/ HandleResume \/ HandleStop
Heartbeat == HeartbeatPing \/ HeartbeatInit \/ HeartbeatWake
VdrReceiver == VdrTakeOsdu \/ VdrTakeOther \/ VdrReadDone \/ VdrAck

Next == \/ PageChanges \/ Ui \/ Control \/ Heartbeat \/ VdrReceiver
        \/ VdrCommand \/ VdrSendOsd \/ VdrReopen
        \/ VdrRestart \/ BrowserRestart

Spec == Init /\ [][Next]_vars

(***************************************************************************)
(* Fairness: every thread is scheduled.  A sender blocked in nn_send is    *)
(* queued by the socket, so it gets room when room keeps appearing (SF).   *)
(* Nothing is assumed of the page, of the user or of restarts.             *)
(***************************************************************************)
Fairness == /\ WF_vars(OnPaintLock) /\ WF_vars(OnPaintCopy) /\ WF_vars(OnPaintRecolour)
            /\ SF_vars(OnPaintSend) /\ SF_vars(OnQuerySend)
            /\ SF_vars(OnPaint)
            /\ WF_vars(HandleOsdu \/ HandleSendOsd \/ HandlePing \/ HandlePause
                         \/ HandleResume \/ HandleStop)
            /\ WF_vars(Invalidate) /\ SF_vars(Pong)
            /\ SF_vars(HeartbeatPing) /\ SF_vars(HeartbeatInit)
            /\ WF_vars(VdrReceiver)

FairSpec == Spec /\ Fairness

-----------------------------------------------------------------------------
TypeOK ==
  /\ locked \in BOOLEAN
  /\ shm \in [frame : Frames, keyed : BOOLEAN]
  /\ buffer \in Frames
  /\ dirty \in BOOLEAN
  /\ hidden \in BOOLEAN
  /\ uiPc \in {"idle", "lock", "copy", "recolour", "send", "status"}
  /\ ctlPc \in {"recv", "invalidate", "pong", "done"}
  /\ hbPc \in {"first", "init", "sleep", "beat"}
  /\ toVdr \in Seq(Message)
  /\ Len(toVdr) <= SendCap
  /\ fromVdr \in Seq(Command)
  /\ vdrPc \in {"idle", "read", "ack"}
  /\ vdrFrame \in Frames
  /\ reopen \in BOOLEAN
  /\ bounds \in [sendOsd : 0 .. MaxSendOsd, vdr : 0 .. MaxVdrRestarts,
                 browser : 0 .. MaxBrowserRestarts]
  /\ stolen \in BOOLEAN
  /\ lost \in BOOLEAN

\* Unless SENDOSD (or a restart of the browser) released the mutex under a
\* frame that is still on its way, OnPaint never writes the segment while VDR
\* reads it: the hand-over by message protects the memory although the mutex
\* is unlocked by another thread than the one that locked it.
NoTornFrame ==
  ~stolen => ~(uiPc \in {"copy", "recolour"} /\ vdrPc = "read")

\* Under the same condition VDR reads exactly the frame its OSDU was sent for,
\* and never one whose video hole is still painted pink.
ReadsAnnouncedFrame ==
  (~stolen /\ vdrPc = "read") => shm = [frame |-> vdrFrame, keyed |-> TRUE]

\* The mutex is never held for nothing: while it is locked, a frame is being
\* painted, announced, read or answered, unless a restart lost the message
\* that would have unlocked it.
NoLostUnlock == locked => (InFlight \/ lost)

\* At most one frame is between OnPaint and its unlock, and the mutex is held
\* for it, so an answer can never unlock the mutex under a later frame.
OneCredit ==
  ~stolen =>
    /\ InFlight => locked
    /\ \A i, j \in DOMAIN toVdr :
         toVdr[i].kind = "OSDU" /\ toVdr[j].kind = "OSDU" => i = j
    /\ \A i, j \in DOMAIN fromVdr :
         fromVdr[i] = "OSDU" /\ fromVdr[j] = "OSDU" => i = j
    /\ PainterHolds => ~Announced /\ ~VdrHolds /\ ~Answered
    /\ Announced => ~VdrHolds /\ ~Answered
    /\ VdrHolds => ~Answered

\* A paint that waits for the mutex gets it and returns, as long as the
\* control thread runs and no restart swallowed the answer it waits for.
PaintReturns == (uiPc = "lock") ~> (uiPc = "idle" \/ lost \/ ctlPc = "done")

\* The same without the escape: nothing short of STOP keeps the UI thread in
\* OnPaint.  TODO:23 reports a browser that stops reacting and suspects
\* the OSDU mutex.
UiNeverFreezes == (uiPc = "lock") ~> (uiPc = "idle" \/ ctlPc = "done")

\* A UI thread frozen by a restart of VDR thaws when the user opens the
\* application again: SENDOSD alone gets the handshake going.
ReopenUnfreezes == SF_vars(VdrReopen) => UiNeverFreezes

\* VDR's request SENDOSD is followed by a new paint while the view is visible,
\* even when the UI thread was waiting for the mutex, unless a restart loses
\* the answer to a frame painted between the unlock and the Invalidate.
SendOsdRepaints ==
  (ctlPc = "invalidate") ~> (uiPc = "copy" \/ hidden \/ lost \/ ctlPc = "done")

\* The control thread always comes back to its socket: answering a PING never
\* waits for the mutex, nor for anything else that only this thread releases.
ControlReturns == (ctlPc = "pong") ~> (ctlPc = "recv")
=============================================================================
