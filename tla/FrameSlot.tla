----------------------------- MODULE FrameSlot -----------------------------
(***************************************************************************)
(* What the OSD handshake promises: one slot for one frame.  The browser   *)
(* fills the slot while it is free, VDR takes each announced frame once,   *)
(* and nobody changes the content between the announcement and the end of  *)
(* VDR's reading.                                                          *)
(***************************************************************************)
CONSTANT Content        \* what the shared segment may hold

VARIABLES slot,         \* "free", "filling", "full" or "reading"
          content       \* the shared segment

slotVars == <<slot, content>>

Init == /\ slot = "free"
        /\ content \in Content

Claim == /\ slot = "free"
         /\ slot' = "filling"
         /\ UNCHANGED content

Fill == /\ slot = "filling"
        /\ content' \in Content
        /\ UNCHANGED slot

Announce == /\ slot = "filling"
            /\ slot' = "full"
            /\ UNCHANGED content

Take == /\ slot = "full"
        /\ slot' = "reading"
        /\ UNCHANGED content

Release == /\ slot = "reading"
           /\ slot' = "free"
           /\ UNCHANGED content

Next == Claim \/ Fill \/ Announce \/ Take \/ Release

SafeSpec == Init /\ [][Next]_slotVars

\* An announced frame is read, and the slot comes back.
Spec == /\ SafeSpec
        /\ WF_slotVars(Announce) /\ WF_slotVars(Take) /\ WF_slotVars(Release)
=============================================================================
