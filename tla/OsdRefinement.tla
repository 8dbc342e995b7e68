--------------------------- MODULE OsdRefinement ---------------------------
(***************************************************************************)
(* The handshake implements FrameSlot as long as VDR only ever answers     *)
(* OSDU: no SENDOSD, no restart, no STOP.                                  *)
(***************************************************************************)
EXTENDS OsdHandshake

\* The slot is free again when VDR has read it: the answer is still on its way.
slotOf == IF PainterHolds THEN "filling"
          ELSE IF Announced THEN "full"
          ELSE IF vdrPc = "read" THEN "reading"
          ELSE "free"

Slot == INSTANCE FrameSlot WITH
          Content <- [frame : Frames, keyed : BOOLEAN],
          slot <- slotOf, content <- shm

\* Nothing but the answer to a frame unlocks the mutex.
Undisturbed == /\ MaxSendOsd = 0
               /\ MaxVdrRestarts = 0
               /\ MaxBrowserRestarts = 0
               /\ "STOP" \notin Commands

\* Every step of painting, announcing, reading and answering is a step of the
\* one-slot buffer, and every frame OnPaint announces is read by VDR.
OneSlotBuffer == Slot!Spec
=============================================================================
