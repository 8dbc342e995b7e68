----------------------------- MODULE OsdProofs -----------------------------
(***************************************************************************)
(* Proofs about OsdHandshake for every capacity, number of frames, set of  *)
(* commands and bound: type correctness, the inductive invariant of the    *)
(* credit, and the refinement of FrameSlot.                                *)
(***************************************************************************)
EXTENDS OsdRefinement, TLAPS

-----------------------------------------------------------------------------
(***************************************************************************)
(* Sequences: what a step does to the messages that are left.              *)
(***************************************************************************)
\* Removing the oldest message shifts the others by one place.
LEMMA TailElements ==
  ASSUME NEW S, NEW s \in Seq(S), s # <<>>
  PROVE  /\ Tail(s) \in Seq(S)
         /\ Len(Tail(s)) = Len(s) - 1
         /\ \A i \in DOMAIN Tail(s) : i + 1 \in DOMAIN s /\ Tail(s)[i] = s[i + 1]
         /\ \A i \in DOMAIN s : i # 1 => i - 1 \in DOMAIN Tail(s) /\ Tail(s)[i - 1] = s[i]
         /\ 1 \in DOMAIN s /\ Head(s) = s[1] /\ Head(s) \in S
  OBVIOUS

\* Appending keeps the messages and adds one place.
LEMMA AppendElements ==
  ASSUME NEW S, NEW s \in Seq(S), NEW m \in S
  PROVE  /\ Append(s, m) \in Seq(S)
         /\ Len(Append(s, m)) = Len(s) + 1
         /\ \A i \in DOMAIN s : i \in DOMAIN Append(s, m) /\ Append(s, m)[i] = s[i]
         /\ \A i \in DOMAIN Append(s, m) :
              IF i = Len(s) + 1 THEN Append(s, m)[i] = m
              ELSE i \in DOMAIN s /\ Append(s, m)[i] = s[i]
         /\ Len(s) + 1 \in DOMAIN Append(s, m)
  OBVIOUS

\* A piece of a sequence holds messages of the sequence, in different places.
LEMMA PieceElements ==
  ASSUME NEW S, NEW s \in Seq(S), NEW a \in Nat \ {0}, NEW b \in Nat, b <= Len(s)
  PROVE  /\ SubSeq(s, a, b) \in Seq(S)
         /\ Len(SubSeq(s, a, b)) <= Len(s)
         /\ \A i \in DOMAIN SubSeq(s, a, b) :
              i + a - 1 \in DOMAIN s /\ SubSeq(s, a, b)[i] = s[i + a - 1]
  OBVIOUS

-----------------------------------------------------------------------------
(***************************************************************************)
(* Type correctness.                                                       *)
(***************************************************************************)
\* The frame identities are a nonempty set closed under "next frame".
LEMMA FramesFacts ==
  /\ 0 \in Frames
  /\ \A f \in Frames : (f + 1) % FrameCount \in Frames
  BY FrameCountAssumption DEF Frames

\* The messages the browser sends are messages.
LEMMA MessageFacts ==
  /\ \A f \in Frames : Osdu(f) \in Message /\ Osdu(f).kind = "OSDU" /\ Osdu(f).frame = f
  /\ Other("PING") \in Message /\ Other("PING").kind # "OSDU"
  /\ Other("STATUS") \in Message /\ Other("STATUS").kind # "OSDU"
  BY FramesFacts DEF Osdu, Other, Message

\* The credit is somewhere or nowhere.
LEMMA FlagsAreBoolean == InFlight \in BOOLEAN /\ InFlight' \in BOOLEAN
  BY DEF InFlight, PainterHolds, Announced, VdrHolds, Answered

\* A blocking nn_send keeps the socket within its capacity.
LEMMA SendType ==
  ASSUME toVdr \in Seq(Message), Len(toVdr) <= SendCap, NEW m \in Message, Send(m)
  PROVE  toVdr' \in Seq(Message) /\ Len(toVdr') <= SendCap
  BY SendCapAssumption DEF Send

\* Every step keeps every variable's type: one case per action.
LEMMA TypeStep == TypeOK /\ [Next]_vars => TypeOK'
<1>1. ASSUME TypeOK, [Next]_vars
      PROVE  TypeOK'
  <2> USE DEF TypeOK, threadVars, pageVars, vdrVars, histVars
  <2>1. CASE PageChanges
    BY <1>1, <2>1 DEF PageChanges
  <2>2. CASE Ui
    <3>1. CASE OnPaint
      BY <1>1, <3>1, FramesFacts DEF OnPaint
    <3>2. CASE OnPaintLock
      BY <1>1, <3>2 DEF OnPaintLock
    <3>3. CASE OnPaintCopy
      BY <1>1, <3>3 DEF OnPaintCopy
    <3>4. CASE OnPaintRecolour
      BY <1>1, <3>4 DEF OnPaintRecolour
    <3>5. CASE OnPaintSend
      BY <1>1, <3>5, SendType, MessageFacts DEF OnPaintSend
    <3>6. CASE OnQuery
      BY <1>1, <3>6 DEF OnQuery
    <3>7. CASE OnQuerySend
      BY <1>1, <3>7, SendType, MessageFacts DEF OnQuerySend
    <3>8. QED
      BY <2>2, <3>1, <3>2, <3>3, <3>4, <3>5, <3>6, <3>7 DEF Ui
  <2>3. CASE Control
    <3>1. ASSUME NEW c, Receive(c)
          PROVE  fromVdr' \in Seq(Command)
      BY <1>1, <3>1 DEF Receive
    <3>2. CASE HandleOsdu
      BY <1>1, <3>1, <3>2, FlagsAreBoolean DEF HandleOsdu
    <3>3. CASE HandleSendOsd
      BY <1>1, <3>1, <3>3, FlagsAreBoolean DEF HandleSendOsd
    <3>4. CASE Invalidate
      BY <1>1, <3>4 DEF Invalidate
    <3>5. CASE HandlePing
      BY <1>1, <3>1, <3>5 DEF HandlePing
    <3>6. CASE Pong
      BY <1>1, <3>6, SendType, MessageFacts DEF Pong
    <3>7. CASE HandlePause
      BY <1>1, <3>1, <3>7 DEF HandlePause
    <3>8. CASE HandleResume
      <4>1. hidden' \in BOOLEAN /\ dirty' \in BOOLEAN
        BY <3>8 DEF HandleResume
      <4>2. UNCHANGED <<locked, shm, buffer, threadVars, toVdr, vdrVars, histVars>>
        BY <3>8 DEF HandleResume
      <4>3. fromVdr' \in Seq(Command)
        BY <3>1, <3>8 DEF HandleResume
      <4>4. QED
        BY <1>1, <4>1, <4>2, <4>3
    <3>9. CASE HandleStop
      BY <1>1, <3>1, <3>9 DEF HandleStop
    <3>10. QED
      BY <2>3, <3>2, <3>3, <3>4, <3>5, <3>6, <3>7, <3>8, <3>9 DEF Control
  <2>4. CASE Heartbeat
    <3>1. CASE HeartbeatPing
      BY <1>1, <3>1, SendType, MessageFacts DEF HeartbeatPing
    <3>2. CASE HeartbeatInit
      BY <1>1, <3>2, SendType, MessageFacts DEF HeartbeatInit
    <3>3. CASE HeartbeatWake
      BY <1>1, <3>3 DEF HeartbeatWake
    <3>4. QED
      BY <2>4, <3>1, <3>2, <3>3 DEF Heartbeat
  <2>5. CASE VdrReceiver
    <3>1. CASE VdrTakeOsdu
      <4>1. Head(toVdr) \in Message /\ Tail(toVdr) \in Seq(Message)
              /\ Len(Tail(toVdr)) <= SendCap
        BY <1>1, <3>1, SendCapAssumption DEF VdrTakeOsdu
      <4>2. Head(toVdr).frame \in Frames
        BY <4>1 DEF Message
      <4>3. QED
        BY <1>1, <3>1, <4>1, <4>2 DEF VdrTakeOsdu
    <3>2. CASE VdrTakeOther
      BY <1>1, <3>2, SendCapAssumption DEF VdrTakeOther
    <3>3. CASE VdrReadDone
      BY <1>1, <3>3 DEF VdrReadDone
    <3>4. CASE VdrAck
      BY <1>1, <3>4 DEF VdrAck, Command
    <3>5. QED
      BY <2>5, <3>1, <3>2, <3>3, <3>4 DEF VdrReceiver
  <2>6. CASE VdrCommand
    BY <1>1, <2>6, CommandsAssumption DEF VdrCommand, Command
  <2>7. CASE VdrSendOsd
    <3>1. bounds' \in [sendOsd : 0 .. MaxSendOsd, vdr : 0 .. MaxVdrRestarts,
                      browser : 0 .. MaxBrowserRestarts]
      <4>1. bounds.sendOsd < MaxSendOsd /\ bounds' = [bounds EXCEPT !.sendOsd = @ + 1]
        BY <2>7 DEF VdrSendOsd
      <4>2. QED
        BY <1>1, <4>1, BoundsAssumption
    <3>2. fromVdr' \in Seq(Command)
      BY <1>1, <2>7 DEF VdrSendOsd, Command
    <3>3. QED
      BY <1>1, <2>7, <3>1, <3>2 DEF VdrSendOsd
  <2>8. CASE VdrReopen
    <3>1. fromVdr' \in Seq(Command)
      BY <1>1, <2>8 DEF VdrReopen, Command
    <3>2. QED
      <4>1. reopen' \in BOOLEAN
        BY <2>8 DEF VdrReopen
      <4>2. UNCHANGED <<locked, shm, pageVars, threadVars, toVdr, vdrPc, vdrFrame, histVars>>
        BY <2>8 DEF VdrReopen
      <4>3. QED
        BY <1>1, <3>1, <4>1, <4>2
  <2>9. CASE VdrRestart
    <3>1. toVdr' \in Seq(Message) /\ Len(toVdr') <= SendCap
      <4>1. PICK k \in 0 .. Len(toVdr) : toVdr' = SubSeq(toVdr, k + 1, Len(toVdr))
        BY <2>9 DEF VdrRestart
      <4>2. QED
        BY <1>1, <4>1, PieceElements, SendCapAssumption
    <3>2. fromVdr' \in Seq(Command)
      <4>1. PICK k \in 0 .. Len(fromVdr) : fromVdr' = SubSeq(fromVdr, 1, k)
        BY <2>9 DEF VdrRestart
      <4>2. QED
        BY <1>1, <4>1, PieceElements
    <3>3. bounds' \in [sendOsd : 0 .. MaxSendOsd, vdr : 0 .. MaxVdrRestarts,
                      browser : 0 .. MaxBrowserRestarts]
      <4>1. bounds.vdr < MaxVdrRestarts /\ bounds' = [bounds EXCEPT !.vdr = @ + 1]
        BY <2>9 DEF VdrRestart
      <4>2. QED
        BY <1>1, <4>1, BoundsAssumption
    <3>4. lost' \in BOOLEAN /\ stolen' \in BOOLEAN
      BY <2>9, FlagsAreBoolean DEF VdrRestart
    <3>5. QED
      BY <1>1, <2>9, <3>1, <3>2, <3>3, <3>4 DEF VdrRestart
  <2>10. CASE BrowserRestart
    <3>1. toVdr' \in Seq(Message) /\ Len(toVdr') <= SendCap
      <4>1. PICK k \in 0 .. Len(toVdr) : toVdr' = SubSeq(toVdr, 1, k)
        BY <2>10 DEF BrowserRestart
      <4>2. QED
        BY <1>1, <4>1, PieceElements, SendCapAssumption
    <3>2. fromVdr' \in Seq(Command)
      <4>1. PICK k \in 0 .. Len(fromVdr) : fromVdr' = SubSeq(fromVdr, k + 1, Len(fromVdr))
        BY <2>10 DEF BrowserRestart
      <4>2. QED
        BY <1>1, <4>1, PieceElements
    <3>3. bounds' \in [sendOsd : 0 .. MaxSendOsd, vdr : 0 .. MaxVdrRestarts,
                      browser : 0 .. MaxBrowserRestarts]
      <4>1. \/ bounds' = bounds
            \/ /\ bounds.browser < MaxBrowserRestarts
               /\ bounds' = [bounds EXCEPT !.browser = @ + 1]
        BY <2>10 DEF BrowserRestart
      <4>2. QED
        BY <1>1, <4>1, BoundsAssumption
    <3>4. stolen' \in BOOLEAN
      BY <2>10, FlagsAreBoolean DEF BrowserRestart
    <3>5. QED
      BY <1>1, <2>10, <3>1, <3>2, <3>3, <3>4 DEF BrowserRestart
  <2>11. CASE UNCHANGED vars
    BY <1>1, <2>11 DEF vars
  <2>12. QED
    BY <1>1, <2>1, <2>2, <2>3, <2>4, <2>5, <2>6, <2>7, <2>8, <2>9, <2>10, <2>11 DEF Next
<1>2. QED
  BY <1>1

\* The initial values have their types.
LEMMA TypeInit == Init => TypeOK
<1> SUFFICES ASSUME Init PROVE TypeOK
  OBVIOUS
<1>1. toVdr \in Seq(Message) /\ Len(toVdr) <= SendCap /\ fromVdr \in Seq(Command)
  BY SendCapAssumption DEF Init
<1>2. shm \in [frame : Frames, keyed : BOOLEAN] /\ buffer \in Frames /\ vdrFrame \in Frames
  BY FramesFacts DEF Init
<1>3. bounds \in [sendOsd : 0 .. MaxSendOsd, vdr : 0 .. MaxVdrRestarts,
                  browser : 0 .. MaxBrowserRestarts]
  BY BoundsAssumption DEF Init
<1>4. QED
  BY <1>1, <1>2, <1>3 DEF Init, TypeOK

\* Every variable keeps its type: thread positions, sockets, frames, bounds.
THEOREM TypeCorrect == Spec => []TypeOK
  BY TypeInit, TypeStep, PTL DEF Spec

-----------------------------------------------------------------------------
(***************************************************************************)
(* The credit.  A socket is seen through the OSDU messages it holds: the   *)
(* frames they announce, whether there is one, and whether there are two.  *)
(***************************************************************************)
OsduFrames(s) == {s[i].frame : i \in {j \in DOMAIN s : s[j].kind = "OSDU"}}
Single(s) == \A i, j \in DOMAIN s : s[i].kind = "OSDU" /\ s[j].kind = "OSDU" => i = j
Answers(s) == \E i \in DOMAIN s : s[i] = "OSDU"
SingleAnswer(s) == \A i, j \in DOMAIN s : s[i] = "OSDU" /\ s[j] = "OSDU" => i = j

\* A socket without an OSDU announces nothing and holds no two of them.
LEMMA NoOsdu ==
  ASSUME NEW s
  PROVE  /\ (OsduFrames(s) = {}) <=> ~(\E i \in DOMAIN s : s[i].kind = "OSDU")
         /\ OsduFrames(s) = {} => Single(s)
         /\ ~Answers(s) => SingleAnswer(s)
  BY DEF OsduFrames, Single, Answers, SingleAnswer

\* Sending anything but OSDU announces nothing new.
LEMMA AppendOther ==
  ASSUME NEW s \in Seq(Message), NEW m \in Message, m.kind # "OSDU"
  PROVE  /\ OsduFrames(Append(s, m)) = OsduFrames(s)
         /\ Single(s) => Single(Append(s, m))
  <1>1. \A i \in DOMAIN s : i \in DOMAIN Append(s, m) /\ Append(s, m)[i] = s[i]
    BY AppendElements
  <1>2. \A i \in DOMAIN Append(s, m) :
          Append(s, m)[i].kind = "OSDU" => i \in DOMAIN s /\ Append(s, m)[i] = s[i]
    BY AppendElements
  <1>3. QED
    BY <1>1, <1>2 DEF OsduFrames, Single

\* Sending OSDU announces its frame, and it is the only one if there was none.
LEMMA AppendOsdu ==
  ASSUME NEW s \in Seq(Message), NEW m \in Message, m.kind = "OSDU"
  PROVE  /\ OsduFrames(Append(s, m)) = OsduFrames(s) \cup {m.frame}
         /\ OsduFrames(s) = {} => Single(Append(s, m))
  <1>1. /\ \A i \in DOMAIN s : i \in DOMAIN Append(s, m) /\ Append(s, m)[i] = s[i]
        /\ Len(s) + 1 \in DOMAIN Append(s, m) /\ Append(s, m)[Len(s) + 1] = m
    BY AppendElements
  <1>2. \A i \in DOMAIN Append(s, m) :
          i = Len(s) + 1 \/ (i \in DOMAIN s /\ Append(s, m)[i] = s[i])
    BY AppendElements
  <1>3. OsduFrames(Append(s, m)) = OsduFrames(s) \cup {m.frame}
    BY <1>1, <1>2 DEF OsduFrames
  <1>4. OsduFrames(s) = {} => Single(Append(s, m))
    BY <1>2, NoOsdu DEF Single
  <1>5. QED
    BY <1>3, <1>4

\* Receiving anything but OSDU leaves the announcements alone; receiving the
\* only OSDU leaves none.
LEMMA TailOsdu ==
  ASSUME NEW s \in Seq(Message), s # <<>>
  PROVE  /\ Head(s).kind # "OSDU" => OsduFrames(Tail(s)) = OsduFrames(s)
         /\ Head(s).kind = "OSDU" => Head(s).frame \in OsduFrames(s)
         /\ Single(s) /\ Head(s).kind = "OSDU" => OsduFrames(Tail(s)) = {}
         /\ Single(s) => Single(Tail(s))
  <1>1. /\ \A i \in DOMAIN Tail(s) : i + 1 \in DOMAIN s /\ Tail(s)[i] = s[i + 1] /\ i + 1 # 1
        /\ \A i \in DOMAIN s : i # 1 => i - 1 \in DOMAIN Tail(s) /\ Tail(s)[i - 1] = s[i]
        /\ 1 \in DOMAIN s /\ Head(s) = s[1]
    BY TailElements
  <1>2. Head(s).kind # "OSDU" => OsduFrames(Tail(s)) = OsduFrames(s)
    <2>1. OsduFrames(Tail(s)) \subseteq OsduFrames(s)
      BY <1>1 DEF OsduFrames
    <2>2. ASSUME Head(s).kind # "OSDU", NEW f \in OsduFrames(s)
          PROVE  f \in OsduFrames(Tail(s))
      <3>1. PICK i \in DOMAIN s : s[i].kind = "OSDU" /\ f = s[i].frame
        BY DEF OsduFrames
      <3>2. i # 1
        BY <1>1, <2>2, <3>1
      <3>3. i - 1 \in DOMAIN Tail(s) /\ Tail(s)[i - 1] = s[i]
        BY <1>1, <3>2
      <3>4. QED
        BY <3>1, <3>3 DEF OsduFrames
    <2>3. QED
      BY <2>1, <2>2
  <1>3. Head(s).kind = "OSDU" => Head(s).frame \in OsduFrames(s)
    BY <1>1 DEF OsduFrames
  <1>4. Single(s) /\ Head(s).kind = "OSDU" => OsduFrames(Tail(s)) = {}
    BY <1>1 DEF OsduFrames, Single
  <1>5. Single(s) => Single(Tail(s))
    <2>1. SUFFICES ASSUME Single(s), NEW i \in DOMAIN Tail(s), NEW j \in DOMAIN Tail(s),
                          Tail(s)[i].kind = "OSDU", Tail(s)[j].kind = "OSDU"
                   PROVE  i = j
      BY DEF Single
    <2>2. i + 1 = j + 1
      BY <1>1, <2>1 DEF Single
    <2>3. QED
      BY <2>2
  <1>6. QED
    BY <1>2, <1>3, <1>4, <1>5

\* A piece of a socket's content announces no more than the whole.
LEMMA PieceOsdu ==
  ASSUME NEW s \in Seq(Message), NEW a \in Nat \ {0}, NEW b \in Nat, b <= Len(s)
  PROVE  /\ OsduFrames(SubSeq(s, a, b)) \subseteq OsduFrames(s)
         /\ Single(s) => Single(SubSeq(s, a, b))
  <1>1. \A i \in DOMAIN SubSeq(s, a, b) :
          i \in Nat /\ i + a - 1 \in DOMAIN s /\ SubSeq(s, a, b)[i] = s[i + a - 1]
    BY PieceElements
  <1>2. OsduFrames(SubSeq(s, a, b)) \subseteq OsduFrames(s)
    BY <1>1 DEF OsduFrames
  <1>3. Single(s) => Single(SubSeq(s, a, b))
    <2>1. SUFFICES ASSUME Single(s), NEW i \in DOMAIN SubSeq(s, a, b),
                          NEW j \in DOMAIN SubSeq(s, a, b),
                          SubSeq(s, a, b)[i].kind = "OSDU", SubSeq(s, a, b)[j].kind = "OSDU"
                   PROVE  i = j
      BY DEF Single
    <2>2. i + a - 1 = j + a - 1
      BY <1>1, <2>1 DEF Single
    <2>3. QED
      BY <1>1, <2>2
  <1>4. QED
    BY <1>2, <1>3

\* The answers on their way to the control thread, likewise.
LEMMA AppendAnswer ==
  ASSUME NEW s \in Seq(Command), NEW c \in Command
  PROVE  /\ c # "OSDU" => (Answers(Append(s, c)) <=> Answers(s))
         /\ c = "OSDU" => Answers(Append(s, c))
         /\ SingleAnswer(s) /\ c # "OSDU" => SingleAnswer(Append(s, c))
         /\ ~Answers(s) => SingleAnswer(Append(s, c))
  <1>1. /\ \A i \in DOMAIN s : i \in DOMAIN Append(s, c) /\ Append(s, c)[i] = s[i]
        /\ Len(s) + 1 \in DOMAIN Append(s, c) /\ Append(s, c)[Len(s) + 1] = c
    BY AppendElements
  <1>2. \A i \in DOMAIN Append(s, c) :
          i = Len(s) + 1 \/ (i \in DOMAIN s /\ Append(s, c)[i] = s[i])
    BY AppendElements
  <1>3. QED
    BY <1>1, <1>2 DEF Answers, SingleAnswer

\* Handling a command takes at most one answer away.
LEMMA TailAnswer ==
  ASSUME NEW s \in Seq(Command), s # <<>>
  PROVE  /\ Head(s) # "OSDU" => (Answers(Tail(s)) <=> Answers(s))
         /\ Head(s) = "OSDU" => Answers(s)
         /\ SingleAnswer(s) /\ Head(s) = "OSDU" => ~Answers(Tail(s))
         /\ SingleAnswer(s) => SingleAnswer(Tail(s))
  <1>1. /\ \A i \in DOMAIN Tail(s) : i + 1 \in DOMAIN s /\ Tail(s)[i] = s[i + 1] /\ i + 1 # 1
        /\ \A i \in DOMAIN s : i # 1 => i - 1 \in DOMAIN Tail(s) /\ Tail(s)[i - 1] = s[i]
        /\ 1 \in DOMAIN s /\ Head(s) = s[1]
    BY TailElements
  <1>2. SingleAnswer(s) => SingleAnswer(Tail(s))
    <2>1. SUFFICES ASSUME SingleAnswer(s), NEW i \in DOMAIN Tail(s), NEW j \in DOMAIN Tail(s),
                          Tail(s)[i] = "OSDU", Tail(s)[j] = "OSDU"
                   PROVE  i = j
      BY DEF SingleAnswer
    <2>2. i + 1 = j + 1
      BY <1>1, <2>1 DEF SingleAnswer
    <2>3. QED
      BY <2>2
  <1>3. QED
    BY <1>1, <1>2 DEF Answers, SingleAnswer

\* A piece of the commands holds no more answers than the whole.
LEMMA PieceAnswer ==
  ASSUME NEW s \in Seq(Command), NEW a \in Nat \ {0}, NEW b \in Nat, b <= Len(s)
  PROVE  /\ Answers(SubSeq(s, a, b)) => Answers(s)
         /\ SingleAnswer(s) => SingleAnswer(SubSeq(s, a, b))
  <1>1. \A i \in DOMAIN SubSeq(s, a, b) :
          i \in Nat /\ i + a - 1 \in DOMAIN s /\ SubSeq(s, a, b)[i] = s[i + a - 1]
    BY PieceElements
  <1>2. SingleAnswer(s) => SingleAnswer(SubSeq(s, a, b))
    <2>1. SUFFICES ASSUME SingleAnswer(s), NEW i \in DOMAIN SubSeq(s, a, b),
                          NEW j \in DOMAIN SubSeq(s, a, b),
                          SubSeq(s, a, b)[i] = "OSDU", SubSeq(s, a, b)[j] = "OSDU"
                   PROVE  i = j
      BY DEF SingleAnswer
    <2>2. i + a - 1 = j + a - 1
      BY <1>1, <2>1 DEF SingleAnswer
    <2>3. QED
      BY <1>1, <2>2
  <1>3. QED
    BY <1>1, <1>2 DEF Answers

-----------------------------------------------------------------------------
(***************************************************************************)
(* The inductive invariant: the checked properties, plus what the segment  *)
(* holds while its frame travels from OnPaint to VDR.                      *)
(***************************************************************************)
Exclusive ==
  /\ InFlight => locked
  /\ PainterHolds => ~Announced /\ ~VdrHolds /\ ~Answered
  /\ Announced => ~VdrHolds /\ ~Answered
  /\ VdrHolds => ~Answered

FrameTravels ==
  /\ uiPc = "recolour" => shm.frame = buffer
  /\ uiPc = "send" => shm = [frame |-> buffer, keyed |-> TRUE]
  /\ ~stolen => \A f \in OsduFrames(toVdr) : shm = [frame |-> f, keyed |-> TRUE]
  /\ ~stolen /\ vdrPc = "read" => shm = [frame |-> vdrFrame, keyed |-> TRUE]

CreditInv ==
  /\ TypeOK
  /\ NoLostUnlock
  /\ ~stolen => Exclusive /\ Single(toVdr) /\ SingleAnswer(fromVdr)
  /\ FrameTravels

\* How the invariant sees the sockets, before and after a step.
LEMMA Mail ==
  /\ Announced <=> OsduFrames(toVdr) # {}
  /\ Announced' <=> OsduFrames(toVdr') # {}
  /\ Answered <=> Answers(fromVdr)
  /\ Answered' <=> Answers(fromVdr')
  /\ ~Announced => Single(toVdr)
  /\ ~Announced' => Single(toVdr')
  /\ ~Answered => SingleAnswer(fromVdr)
  /\ ~Answered' => SingleAnswer(fromVdr')
  BY NoOsdu DEF Announced, Answered, Answers

\* The invariant says what the checked properties say.
LEMMA CreditImplies ==
  CreditInv => NoTornFrame /\ ReadsAnnouncedFrame /\ NoLostUnlock /\ OneCredit
  BY DEF CreditInv, NoTornFrame, ReadsAnnouncedFrame, OneCredit, Exclusive, FrameTravels,
         Single, SingleAnswer, PainterHolds, VdrHolds

\* A step that leaves the painter, VDR, the mutex, the segment and the history
\* alone, and neither adds nor removes an OSDU, preserves the invariant.
LEMMA QuietStep ==
  ASSUME CreditInv, TypeOK',
         UNCHANGED <<locked, shm, buffer, vdrPc, vdrFrame, stolen, lost>>,
         PainterHolds' = PainterHolds,
         uiPc' \in {"recolour", "send"} => uiPc' = uiPc,
         OsduFrames(toVdr') = OsduFrames(toVdr), Single(toVdr) => Single(toVdr'),
         Answers(fromVdr') <=> Answers(fromVdr), SingleAnswer(fromVdr) => SingleAnswer(fromVdr')
  PROVE  CreditInv'
  <1>1. Announced' <=> Announced
    BY Mail
  <1>2. Answered' <=> Answered
    BY Mail
  <1>3. VdrHolds' <=> VdrHolds
    BY DEF VdrHolds
  <1>4. InFlight' <=> InFlight
    BY <1>1, <1>2, <1>3 DEF InFlight
  <1>5. NoLostUnlock'
    BY <1>4 DEF CreditInv, NoLostUnlock
  <1>6. ~stolen => Exclusive'
    BY <1>1, <1>2, <1>3, <1>4 DEF CreditInv, Exclusive
  <1>7. FrameTravels'
    BY DEF CreditInv, FrameTravels
  <1>8. QED
    BY <1>5, <1>6, <1>7 DEF CreditInv

\* Every step of the handshake preserves the credit.
LEMMA CreditStep == CreditInv /\ [Next]_vars => CreditInv'
<1> SUFFICES ASSUME CreditInv, [Next]_vars
             PROVE  CreditInv'
  OBVIOUS
<1> USE DEF threadVars, pageVars, vdrVars, histVars
<1>t. TypeOK /\ TypeOK'
  BY TypeStep DEF CreditInv
<1>m. /\ toVdr \in Seq(Message) /\ fromVdr \in Seq(Command)
      /\ toVdr' \in Seq(Message) /\ fromVdr' \in Seq(Command)
      /\ buffer \in Frames
  BY <1>t DEF TypeOK
<1>1. CASE PageChanges
  BY <1>t, <1>1, QuietStep DEF PageChanges, PainterHolds
<1>2. CASE OnPaint
  BY <1>t, <1>2 DEF OnPaint, CreditInv, NoLostUnlock, Exclusive, FrameTravels, InFlight,
     PainterHolds, Announced, VdrHolds, Answered
<1>3. CASE OnPaintLock
  BY <1>t, <1>3 DEF OnPaintLock, CreditInv, NoLostUnlock, Exclusive, FrameTravels, InFlight,
     PainterHolds, Announced, VdrHolds, Answered
<1>4. CASE OnPaintCopy
  <2>1. ~stolen => OsduFrames(toVdr) = {} /\ vdrPc # "read"
    BY <1>4, Mail DEF OnPaintCopy, CreditInv, Exclusive, PainterHolds, VdrHolds
  <2>2. FrameTravels'
    BY <1>4, <2>1 DEF OnPaintCopy, FrameTravels
  <2>3. QED
    BY <1>t, <1>4, <2>2 DEF OnPaintCopy, CreditInv, NoLostUnlock, Exclusive, InFlight,
       PainterHolds, Announced, VdrHolds, Answered
<1>5. CASE OnPaintRecolour
  <2>1. ~stolen => OsduFrames(toVdr) = {} /\ vdrPc # "read"
    BY <1>5, Mail DEF OnPaintRecolour, CreditInv, Exclusive, PainterHolds, VdrHolds
  <2>2. shm' = [frame |-> buffer, keyed |-> TRUE]
    BY <1>t, <1>5 DEF OnPaintRecolour, CreditInv, FrameTravels, TypeOK
  <2>3. FrameTravels'
    BY <1>5, <2>1, <2>2 DEF OnPaintRecolour, FrameTravels
  <2>4. QED
    BY <1>t, <1>5, <2>3 DEF OnPaintRecolour, CreditInv, NoLostUnlock, Exclusive, InFlight,
       PainterHolds, Announced, VdrHolds, Answered
<1>6. CASE OnPaintSend
  <2>1. OsduFrames(toVdr') = OsduFrames(toVdr) \cup {buffer}
    BY <1>m, <1>6, MessageFacts, AppendOsdu DEF OnPaintSend, Send
  <2>2. ~stolen => ~Announced /\ ~VdrHolds /\ ~Answered /\ locked
    BY <1>6 DEF OnPaintSend, CreditInv, Exclusive, PainterHolds, InFlight
  <2>3. ~stolen => Single(toVdr')
    BY <1>m, <1>6, <2>2, Mail, MessageFacts, AppendOsdu DEF OnPaintSend, Send
  <2>4. Announced'
    BY <2>1, Mail
  <2>5. FrameTravels'
    BY <1>6, <2>1, <2>2, Mail DEF OnPaintSend, CreditInv, FrameTravels, VdrHolds
  <2>6. ~stolen' => Exclusive' /\ Single(toVdr') /\ SingleAnswer(fromVdr')
    BY <1>6, <2>2, <2>3 DEF OnPaintSend, CreditInv, Exclusive, InFlight,
       PainterHolds, VdrHolds, Answered
  <2>7. NoLostUnlock'
    BY <2>4 DEF NoLostUnlock, InFlight
  <2>8. QED
    BY <1>t, <2>5, <2>6, <2>7 DEF CreditInv
<1>7. CASE OnQuery
  BY <1>t, <1>7, QuietStep DEF OnQuery, PainterHolds
<1>8. CASE OnQuerySend
  BY <1>t, <1>m, <1>8, QuietStep, AppendOther, MessageFacts DEF OnQuerySend, Send, PainterHolds
<1>9. CASE HandleOsdu
  <2>1. Answered
    BY <1>m, <1>9, TailAnswer, Mail DEF HandleOsdu, Receive
  <2>2. /\ ~stolen => ~InFlight'
        /\ SingleAnswer(fromVdr) => SingleAnswer(fromVdr')
    <3>1. ~stolen => ~Answered'
      BY <1>m, <1>9, TailAnswer, Mail DEF HandleOsdu, Receive, CreditInv
    <3>2. ~stolen => ~PainterHolds' /\ ~VdrHolds' /\ ~Announced'
      BY <1>9, <2>1 DEF HandleOsdu, CreditInv, Exclusive, PainterHolds, VdrHolds, Announced
    <3>3. QED
      BY <1>m, <1>9, <3>1, <3>2, TailAnswer DEF HandleOsdu, Receive, InFlight
  <2>3. ~stolen' => ~InFlight'
    BY <1>9, <2>2 DEF HandleOsdu
  <2>4. ~stolen' => Exclusive' /\ Single(toVdr') /\ SingleAnswer(fromVdr')
    BY <2>3, Mail DEF Exclusive, InFlight
  <2>5. FrameTravels'
    BY <1>9, <2>3, Mail DEF HandleOsdu, CreditInv, FrameTravels, InFlight, VdrHolds
  <2>6. QED
    BY <1>t, <1>9, <2>4, <2>5 DEF HandleOsdu, CreditInv, NoLostUnlock
<1>10. CASE HandleSendOsd
  <2>1. Answered' <=> Answered
    BY <1>m, <1>10, TailAnswer, Mail DEF HandleSendOsd, Receive
  <2>2. ~stolen' => ~InFlight'
    BY <1>10, <2>1 DEF HandleSendOsd, InFlight, PainterHolds, VdrHolds, Announced
  <2>3. ~stolen' => Exclusive' /\ Single(toVdr') /\ SingleAnswer(fromVdr')
    BY <2>2, Mail DEF Exclusive, InFlight
  <2>4. FrameTravels'
    BY <1>10, <2>2, Mail DEF HandleSendOsd, CreditInv, FrameTravels, InFlight, VdrHolds
  <2>5. QED
    BY <1>t, <1>10, <2>3, <2>4 DEF HandleSendOsd, CreditInv, NoLostUnlock
<1>11. CASE Invalidate
  BY <1>t, <1>11, QuietStep DEF Invalidate, PainterHolds
<1>12. CASE HandlePing
  BY <1>t, <1>m, <1>12, QuietStep, TailAnswer DEF HandlePing, Receive, PainterHolds
<1>13. CASE Pong
  BY <1>t, <1>m, <1>13, QuietStep, AppendOther, MessageFacts DEF Pong, Send, PainterHolds
<1>14. CASE HandlePause
  BY <1>t, <1>m, <1>14, QuietStep, TailAnswer DEF HandlePause, Receive, PainterHolds
<1>15. CASE HandleResume
  BY <1>t, <1>m, <1>15, QuietStep, TailAnswer DEF HandleResume, Receive, PainterHolds
<1>16. CASE HandleStop
  BY <1>t, <1>m, <1>16, QuietStep, TailAnswer DEF HandleStop, Receive, PainterHolds
<1>17. CASE HeartbeatPing
  BY <1>t, <1>m, <1>17, QuietStep, AppendOther, MessageFacts DEF HeartbeatPing, Send, PainterHolds
<1>18. CASE HeartbeatInit
  BY <1>t, <1>m, <1>18, QuietStep, AppendOther, MessageFacts DEF HeartbeatInit, Send, PainterHolds
<1>19. CASE HeartbeatWake
  BY <1>t, <1>19, QuietStep DEF HeartbeatWake, PainterHolds
<1>20. CASE VdrTakeOsdu
  <2>1. Head(toVdr).frame \in OsduFrames(toVdr) /\ Announced
    BY <1>m, <1>20, TailOsdu, Mail DEF VdrTakeOsdu
  <2>2. ~stolen => OsduFrames(toVdr') = {}
    BY <1>m, <1>20, TailOsdu DEF VdrTakeOsdu, CreditInv
  <2>3. ~stolen => ~PainterHolds /\ ~VdrHolds /\ ~Answered /\ locked
    BY <2>1 DEF CreditInv, Exclusive, InFlight
  <2>4. ~stolen' => Exclusive' /\ Single(toVdr') /\ SingleAnswer(fromVdr')
    BY <1>20, <2>2, <2>3, Mail DEF VdrTakeOsdu, CreditInv, Exclusive, InFlight,
       PainterHolds, Answered
  <2>5. FrameTravels'
    BY <1>20, <2>1, <2>2 DEF VdrTakeOsdu, CreditInv, FrameTravels
  <2>6. NoLostUnlock'
    BY <1>20 DEF VdrTakeOsdu, NoLostUnlock, InFlight, VdrHolds
  <2>7. QED
    BY <1>t, <2>4, <2>5, <2>6 DEF CreditInv
<1>21. CASE VdrTakeOther
  BY <1>t, <1>m, <1>21, QuietStep, TailOsdu DEF VdrTakeOther, PainterHolds
<1>22. CASE VdrReadDone
  BY <1>t, <1>22 DEF VdrReadDone, CreditInv, NoLostUnlock, Exclusive, FrameTravels, InFlight,
     PainterHolds, Announced, VdrHolds, Answered
<1>23. CASE VdrAck
  <2>1. Answered'
    BY <1>m, <1>23, AppendAnswer, Mail DEF VdrAck, Command
  <2>2. ~stolen => ~PainterHolds /\ ~Announced /\ ~Answered /\ locked
    BY <1>23 DEF VdrAck, CreditInv, Exclusive, InFlight, VdrHolds
  <2>3. ~stolen => SingleAnswer(fromVdr')
    BY <1>m, <1>23, <2>2, AppendAnswer, Mail DEF VdrAck, Command
  <2>4. ~stolen' => Exclusive' /\ Single(toVdr') /\ SingleAnswer(fromVdr')
    BY <1>23, <2>2, <2>3 DEF VdrAck, CreditInv, Exclusive, InFlight,
       PainterHolds, VdrHolds, Announced
  <2>5. FrameTravels'
    BY <1>23 DEF VdrAck, CreditInv, FrameTravels
  <2>6. QED
    BY <1>t, <2>1, <2>4, <2>5 DEF CreditInv, NoLostUnlock, InFlight
<1>24. CASE VdrCommand
  <2>1. PICK c \in Commands : fromVdr' = Append(fromVdr, c)
    BY <1>24 DEF VdrCommand
  <2>2. c \in Command /\ c # "OSDU"
    BY CommandsAssumption DEF Command
  <2>3. QED
    BY <1>t, <1>m, <1>24, <2>1, <2>2, QuietStep, AppendAnswer DEF VdrCommand, PainterHolds
<1>25. CASE VdrSendOsd
  BY <1>t, <1>m, <1>25, QuietStep, AppendAnswer DEF VdrSendOsd, Command, PainterHolds
<1>26. CASE VdrReopen
  BY <1>t, <1>m, <1>26, QuietStep, AppendAnswer DEF VdrReopen, Command, PainterHolds
<1>27. CASE VdrRestart
  <2>1. OsduFrames(toVdr') \subseteq OsduFrames(toVdr) /\ (Single(toVdr) => Single(toVdr'))
    <3>1. PICK k \in 0 .. Len(toVdr) : toVdr' = SubSeq(toVdr, k + 1, Len(toVdr))
      BY <1>27 DEF VdrRestart
    <3>2. QED
      BY <1>m, <3>1, PieceOsdu
  <2>2. (Answered' => Answered) /\ (SingleAnswer(fromVdr) => SingleAnswer(fromVdr'))
    <3>1. PICK k \in 0 .. Len(fromVdr) : fromVdr' = SubSeq(fromVdr, 1, k)
      BY <1>27 DEF VdrRestart
    <3>2. QED
      BY <1>m, <3>1, PieceAnswer, Mail
  <2>3. Announced' => Announced
    BY <2>1, Mail
  <2>4. stolen' \/ ~InFlight' \/ ~stolen
    BY <1>27 DEF VdrRestart
  <2>5. ~stolen' => Exclusive' /\ Single(toVdr') /\ SingleAnswer(fromVdr')
    BY <1>27, <2>1, <2>2, <2>3, <2>4, Mail DEF VdrRestart, CreditInv, Exclusive, InFlight,
       PainterHolds, VdrHolds
  <2>6. FrameTravels'
    BY <1>27, <2>1, <2>4, Mail DEF VdrRestart, CreditInv, FrameTravels, InFlight
  <2>7. NoLostUnlock'
    BY <1>27 DEF VdrRestart, NoLostUnlock
  <2>8. QED
    BY <1>t, <2>5, <2>6, <2>7 DEF CreditInv
<1>28. CASE BrowserRestart
  <2>1. ~stolen' => ~InFlight'
    BY <1>28 DEF BrowserRestart
  <2>2. ~stolen' => Exclusive' /\ Single(toVdr') /\ SingleAnswer(fromVdr')
    BY <2>1, Mail DEF Exclusive, InFlight
  <2>3. FrameTravels'
    BY <1>28, <2>1, Mail DEF BrowserRestart, FrameTravels, InFlight, VdrHolds
  <2>4. QED
    BY <1>t, <1>28, <2>2, <2>3 DEF BrowserRestart, CreditInv, NoLostUnlock
<1>29. CASE UNCHANGED vars
  BY <1>t, <1>29, QuietStep DEF vars, PainterHolds
<1>30. QED
  BY <1>1, <1>2, <1>3, <1>4, <1>5, <1>6, <1>7, <1>8, <1>9, <1>10, <1>11, <1>12, <1>13, <1>14,
     <1>15, <1>16, <1>17, <1>18, <1>19, <1>20, <1>21, <1>22, <1>23, <1>24, <1>25, <1>26,
     <1>27, <1>28, <1>29
     DEF Next, Ui, Control, Heartbeat, VdrReceiver

\* At the start the mutex is free and nothing is on its way.
LEMMA CreditInit == Init => CreditInv
  BY TypeInit, NoOsdu DEF Init, CreditInv, NoLostUnlock, Exclusive, FrameTravels, InFlight,
     PainterHolds, Announced, VdrHolds, Answered, OsduFrames, Single, SingleAnswer

\* The credit holds throughout every behaviour.
LEMMA Credit == Spec => []CreditInv
  BY CreditInit, CreditStep, PTL DEF Spec

\* Whatever the capacities and however often VDR restarts or asks for a repaint,
\* OnPaint (osrhandler.cpp:93-107) and VDR never touch the segment at the same
\* time unless the mutex was released under a frame still on its way.
THEOREM TornFrameFree == Spec => []NoTornFrame
  BY Credit, CreditImplies, PTL

\* VDR reads the frame its OSDU was sent for, recoloured.
THEOREM AnnouncedFrameRead == Spec => []ReadsAnnouncedFrame
  BY Credit, CreditImplies, PTL

\* shm_mutex is never held without a message on its way that will unlock it,
\* unless a restart lost that message.
THEOREM UnlockNeverLost == Spec => []NoLostUnlock
  BY Credit, CreditImplies, PTL

\* One frame at a time, and the mutex is held for it.
THEOREM OneCreditAtATime == Spec => []OneCredit
  BY Credit, CreditImplies, PTL

-----------------------------------------------------------------------------
(***************************************************************************)
(* Refinement: left alone, the handshake is a one-slot buffer.             *)
(***************************************************************************)
\* Without SENDOSD, restarts and STOP nothing releases the mutex early.
Calm == CreditInv /\ ~stolen /\ ~reopen /\ ctlPc # "done"
          /\ \A i \in DOMAIN fromVdr : fromVdr[i] \notin {"SENDOSD", "STOP"}

\* Nothing VDR does in an undisturbed run endangers the credit.
LEMMA CalmStep ==
  ASSUME Undisturbed, Calm, [Next]_vars
  PROVE  Calm'
<1> USE DEF threadVars, pageVars, vdrVars, histVars
<1>1. CreditInv'
  BY CreditStep DEF Calm
<1>2. TypeOK /\ TypeOK'
  BY <1>1 DEF Calm, CreditInv
<1>3. fromVdr \in Seq(Command) /\ bounds.sendOsd = 0 /\ bounds.vdr = 0 /\ bounds.browser = 0
  BY <1>2 DEF TypeOK, Undisturbed
<1>4. ~VdrSendOsd /\ ~VdrReopen /\ ~VdrRestart /\ ~BrowserRestart
  BY <1>3 DEF Calm, VdrSendOsd, VdrReopen, VdrRestart, BrowserRestart, Undisturbed
<1>5. ASSUME NEW c, Receive(c)
      PROVE  /\ c \notin {"SENDOSD", "STOP"}
             /\ \A i \in DOMAIN fromVdr' : fromVdr'[i] \notin {"SENDOSD", "STOP"}
  BY <1>3, <1>5, TailElements DEF Receive, Calm
<1>6. CASE Control
  <2>1. ~HandleSendOsd /\ ~HandleStop
    BY <1>5 DEF HandleSendOsd, HandleStop
  <2>2. \A i \in DOMAIN fromVdr' : fromVdr'[i] \notin {"SENDOSD", "STOP"}
    BY <1>5, <1>6, <2>1 DEF Calm, Control, HandleOsdu, Invalidate, HandlePing, Pong,
       HandlePause, HandleResume
  <2>3. CASE HandleOsdu
    <3>1. ~stolen'
      BY <2>3 DEF HandleOsdu, Calm
    <3>2. reopen' = reopen /\ ctlPc' = ctlPc
      BY <2>3 DEF HandleOsdu
    <3>3. QED
      BY <1>1, <2>2, <3>1, <3>2 DEF Calm
  <2>4. CASE Invalidate \/ HandlePing \/ Pong \/ HandlePause \/ HandleResume
    <3>1. stolen' = stolen /\ reopen' = reopen /\ (ctlPc' = ctlPc \/ ctlPc' \in {"recv", "pong"})
      BY <2>4 DEF Invalidate, HandlePing, Pong, HandlePause, HandleResume
    <3>2. QED
      BY <1>1, <2>2, <3>1 DEF Calm
  <2>5. QED
    BY <1>6, <2>1, <2>3, <2>4 DEF Control
<1>7. CASE VdrCommand
  <2>1. PICK c \in Commands : fromVdr' = Append(fromVdr, c)
    BY <1>7 DEF VdrCommand
  <2>2. c \notin {"SENDOSD", "STOP"} /\ c \in Command
    BY CommandsAssumption DEF Undisturbed, Command
  <2>3. \A i \in DOMAIN fromVdr' : fromVdr'[i] \notin {"SENDOSD", "STOP"}
    BY <1>3, <2>1, <2>2, AppendElements DEF Calm
  <2>4. QED
    BY <1>1, <1>7, <2>3 DEF Calm, VdrCommand
<1>8. CASE VdrAck
  <2>1. \A i \in DOMAIN fromVdr' : fromVdr'[i] \notin {"SENDOSD", "STOP"}
    BY <1>3, <1>8, AppendElements DEF Calm, VdrAck, Command
  <2>2. QED
    BY <1>1, <1>8, <2>1 DEF Calm, VdrAck
<1>9. CASE PageChanges \/ Ui \/ Heartbeat \/ VdrTakeOsdu \/ VdrTakeOther \/ VdrReadDone
            \/ UNCHANGED vars
  BY <1>1, <1>9 DEF Calm, PageChanges, Ui, OnPaint, OnPaintLock, OnPaintCopy, OnPaintRecolour,
     OnPaintSend, OnQuery, OnQuerySend, Heartbeat, HeartbeatPing, HeartbeatInit, HeartbeatWake,
     VdrTakeOsdu, VdrTakeOther, VdrReadDone, vars
<1>10. QED
  BY <1>4, <1>6, <1>7, <1>8, <1>9 DEF Next, VdrReceiver

\* Each step of an undisturbed handshake is a step of the slot, or leaves it be.
LEMMA SlotStep ==
  ASSUME Undisturbed, Calm, Calm', [Next]_vars
  PROVE  [Slot!Next]_(Slot!slotVars)
<1> USE DEF threadVars, pageVars, vdrVars, histVars, Slot!slotVars
<1>1. /\ TypeOK /\ TypeOK' /\ Exclusive /\ Exclusive' /\ Single(toVdr) /\ Single(toVdr')
      /\ toVdr \in Seq(Message) /\ fromVdr \in Seq(Command) /\ buffer \in Frames
      /\ shm' \in [frame : Frames, keyed : BOOLEAN]
  BY DEF Calm, CreditInv, TypeOK
<1>2. ASSUME PainterHolds' = PainterHolds, Announced' = Announced, vdrPc' = vdrPc, shm' = shm
      PROVE  UNCHANGED Slot!slotVars
  BY <1>2 DEF slotOf
<1>3. CASE OnPaintLock
  <2>1. ~InFlight /\ PainterHolds'
    BY <1>1, <1>3 DEF OnPaintLock, Exclusive, PainterHolds
  <2>2. slotOf = "free" /\ slotOf' = "filling"
    BY <2>1 DEF slotOf, InFlight, VdrHolds
  <2>3. QED
    BY <1>3, <2>2 DEF OnPaintLock, Slot!Next, Slot!Claim
<1>4. CASE OnPaintCopy \/ OnPaintRecolour
  <2>1. slotOf = "filling" /\ slotOf' = "filling"
    BY <1>4 DEF OnPaintCopy, OnPaintRecolour, slotOf, PainterHolds
  <2>2. QED
    BY <1>1, <2>1 DEF Slot!Next, Slot!Fill
<1>5. CASE OnPaintSend
  <2>1. Announced'
    BY <1>1, <1>5, MessageFacts, AppendOsdu, Mail DEF OnPaintSend, Send
  <2>2. slotOf = "filling" /\ slotOf' = "full"
    BY <1>5, <2>1 DEF OnPaintSend, slotOf, PainterHolds
  <2>3. QED
    BY <1>5, <2>2 DEF OnPaintSend, Slot!Next, Slot!Announce
<1>6. CASE VdrTakeOsdu
  <2>1. Announced /\ ~Announced'
    BY <1>1, <1>6, TailOsdu, Mail DEF VdrTakeOsdu
  <2>2. ~PainterHolds /\ ~PainterHolds'
    BY <1>1, <1>6, <2>1 DEF VdrTakeOsdu, Exclusive, PainterHolds
  <2>3. slotOf = "full" /\ slotOf' = "reading"
    BY <1>6, <2>1, <2>2 DEF VdrTakeOsdu, slotOf
  <2>4. QED
    BY <1>6, <2>3 DEF VdrTakeOsdu, Slot!Next, Slot!Take
<1>7. CASE VdrReadDone
  <2>1. VdrHolds /\ ~PainterHolds /\ ~Announced /\ ~PainterHolds' /\ ~Announced'
    BY <1>1, <1>7 DEF VdrReadDone, Exclusive, VdrHolds, PainterHolds, Announced
  <2>2. slotOf = "reading" /\ slotOf' = "free"
    BY <1>7, <2>1 DEF VdrReadDone, slotOf
  <2>3. QED
    BY <1>7, <2>2 DEF VdrReadDone, Slot!Next, Slot!Release
<1>8. CASE VdrAck
  <2>1. slotOf' = slotOf
    BY <1>8 DEF VdrAck, slotOf, PainterHolds, Announced
  <2>2. QED
    BY <1>8, <2>1 DEF VdrAck
<1>9. CASE OnQuerySend \/ Pong \/ HeartbeatPing \/ HeartbeatInit
  <2>1. PICK m \in Message : m.kind # "OSDU" /\ toVdr' = Append(toVdr, m)
    BY <1>9, MessageFacts DEF OnQuerySend, Pong, HeartbeatPing, HeartbeatInit, Send
  <2>2. OsduFrames(toVdr') = OsduFrames(toVdr)
    BY <1>1, <2>1, AppendOther
  <2>3. Announced' = Announced
    BY <2>2, Mail DEF Announced
  <2>4. QED
    BY <1>2, <1>9, <2>3 DEF OnQuerySend, Pong, HeartbeatPing, HeartbeatInit, PainterHolds
<1>10. CASE VdrTakeOther
  <2>1. Announced' = Announced
    BY <1>1, <1>10, TailOsdu, Mail DEF VdrTakeOther, Announced
  <2>2. QED
    BY <1>2, <1>10, <2>1 DEF VdrTakeOther, PainterHolds
<1>11. CASE PageChanges \/ OnPaint \/ OnQuery \/ HeartbeatWake \/ VdrCommand \/ UNCHANGED vars
  BY <1>2, <1>11 DEF PageChanges, OnPaint, OnQuery, HeartbeatWake, VdrCommand, vars,
     PainterHolds, Announced
<1>12. CASE HandleOsdu \/ HandleSendOsd \/ Invalidate \/ HandlePing \/ HandlePause
             \/ HandleResume \/ HandleStop
  BY <1>2, <1>12 DEF HandleOsdu, HandleSendOsd, Invalidate, HandlePing, HandlePause,
     HandleResume, HandleStop, PainterHolds, Announced
<1>13. ~VdrSendOsd /\ ~VdrReopen /\ ~VdrRestart /\ ~BrowserRestart
  <2>1. bounds.sendOsd = 0 /\ bounds.vdr = 0 /\ bounds.browser = 0
    BY <1>1 DEF TypeOK, Undisturbed
  <2>2. QED
    BY <2>1 DEF Calm, VdrSendOsd, VdrReopen, VdrRestart, BrowserRestart, Undisturbed
<1>14. QED
  BY <1>3, <1>4, <1>5, <1>6, <1>7, <1>8, <1>9, <1>10, <1>11, <1>12, <1>13
     DEF Next, Ui, Control, Heartbeat, VdrReceiver

\* Left alone by SENDOSD, restarts and STOP, the four threads and two sockets
\* of the handshake implement the one-slot buffer of FrameSlot.
THEOREM OneSlot == Undisturbed => (Spec => Slot!SafeSpec)
<1> SUFFICES ASSUME Undisturbed
             PROVE  Spec => Slot!SafeSpec
  OBVIOUS
<1>1. Init => Calm
  BY CreditInit DEF Init, Calm
<1>2. Init => Slot!Init
  BY FramesFacts DEF Init, Slot!Init, slotOf, PainterHolds, Announced
<1>3. Calm /\ [Next]_vars => Calm' /\ [Slot!Next]_(Slot!slotVars)
  BY CalmStep, SlotStep
<1>4. QED
  BY <1>1, <1>2, <1>3, PTL DEF Spec, Slot!SafeSpec
=============================================================================
