-------------------------- MODULE VideoObjectProofs --------------------------
(***************************************************************************)
(* Theorems about VideoObject, for every set of videos and any number of   *)
(* calls.  The last command in the queue that says something decides what  *)
(* ffmpeg will do; the timer and the events that are under way decide what *)
(* the element will do and what the object will say.  The invariant says   *)
(* that both agree with what the page asked for last.                      *)
(***************************************************************************)
EXTENDS VideoObject, TLAPS

-----------------------------------------------------------------------------
(***************************************************************************)
(* The inductive invariant.                                                *)
(***************************************************************************)
Ops == {"video", "pause", "resume", "seek", "stop", "end", "error", "speed", "clear", "dash"}

\* The commands that start or stop ffmpeg, and those that leave it stopped.
Deciding == {"video", "pause", "resume", "seek", "stop", "end", "error"}
Stopping == {"pause", "stop", "end", "error"}

Commands == [op : Ops, url : Urls \cup {NoUrl}, n : 0 .. MaxVideos]

\* A queue of commands: those that name a video name one.
Queue(q) ==
  /\ q \in Seq(Commands)
  /\ \A i \in DOMAIN q : q[i].op \in {"video", "dash"} => q[i].url \in Urls

\* What the runs' bounds bound, and the calls there are objects for.
Counts ==
  /\ rewinds.all <= calls
  /\ data # Fail => videos < MaxVideos /\ element # "none"

\* Movies are numbered in the order they are asked for: m is there, q asks for
\* more, v is the last.
Numbers(q, m, v) ==
  /\ m <= v
  /\ \A i \in DOMAIN q : q[i].op = "video" =>
       /\ m < q[i].n /\ q[i].n <= v
       /\ \A j \in DOMAIN q : (q[j].op = "video" /\ i < j) => q[i].n < q[j].n

\* The queue q, given to the player p, ends with the video u.
EndsWith(q, p, u) ==
  /\ \A i \in DOMAIN q : q[i].op = "video" =>
       q[i].url = u \/ \E j \in DOMAIN q : i < j /\ q[j].op = "video"
  /\ (\E i \in DOMAIN q : q[i].op = "video") \/ p.url = u

\* It ends with ffmpeg on, or off.
Fits(state, s) == IF s = "off" THEN state # "on" ELSE state # "off"
EndsIn(q, p, s) ==
  /\ \A i \in DOMAIN q : q[i].op \in Deciding =>
       (q[i].op \in Stopping <=> s = "off") \/ \E j \in DOMAIN q : i < j /\ q[j].op \in Deciding
  /\ (\E i \in DOMAIN q : q[i].op \in Deciding) \/ Fits(p.state, s)

\* What the page asked for last is on its way, or is so.
Obeyed ==
  (~crashed /\ wish.url # NoUrl) =>
    IF data # Fail THEN wish.url = data /\ Told = "on"
    ELSE EndsWith(commands, player, wish.url) /\ EndsIn(commands, player, Told)

\* Why the commands may say something else.
Reasons ==
  /\ unheard = "speed" => wish.state = "on"
  /\ unheard \in {"seek", "overtaken"} => wish.state = "off"
  /\ unheard = "overtaken" => hasty
  /\ data # Fail => hasty \/ unheard = "no"

\* The last timer under way says whether the element will play.
FatePlays == IF timers = <<>> THEN element \in {"playing", "loading"} ELSE timers[Len(timers)] = "play"

\* A video has not started yet.
HasVideo(q) == \E i \in DOMAIN q : q[i].op = "video"

\* Nothing is left of the page before.
Fresh == element = "none" => (timers = <<>> /\ rewinds = NoRewind)

\* Calls on a video that is there: what is under way follows from that.
OneCall ==
  /\ data # Fail => timers = <<>> /\ rewinds = NoRewind
  /\ rewinds # NoRewind => element \notin {"loading", "held"}
  /\ data = Fail =>
       /\ timers # <<>> => element \in {"playing", "paused", "ended"} /\ ~Over
       /\ element # "held"
       /\ Over => element \in {"ended", "error", "paused"}

\* The object says, or will say when the events are through, what the element does.
Says ==
  /\ events # <<>> => (events[Len(events)] = "playing" <=> element = "playing")
  /\ (events = <<>> /\ element # "loading") => (playState = "playing" <=> element = "playing")

\* The element does what the page asked for, or its end is on the way, or it was
\* wound back to its start.
Follows ==
  /\ src = videos /\ src # 0
  /\ wish.state = "on" => FatePlays \/ Over \/ (wound /\ timers = <<>>)
  /\ wish.state = "off" => ~FatePlays
  /\ (player.state = "failed" \/ HasVideo(commands)) =>
       element \in {"loading", "error"} /\ movie # src

Steady ==
  ~hasty => /\ OneCall
            /\ (~crashed /\ data = Fail /\ wish.url # NoUrl) => Says /\ Follows

IInv == /\ TypeOK /\ Queue(commands) /\ Counts
        /\ Numbers(commands, movie, videos)
        /\ Obeyed
        /\ Reasons
        /\ Fresh
        /\ Steady

-----------------------------------------------------------------------------
(***************************************************************************)
(* Sequences.                                                              *)
(***************************************************************************)
\* Append adds an element at the end.
LEMMA AppendSeq ==
  ASSUME NEW S, NEW q \in Seq(S), NEW x \in S
  PROVE  /\ Append(q, x) \in Seq(S) /\ q \o <<x>> = Append(q, x)
         /\ Len(q) \in Nat /\ Len(Append(q, x)) = Len(q) + 1
         /\ DOMAIN q = 1 .. Len(q) /\ DOMAIN Append(q, x) = 1 .. Len(q) + 1
         /\ Append(q, x)[Len(q) + 1] = x /\ \A i \in 1 .. Len(q) : Append(q, x)[i] = q[i]
         /\ Append(q, x) # <<>>
  OBVIOUS

\* Nothing is added by an empty sequence.
LEMMA AppendNone == ASSUME NEW S, NEW q \in Seq(S) PROVE q \o <<>> = q
  OBVIOUS

\* Two elements are added one after the other.
LEMMA AppendTwo ==
  ASSUME NEW S, NEW q \in Seq(S), NEW x \in S, NEW y \in S
  PROVE  q \o <<x, y>> = Append(Append(q, x), y)
  OBVIOUS

\* Tail takes the head off.
LEMMA TailSeq ==
  ASSUME NEW S, NEW q \in Seq(S), q # <<>>
  PROVE  /\ Tail(q) \in Seq(S) /\ Head(q) = q[1] /\ q[1] \in S
         /\ Len(q) \in Nat \ {0} /\ Len(Tail(q)) = Len(q) - 1
         /\ DOMAIN q = 1 .. Len(q) /\ DOMAIN Tail(q) = 1 .. Len(q) - 1
         /\ \A i \in 1 .. Len(q) - 1 : Tail(q)[i] = q[i + 1]
         /\ Len(q) = 1 => Tail(q) = <<>>
<1>1. /\ Tail(q) \in Seq(S) /\ Head(q) = q[1] /\ q[1] \in S
      /\ Len(q) \in Nat \ {0} /\ Len(Tail(q)) = Len(q) - 1
      /\ DOMAIN q = 1 .. Len(q) /\ DOMAIN Tail(q) = 1 .. Len(q) - 1
  OBVIOUS
<1>2. \A i \in 1 .. Len(q) - 1 : Tail(q)[i] = q[i + 1]
  OBVIOUS
<1>3. Len(q) = 1 => Tail(q) = <<>>
  <2>1. \A t \in Seq(S) : Len(t) = 0 => t = <<>>
    OBVIOUS
  <2> QED
    BY <1>1, <2>1
<1> QED
  BY <1>1, <1>2, <1>3

-----------------------------------------------------------------------------
(***************************************************************************)
(* Types.                                                                  *)
(***************************************************************************)
Elements == {"none", "empty", "loading", "held", "playing", "paused", "ended", "error"}
Events == {"playing", "pause", "ended", "error"}

\* A command of the page is one of the commands.
LEMMA PlainType == \A op \in Ops : Plain(op) \in Commands /\ Plain(op).op = op
  BY BoundAssumption DEF Plain, Command, Commands

\* A command that names a video has the fields it was made with.
LEMMA VideoType ==
  ASSUME NEW u \in Urls, NEW n \in 0 .. MaxVideos, NEW op \in {"video", "dash"}
  PROVE  /\ Command(op, u, n) \in Commands /\ Command(op, u, n).op = op
         /\ Command(op, u, n).url = u /\ Command(op, u, n).n = n
  BY DEF Command, Commands, Ops

\* The states of an element that has no events on the way.
Mute == {"none", "empty", "loading", "held"}

\* What pause() and play() make of an element, and the events of it.
LEMMA ElementType ==
  ASSUME NEW e \in Elements
  PROVE  /\ Paused(e) \in Elements /\ Played(e) \in Elements
         /\ PauseEvents(e) \in Seq(Events) /\ PlayEvents(e) \in Seq(Events)
         /\ Paused(e) \in Mute => PauseEvents(e) = <<>> /\ e \in Mute
         /\ Played(e) \in Mute => PlayEvents(e) = <<>> /\ e \in Mute
<1>1. /\ Paused(e) = IF e = "playing" THEN "paused" ELSE IF e = "loading" THEN "held" ELSE e
      /\ PauseEvents(e) = IF e = "playing" THEN <<"pause">> ELSE <<>>
  BY DEF Paused, PauseEvents
<1>2. /\ Played(e) = IF e \in {"paused", "ended"} THEN "playing" ELSE IF e = "held" THEN "loading" ELSE e
      /\ PlayEvents(e) = IF e \in {"paused", "ended"} THEN <<"playing">> ELSE <<>>
  BY DEF Played, PlayEvents
<1>3. Paused(e) \in Elements /\ (Paused(e) \in Mute => PauseEvents(e) = <<>> /\ e \in Mute)
  BY <1>1 DEF Elements, Mute
<1>4. Played(e) \in Elements /\ (Played(e) \in Mute => PlayEvents(e) = <<>> /\ e \in Mute)
  BY <1>2 DEF Elements, Mute
<1>5. <<>> \in Seq(Events) /\ <<"pause">> \in Seq(Events) /\ <<"playing">> \in Seq(Events)
  BY DEF Events
<1> QED
  BY <1>1, <1>2, <1>3, <1>4, <1>5

-----------------------------------------------------------------------------
(***************************************************************************)
(* What a command that is added, or carried out, does to the end of the    *)
(* queue.                                                                  *)
(***************************************************************************)
\* A video that is asked for is the one the queue ends with; no other command
\* changes that.
LEMMA EndsWithAppend ==
  ASSUME NEW q \in Seq(Commands), NEW x \in Commands, NEW p, NEW u
  PROVE  /\ (x.op # "video" /\ EndsWith(q, p, u)) => EndsWith(Append(q, x), p, u)
         /\ x.op = "video" => EndsWith(Append(q, x), p, x.url)
<1> DEFINE r == Append(q, x)
           L == Len(q)
<1>1. /\ L \in Nat /\ DOMAIN q = 1 .. L /\ DOMAIN r = 1 .. L + 1
      /\ r[L + 1] = x /\ \A i \in 1 .. L : r[i] = q[i]
  BY AppendSeq
<1>2. /\ 1 .. L \subseteq 1 .. L + 1 /\ L + 1 \in 1 .. L + 1
      /\ \A i \in 1 .. L + 1 : i \in 1 .. L \/ i = L + 1
      /\ \A i \in 1 .. L : i < L + 1
  BY <1>1
<1> HIDE DEF r, L
<1>3. (x.op # "video" /\ EndsWith(q, p, u)) => EndsWith(r, p, u)
  BY <1>1, <1>2 DEF EndsWith
<1>4. x.op = "video" => EndsWith(r, p, x.url)
  BY <1>1, <1>2 DEF EndsWith
<1> QED
  BY <1>3, <1>4 DEF r

\* A command that decides decides what the queue ends in; no other does.
LEMMA EndsInAppend ==
  ASSUME NEW q \in Seq(Commands), NEW x \in Commands, NEW p, NEW s
  PROVE  /\ (x.op \notin Deciding /\ EndsIn(q, p, s)) => EndsIn(Append(q, x), p, s)
         /\ (x.op \in Deciding /\ (x.op \in Stopping <=> s = "off")) => EndsIn(Append(q, x), p, s)
<1> DEFINE r == Append(q, x)
           L == Len(q)
<1>1. /\ L \in Nat /\ DOMAIN q = 1 .. L /\ DOMAIN r = 1 .. L + 1
      /\ r[L + 1] = x /\ \A i \in 1 .. L : r[i] = q[i]
  BY AppendSeq
<1>2. /\ 1 .. L \subseteq 1 .. L + 1 /\ L + 1 \in 1 .. L + 1
      /\ \A i \in 1 .. L + 1 : i \in 1 .. L \/ i = L + 1
      /\ \A i \in 1 .. L : i < L + 1
  BY <1>1
<1> HIDE DEF r, L
<1>3. (x.op \notin Deciding /\ EndsIn(q, p, s)) => EndsIn(r, p, s)
  BY <1>1, <1>2 DEF EndsIn
<1>4. (x.op \in Deciding /\ (x.op \in Stopping <=> s = "off")) => EndsIn(r, p, s)
  BY <1>1, <1>2 DEF EndsIn
<1> QED
  BY <1>3, <1>4 DEF r

\* A command that is carried out leaves the queue's last video what it was.
LEMMA EndsWithTail ==
  ASSUME NEW q \in Seq(Commands), q # <<>>, NEW p, NEW p2, NEW u, EndsWith(q, p, u),
         p2.url = IF q[1].op = "video" THEN q[1].url ELSE p.url
  PROVE  EndsWith(Tail(q), p2, u)
<1> DEFINE r == Tail(q)
           L == Len(q)
<1>1. /\ L \in Nat \ {0} /\ DOMAIN q = 1 .. L /\ DOMAIN r = 1 .. L - 1
      /\ \A i \in 1 .. L - 1 : r[i] = q[i + 1]
  BY TailSeq
<1>2. /\ \A i \in 1 .. L - 1 : i + 1 \in 1 .. L
      /\ \A i \in 1 .. L : i = 1 \/ i - 1 \in 1 .. L - 1
      /\ \A i \in 1 .. L : i = 1 \/ (i - 1) + 1 = i
      /\ \A i, j \in 1 .. L : i < j => j - 1 \in 1 .. L - 1
      /\ \A i \in 1 .. L - 1, j \in 1 .. L : i + 1 < j => i < j - 1
      /\ 1 \in 1 .. L
  BY <1>1
<1>3. \A j \in 1 .. L : j # 1 => q[j] = r[j - 1]
  BY <1>1, <1>2
<1> HIDE DEF r, L
<1>4. ASSUME NEW i \in 1 .. L - 1, r[i].op = "video"
      PROVE  r[i].url = u \/ \E j \in 1 .. L - 1 : i < j /\ r[j].op = "video"
  <2>1. CASE q[i + 1].url = u
    BY <1>1, <1>4, <2>1
  <2>2. CASE \E j \in 1 .. L : i + 1 < j /\ q[j].op = "video"
    <3>1. PICK j \in 1 .. L : i + 1 < j /\ q[j].op = "video"
      BY <2>2
    <3>2. j # 1 /\ j - 1 \in 1 .. L - 1 /\ i < j - 1
      BY <1>1, <1>2, <3>1
    <3> QED
      BY <1>3, <3>1, <3>2
  <2> QED
    BY <1>1, <1>2, <1>4, <2>1, <2>2 DEF EndsWith
<1>5. (\E i \in 1 .. L - 1 : r[i].op = "video") \/ p2.url = u
  <2>1. CASE \E j \in 1 .. L : j # 1 /\ q[j].op = "video"
    BY <1>2, <1>3, <2>1
  <2>2. CASE \A j \in 1 .. L : q[j].op = "video" => j = 1
    <3>1. q[1].op = "video" => q[1].url = u
      BY <1>1, <1>2, <2>2 DEF EndsWith
    <3>2. q[1].op # "video" => p.url = u
      BY <1>1, <2>2 DEF EndsWith
    <3> QED
      BY <3>1, <3>2
  <2> QED
    BY <2>1, <2>2
<1>6. EndsWith(r, p2, u)
  BY <1>1, <1>4, <1>5 DEF EndsWith
<1> QED
  BY <1>6 DEF r

\* A command that decides leaves ffmpeg as it says, or another one follows; the
\* other commands leave ffmpeg alone.
LEMMA EndsInTail ==
  ASSUME NEW q \in Seq(Commands), q # <<>>, NEW p, NEW p2, NEW s \in {"on", "off"}, EndsIn(q, p, s),
         q[1].op \notin Deciding => p2.state = p.state,
         q[1].op \in Deciding =>
           \/ Fits(p2.state, IF q[1].op \in Stopping THEN "off" ELSE "on")
           \/ \E j \in DOMAIN q : 1 < j /\ q[j].op \in Deciding
  PROVE  EndsIn(Tail(q), p2, s)
<1> DEFINE r == Tail(q)
           L == Len(q)
<1>1. /\ L \in Nat \ {0} /\ DOMAIN q = 1 .. L /\ DOMAIN r = 1 .. L - 1
      /\ \A i \in 1 .. L - 1 : r[i] = q[i + 1]
  BY TailSeq
<1>2. /\ \A i \in 1 .. L - 1 : i + 1 \in 1 .. L
      /\ \A i \in 1 .. L : i = 1 \/ i - 1 \in 1 .. L - 1
      /\ \A i \in 1 .. L : i = 1 \/ (i - 1) + 1 = i
      /\ \A i \in 1 .. L : 1 < i => i # 1
      /\ \A i \in 1 .. L - 1, j \in 1 .. L : i + 1 < j => (i < j - 1 /\ j # 1)
      /\ 1 \in 1 .. L
  BY <1>1
<1>3. \A j \in 1 .. L : j # 1 => (q[j] = r[j - 1] /\ j - 1 \in 1 .. L - 1)
  BY <1>1, <1>2
<1> HIDE DEF r, L
<1>4. ASSUME NEW i \in 1 .. L - 1, r[i].op \in Deciding
      PROVE  (r[i].op \in Stopping <=> s = "off") \/ \E j \in 1 .. L - 1 : i < j /\ r[j].op \in Deciding
  <2>1. CASE q[i + 1].op \in Stopping <=> s = "off"
    BY <1>1, <1>4, <2>1
  <2>2. CASE \E j \in 1 .. L : i + 1 < j /\ q[j].op \in Deciding
    BY <1>2, <1>3, <2>2
  <2> QED
    BY <1>1, <1>2, <1>4, <2>1, <2>2 DEF EndsIn
<1>5. (\E i \in 1 .. L - 1 : r[i].op \in Deciding) \/ Fits(p2.state, s)
  <2>1. CASE \E j \in 1 .. L : j # 1 /\ q[j].op \in Deciding
    BY <1>3, <2>1
  <2>2. CASE \A j \in 1 .. L : q[j].op \in Deciding => j = 1
    <3>1. CASE q[1].op \in Deciding
      <4>1. q[1].op \in Stopping <=> s = "off"
        BY <1>1, <1>2, <2>2, <3>1 DEF EndsIn
      <4>2. Fits(p2.state, IF q[1].op \in Stopping THEN "off" ELSE "on")
        BY <1>1, <1>2, <2>2, <3>1
      <4> QED
        BY <4>1, <4>2
    <3>2. CASE q[1].op \notin Deciding
      <4>1. Fits(p.state, s)
        BY <1>1, <2>2, <3>2 DEF EndsIn
      <4> QED
        BY <3>2, <4>1
    <3> QED
      BY <3>1, <3>2
  <2> QED
    BY <2>1, <2>2
<1>6. EndsIn(r, p2, s)
  BY <1>1, <1>4, <1>5 DEF EndsIn
<1> QED
  BY <1>6 DEF r

-----------------------------------------------------------------------------
(***************************************************************************)
(* TypeOK, Queue(commands) and Counts: step by step.                       *)
(***************************************************************************)
\* A queue stays one when a command is added, or carried out.
LEMMA QueueAppend ==
  ASSUME NEW q, Queue(q), NEW x \in Commands, x.op \in {"video", "dash"} => x.url \in Urls
  PROVE  Queue(Append(q, x))
<1>1. /\ Append(q, x) \in Seq(Commands) /\ Len(q) \in Nat
      /\ DOMAIN q = 1 .. Len(q) /\ DOMAIN Append(q, x) = 1 .. Len(q) + 1
      /\ Append(q, x)[Len(q) + 1] = x /\ \A i \in 1 .. Len(q) : Append(q, x)[i] = q[i]
  BY AppendSeq DEF Queue
<1>2. \A i \in 1 .. Len(q) + 1 : i \in 1 .. Len(q) \/ i = Len(q) + 1
  BY <1>1
<1> QED
  BY <1>1, <1>2 DEF Queue

\* A command that names no video keeps the queue one.
LEMMA QueuePlain ==
  ASSUME NEW q, Queue(q), NEW op \in Ops \ {"video", "dash"}
  PROVE  Queue(Append(q, Plain(op)))
  BY PlainType, QueueAppend

\* A command that is carried out leaves a queue.
LEMMA QueueTail ==
  ASSUME NEW q, Queue(q), q # <<>>
  PROVE  /\ Queue(Tail(q)) /\ q[1] \in Commands /\ Head(q) = q[1]
         /\ q[1].op \in {"video", "dash"} => q[1].url \in Urls
<1>1. /\ Tail(q) \in Seq(Commands) /\ Head(q) = q[1] /\ q[1] \in Commands
      /\ Len(q) \in Nat \ {0}
      /\ DOMAIN q = 1 .. Len(q) /\ DOMAIN Tail(q) = 1 .. Len(q) - 1
      /\ \A i \in 1 .. Len(q) - 1 : Tail(q)[i] = q[i + 1]
  BY TailSeq DEF Queue
<1>2. 1 \in 1 .. Len(q) /\ \A i \in 1 .. Len(q) - 1 : i + 1 \in 1 .. Len(q)
  BY <1>1
<1> QED
  BY <1>1, <1>2 DEF Queue

\* Events that are added to those under way.
LEMMA EventsType ==
  ASSUME NEW q \in Seq(Events), NEW e \in Elements
  PROVE  /\ q \o PauseEvents(e) \in Seq(Events) /\ q \o PlayEvents(e) \in Seq(Events)
         /\ (e \in Mute => q = <<>>) =>
              /\ Paused(e) \in Mute => q \o PauseEvents(e) = <<>>
              /\ Played(e) \in Mute => q \o PlayEvents(e) = <<>>
<1>1. q \o <<>> = q
  BY AppendNone
<1> QED
  BY <1>1, ElementType

\* The type invariant, with names for the sets whose elements do not matter.
Rewinds == [all : 0 .. MaxCalls, named : BOOLEAN]
Modes == {"on", "off", "failed", "dead", "unforked", "detached"}
Players == [url : Urls \cup {NoUrl}, state : Modes]
Wishes == [url : Urls \cup {NoUrl}, state : {"on", "off"}]
States == {"stopped", "playing", "paused", "finished", "error"}
Timers == Seq({"pause", "play"})
Whys == {"no", "speed", "seek", "overtaken"}

Typed ==
  /\ data \in Urls \cup {Fail}
  /\ src \in 0 .. MaxVideos /\ movie \in 0 .. MaxVideos
  /\ element \in Elements /\ playState \in States
  /\ timers \in Timers /\ rewinds \in Rewinds /\ rewinds.all <= calls
  /\ events \in Seq(Events) /\ (element \in Mute => events = <<>>)
  /\ manifests \subseteq Urls /\ described \subseteq Urls
  /\ player \in Players /\ wish \in Wishes
  /\ unheard \in Whys
  /\ crashed \in BOOLEAN /\ wound \in BOOLEAN /\ hasty \in BOOLEAN
  /\ videos \in 0 .. MaxVideos /\ calls \in 0 .. MaxCalls
  /\ Queue(commands)
  /\ data # Fail => videos < MaxVideos /\ element # "none"

\* Typed is the type invariant, in this state and in the next.
LEMMA TypedIs == /\ Typed <=> (TypeOK /\ Queue(commands) /\ Counts)
                 /\ Typed' <=> (TypeOK' /\ Queue(commands)' /\ Counts')
  BY DEF Typed, TypeOK, Counts, Elements, States, Timers, Rewinds, Events, Mute, Players, Modes, Wishes,
         Whys

\* What is told is on or off.
LEMMA ToldType == Told \in {"on", "off"}
  BY DEF Told

\* What the page asks for, and what is told then.
LEMMA AskIs ==
  ASSUME wish \in Wishes, NEW s \in {"on", "off"}, NEW t \in {"on", "off"}, NEW w \in Whys, Ask(s, t, w)
  PROVE  /\ wish' \in Wishes /\ wish'.url = wish.url /\ wish'.state = s
         /\ unheard' \in Whys /\ unheard' = IF s = t THEN "no" ELSE w
         /\ (w # "no" \/ s = t) => Told' = t
<1>1. /\ wish' \in Wishes /\ wish'.url = wish.url /\ wish'.state = s
      /\ unheard' = IF s = t THEN "no" ELSE w
  BY DEF Ask, Wishes
<1>2. unheard' \in Whys
  BY <1>1 DEF Whys
<1>3. (w # "no" \/ s = t) => Told' = t
  <2>1. CASE s = t
    BY <1>1, <2>1 DEF Told
  <2>2. CASE s # t
    BY <1>1, <2>2 DEF Told
  <2> QED
    BY <2>1, <2>2
<1> QED
  BY <1>1, <1>2, <1>3

\* What the page stops is off, unless it is started by a change of data.
LEMMA AskStopIs ==
  ASSUME wish \in Wishes, AskStop
  PROVE  /\ wish' \in Wishes /\ wish'.url = wish.url /\ wish'.state = "off"
         /\ unheard' \in Whys /\ unheard' \in {"no", "overtaken"}
         /\ unheard' = "overtaken" => data # Fail
         /\ Told' = IF data = Fail THEN "off" ELSE "on"
<1>1. "overtaken" \in Whys /\ "overtaken" # "no"
  BY DEF Whys
<1>2. CASE data = Fail
  BY <1>1, <1>2, AskIs DEF AskStop
<1>3. CASE data # Fail
  BY <1>1, <1>3, AskIs DEF AskStop
<1> QED
  BY <1>2, <1>3

\* What the listeners say of the end of a movie.
LEMMA AskEndIs ==
  ASSUME wish \in Wishes, Ask("off", "off", "no")
  PROVE  /\ wish' \in Wishes /\ wish'.url = wish.url /\ wish'.state = "off"
         /\ unheard' = "no" /\ unheard' \in Whys /\ Told' = "off"
<1>1. "no" \in Whys
  BY DEF Whys
<1> QED
  BY <1>1, AskIs

\* A play with a speed, and a seek, of the page: what is told, and why.
LEMMA AskOthers ==
  ASSUME wish \in Wishes
  PROVE  /\ Ask("on", "on", "no") =>
              /\ wish' \in Wishes /\ wish'.url = wish.url /\ wish'.state = "on"
              /\ unheard' = "no" /\ unheard' \in Whys /\ Told' = "on"
         /\ Ask("on", Told, "speed") =>
              /\ wish' \in Wishes /\ wish'.url = wish.url /\ wish'.state = "on"
              /\ unheard' \in {"no", "speed"} /\ unheard' \in Whys /\ Told' = Told
         /\ Ask(wish.state, "on", "seek") =>
              /\ wish' \in Wishes /\ wish'.url = wish.url /\ wish'.state = wish.state
              /\ unheard' \in {"no", "seek"} /\ unheard' \in Whys /\ Told' = "on"
              /\ unheard' = "seek" => wish.state = "off"
<1>1. /\ "no" \in Whys /\ "speed" \in Whys /\ "seek" \in Whys /\ "seek" # "no" /\ "speed" # "no"
      /\ wish.state \in {"on", "off"} /\ Told \in {"on", "off"}
  BY ToldType DEF Whys, Wishes
<1>2. ASSUME Ask("on", "on", "no")
      PROVE  /\ wish' \in Wishes /\ wish'.url = wish.url /\ wish'.state = "on"
             /\ unheard' = "no" /\ unheard' \in Whys /\ Told' = "on"
  BY <1>1, <1>2, AskIs
<1>3. ASSUME Ask("on", Told, "speed")
      PROVE  /\ wish' \in Wishes /\ wish'.url = wish.url /\ wish'.state = "on"
             /\ unheard' \in {"no", "speed"} /\ unheard' \in Whys /\ Told' = Told
  BY <1>1, <1>3, AskIs
<1>4. ASSUME Ask(wish.state, "on", "seek")
      PROVE  /\ wish' \in Wishes /\ wish'.url = wish.url /\ wish'.state = wish.state
             /\ unheard' \in {"no", "seek"} /\ unheard' \in Whys /\ Told' = "on"
             /\ unheard' = "seek" => wish.state = "off"
  BY <1>1, <1>4, AskIs
<1> QED
  BY <1>2, <1>3, <1>4

\* Video(u, s) is a wish, and what a transcoder may hold.
LEMMA VideoWishType ==
  ASSUME NEW u \in Urls \cup {NoUrl}, NEW s \in {"on", "off"}
  PROVE  Video(u, s) \in Wishes /\ Video(u, s) \in Players /\ Video(u, s).url = u /\ Video(u, s).state = s
  BY DEF Video, Wishes, Players, Modes

\* The intervals that run are counted, and there are at most MaxCalls.
LEMMA RewindType ==
  /\ NoRewind \in Rewinds /\ NoRewind.all = 0
  /\ \A n \in 0 .. MaxCalls, b \in BOOLEAN :
       [all |-> n, named |-> b] \in Rewinds /\ [all |-> n, named |-> b].all = n
  /\ \A r \in Rewinds : r.all \in 0 .. MaxCalls /\ r.named \in BOOLEAN
  BY BoundAssumption DEF NoRewind, Rewinds

\* A timer that is set, or runs, keeps the timers a sequence.
LEMMA TimersType ==
  ASSUME NEW q \in Timers
  PROVE  /\ Append(q, "pause") \in Timers /\ Append(q, "play") \in Timers /\ <<>> \in Timers
         /\ q # <<>> => Tail(q) \in Timers /\ Head(q) = q[1] /\ q[1] \in {"pause", "play"}
  BY AppendSeq, TailSeq DEF Timers

\* What all calls do.
LEMMA CallIs ==
  ASSUME Typed, NEW b, Call(b)
  PROVE  /\ calls' \in 0 .. MaxCalls /\ calls' = calls + 1 /\ calls \in Nat /\ MaxCalls \in Nat
         /\ calls < MaxCalls /\ ~crashed /\ element # "none"
         /\ hasty' \in BOOLEAN
         /\ hasty' <=> (hasty \/ data # Fail \/ Over \/ ~b)
         /\ UNCHANGED <<data, src, manifests, movie, described, crashed, player, videos>>
<1>1. calls' \in 0 .. MaxCalls /\ calls' = calls + 1 /\ calls \in Nat /\ MaxCalls \in Nat /\ calls < MaxCalls
  BY BoundAssumption DEF Typed, Call
<1>2. /\ hasty' \in BOOLEAN
      /\ hasty' <=> (hasty \/ data # Fail \/ Over \/ ~b)
  BY Zenon DEF Call
<1>3. /\ ~crashed /\ element # "none"
      /\ UNCHANGED <<data, src, manifests, movie, described, crashed, player, videos>>
  BY DEF Call, browserVars
<1> QED
  BY <1>1, <1>2, <1>3

\* What a call asks for and tells.
LEMMA CallAsks ==
  ASSUME Typed, Calls
  PROVE  /\ wish' \in Wishes /\ wish'.url = wish.url /\ unheard' \in Whys
         /\ unheard' = "speed" => wish'.state = "on"
         /\ unheard' \in {"seek", "overtaken"} => wish'.state = "off"
         /\ unheard' = "overtaken" => data # Fail
<1>1. wish \in Wishes
  BY DEF Typed
<1>2. CASE PlayPause \/ Stop
  BY <1>1, <1>2, AskStopIs DEF PlayPause, Stop
<1>3. CASE PlayResume
  BY <1>1, <1>3, AskOthers DEF PlayResume
<1>4. CASE PlayFast \/ PlayBackward
  BY <1>1, <1>4, AskOthers DEF PlayFast, PlayBackward
<1>5. CASE Seek
  BY <1>1, <1>5, AskOthers DEF Seek
<1> QED
  BY <1>2, <1>3, <1>4, <1>5 DEF Calls

\* The calls of the page.
LEMMA CallTypes == ASSUME Typed, Calls PROVE Typed'
<1> USE BoundAssumption
<1>1. /\ \A op \in Ops \ {"video", "dash"} : Queue(Append(commands, Plain(op)))
      /\ {"pause", "resume", "stop", "seek", "speed"} \subseteq Ops \ {"video", "dash"}
  BY QueuePlain DEF Typed, Ops
<1>2. calls' \in 0 .. MaxCalls /\ calls' = calls + 1 /\ calls \in Nat /\ MaxCalls \in Nat /\ calls < MaxCalls
      /\ element # "none" /\ hasty' \in BOOLEAN
      /\ UNCHANGED <<data, src, manifests, movie, described, crashed, player, videos>>
  BY CallIs DEF Calls, PlayPause, PlayResume, PlayFast, PlayBackward, Stop, Seek
<1>3. rewinds.all \in Nat /\ rewinds.all <= calls /\ wish' \in Wishes /\ unheard' \in Whys
  BY RewindType, CallAsks DEF Typed
<1>4. CASE PlayPause
  BY <1>1, <1>2, <1>3, <1>4, TimersType DEF Typed, PlayPause
<1>5. CASE PlayResume
  BY <1>1, <1>2, <1>3, <1>5, TimersType DEF Typed, PlayResume
<1>6. CASE PlayFast
  BY <1>1, <1>2, <1>3, <1>6, TimersType DEF Typed, PlayFast
<1>7. CASE Seek
  <2>1. Sought(element) \in Elements /\ (Sought(element) \in Mute => element \in Mute)
        /\ Sought(element) # "none"
    BY <1>2 DEF Typed, Sought, Elements, Mute
  <2> QED
    BY <1>1, <1>2, <1>3, <1>7, <2>1 DEF Typed, Seek
<1>8. CASE PlayBackward
  <2>1. Played(element) \in Elements /\ events \o PlayEvents(element) \in Seq(Events)
        /\ (Played(element) \in Mute => events \o PlayEvents(element) = <<>>)
        /\ (element # "none" => Played(element) # "none")
    BY ElementType, EventsType DEF Typed, Played
  <2>2. rewinds' \in Rewinds /\ rewinds'.all <= calls'
    <3>1. rewinds.all + 1 \in 0 .. MaxCalls /\ rewinds.all + 1 <= calls'
      BY <1>2, <1>3
    <3>2. rewinds' = [all |-> rewinds.all + 1, named |-> TRUE]
      BY <1>8 DEF PlayBackward
    <3> QED
      BY <3>1, <3>2, RewindType
  <2> QED
    BY <1>1, <1>2, <1>3, <1>8, <2>1, <2>2 DEF Typed, PlayBackward
<1>9. CASE Stop
  <2>1. Paused(element) \in Elements /\ events \o PauseEvents(element) \in Seq(Events)
        /\ (Paused(element) \in Mute => events \o PauseEvents(element) = <<>>)
        /\ (element # "none" => Paused(element) # "none")
    BY ElementType, EventsType DEF Typed, Paused
  <2>2. LET e == Sought(Paused(element)) IN
        e \in Elements /\ (e \in Mute => Paused(element) \in Mute) /\ e # "none"
    BY <1>2, <2>1 DEF Sought, Elements, Mute
  <2>3. "stopped" \in States
    BY DEF States
  <2> QED
    BY <1>1, <1>2, <1>3, <1>9, <2>1, <2>2, <2>3 DEF Typed, Stop
<1> QED
  BY <1>4, <1>5, <1>6, <1>7, <1>8, <1>9 DEF Calls

\* New objects, and the videos the page asks for.
LEMMA PageTypes ==
  ASSUME Typed,
         \/ \E u \in Urls : NewObject(u) \/ SetData(u)
         \/ \E u \in DashUrls : NewDashObject(u) \/ ManifestArrives(u)
         \/ NewEmptyObject \/ DataChanged \/ Navigate
  PROVE  Typed'
<1> USE UrlAssumption, BoundAssumption
<1> DEFINE Kept == UNCHANGED <<data, playState, timers, rewinds, events, movie, described, crashed, player>>
<1>1. ASSUME NEW u, NEW s, u \in Urls \cup {NoUrl}, s \in {"on", "off"}, Inject(u, s)
      PROVE  /\ calls' \in 0 .. MaxCalls /\ calls' = calls + 1 /\ calls \in Nat
             /\ wish' \in Wishes /\ unheard' \in Whys /\ wound' = FALSE /\ hasty' = FALSE
             /\ Kept /\ data = Fail /\ element = "none" /\ events = <<>>
             /\ rewinds \in Rewinds /\ rewinds.all \in Nat /\ rewinds.all <= calls'
  <2>1. calls' = calls + 1 /\ calls < MaxCalls /\ wish' = Video(u, s) /\ unheard' \in Whys /\ wound' = FALSE
        /\ hasty' = FALSE /\ Kept /\ data = Fail /\ element = "none"
    BY <1>1 DEF Inject, Idle, browserVars, Whys
  <2>2. wish' \in Wishes
    BY <1>1, <2>1, VideoWishType
  <2>3. events = <<>> /\ rewinds \in Rewinds /\ rewinds.all \in Nat /\ rewinds.all <= calls
    BY <2>1, RewindType DEF Typed, Mute
  <2> QED
    BY <2>1, <2>2, <2>3 DEF Typed
<1>2. "clear" \in Ops \ {"video", "dash"}
  BY DEF Ops
<1>3. "empty" \in Elements /\ "loading" \in Elements /\ "none" \in Elements
      /\ "loading" # "none" /\ "empty" # "none"
  BY DEF Elements
<1>4. ASSUME NEW u \in Urls, NEW n \in 0 .. MaxVideos, NEW q, Queue(q)
      PROVE  Queue(Append(q, Command("video", u, n))) /\ Queue(Append(q, Command("dash", u, 0)))
  BY <1>4, VideoType, QueueAppend
<1>5. ASSUME NEW u \in Urls, NewObject(u) PROVE Typed'
  <2>1. Inject(u, "on")
    BY <1>5 DEF NewObject
  <2>2. videos + 1 \in 0 .. MaxVideos /\ Queue(commands) /\ videos' = videos + 1 /\ src' = videos + 1
    BY <1>5 DEF Typed, NewObject
  <2>3. Queue(commands')
    BY <1>4, <1>5, <2>2 DEF NewObject
  <2> QED
    BY <1>1, <1>3, <1>5, <2>1, <2>2, <2>3 DEF Typed, NewObject
<1>6. ASSUME NewEmptyObject PROVE Typed'
  <2>1. Inject(NoUrl, "off")
    BY <1>6 DEF NewEmptyObject
  <2> QED
    BY <1>1, <1>3, <1>6, <2>1 DEF Typed, NewEmptyObject
<1>7. ASSUME NEW u \in DashUrls, NewDashObject(u) PROVE Typed'
  <2>1. Inject(NoUrl, "off")
    BY <1>7 DEF NewDashObject
  <2>2. Queue(commands')
    BY <1>2, <1>7, QueuePlain DEF Typed, NewDashObject
  <2> QED
    BY <1>1, <1>3, <1>7, <2>1, <2>2 DEF Typed, NewDashObject
<1>8. ASSUME NEW u \in Urls, SetData(u) PROVE Typed'
  <2>1. wish' \in Wishes
    BY <1>8, VideoWishType DEF SetData
  <2>2. hasty' \in BOOLEAN /\ unheard' \in Whys
    BY <1>8 DEF SetData, Whys
  <2> QED
    BY <1>8, <2>1, <2>2 DEF Typed, SetData, browserVars
<1>9. ASSUME NEW u \in DashUrls, ManifestArrives(u) PROVE Typed'
  <2>1. 0 \in 0 .. MaxVideos /\ Queue(commands)
    BY DEF Typed
  <2>2. Queue(commands')
    BY <1>4, <1>9, <2>1 DEF ManifestArrives
  <2> QED
    BY <1>9, <2>2 DEF Typed, ManifestArrives, browserVars, histVars
<1>10. ASSUME DataChanged PROVE Typed'
  <2>1. data \in Urls /\ videos + 1 \in 0 .. MaxVideos
    BY <1>10 DEF Typed, DataChanged
  <2>2. Queue(Append(commands, Plain("clear")))
    BY <1>2, QueuePlain DEF Typed
  <2>3. Queue(Append(Append(commands, Plain("clear")), Command("video", data, videos + 1)))
    BY <1>4, <2>1, <2>2
  <2>4. /\ commands \in Seq(Commands) /\ Plain("clear") \in Commands
        /\ Command("video", data, videos + 1) \in Commands
    BY <1>2, <2>1, PlainType, VideoType DEF Typed, Queue
  <2>5. Queue(commands')
    <3>1. ASSUME NEW x \in Commands, NEW y \in Commands
          PROVE  commands \o <<x, y>> = Append(Append(commands, x), y)
      BY <2>4, AppendTwo
    <3>2. commands' = commands \o <<Plain("clear"), Command("video", data, videos + 1)>>
      BY <1>10 DEF DataChanged
    <3>3. commands' = Append(Append(commands, Plain("clear")), Command("video", data, videos + 1))
      BY <2>4, <3>1, <3>2
    <3> QED
      BY <2>3, <3>3
  <2>6. <<>> \in Seq(Events)
    OBVIOUS
  <2> QED
    BY <1>3, <1>10, <2>1, <2>5, <2>6 DEF Typed, DataChanged, browserVars, histVars
<1>11. ASSUME Navigate PROVE Typed'
  <2>1. wish' \in Wishes
    BY <1>11, VideoWishType DEF Navigate
  <2>2. <<>> \in Seq(Events) /\ "stopped" \in States /\ <<>> \in Timers /\ "no" \in Whys
    BY DEF States, Timers, Whys
  <2>3. rewinds' \in Rewinds /\ rewinds'.all <= calls'
    BY <1>11, RewindType DEF Typed, Navigate
  <2>4. calls' \in 0 .. MaxCalls /\ data = Fail /\ 0 \in 0 .. MaxVideos
    BY <1>11 DEF Typed, Navigate, Idle
  <2> QED
    BY <1>3, <1>11, <2>1, <2>2, <2>3, <2>4 DEF Typed, Navigate, browserVars
<1> QED
  BY <1>5, <1>6, <1>7, <1>8, <1>9, <1>10, <1>11

\* The element and the listeners.
LEMMA ElementTypes ==
  ASSUME Typed, Timer \/ Rewind \/ Event \/ ElementLoads \/ ElementEnds
  PROVE  Typed'
<1> USE BoundAssumption
<1>1. /\ "playing" \in Elements /\ "paused" \in Elements /\ "ended" \in Elements /\ "error" \in Elements
      /\ {"playing", "paused", "ended", "error"} \cap Mute = {} /\ data \in Urls \cup {Fail}
      /\ "playing" \in Events /\ "pause" \in Events /\ "ended" \in Events /\ "error" \in Events
  BY DEF Typed, Elements, Mute, Events
<1>2. Idle => data = Fail
  BY DEF Idle
<1>3. CASE Timer
  <2>1. /\ Played(element) \in Elements /\ events \o PlayEvents(element) \in Seq(Events)
        /\ (Played(element) \in Mute => events \o PlayEvents(element) = <<>>)
        /\ Paused(element) \in Elements /\ events \o PauseEvents(element) \in Seq(Events)
        /\ (Paused(element) \in Mute => events \o PauseEvents(element) = <<>>)
    BY ElementType, EventsType DEF Typed
  <2>2. Tail(timers) \in Timers
    BY <1>3, TimersType DEF Typed, Timer
  <2>3. wound' \in BOOLEAN
    BY <1>3 DEF Typed, Timer
  <2> QED
    BY <1>2, <1>3, <2>1, <2>2, <2>3 DEF Typed, Timer, browserVars
<1>4. CASE Rewind
  <2>1. /\ Paused(element) \in Elements /\ events \o PauseEvents(element) \in Seq(Events)
        /\ (Paused(element) \in Mute => events \o PauseEvents(element) = <<>>)
    BY ElementType, EventsType DEF Typed
  <2>2. rewinds.all \in Nat /\ calls \in Nat /\ rewinds.all <= calls
        /\ rewinds.all \in 0 .. MaxCalls
    BY RewindType DEF Typed
  <2>3. rewinds' \in Rewinds /\ rewinds'.all <= calls
    <3>1. CASE rewinds' = rewinds
      BY <3>1, <2>2 DEF Typed
    <3>2. CASE rewinds' = [all |-> rewinds.all - 1, named |-> FALSE]
      <4>1. rewinds.all - 1 \in 0 .. MaxCalls /\ rewinds.all - 1 <= calls
        BY <1>4, <2>2 DEF Rewind
      <4> QED
        BY <3>2, <4>1, RewindType
    <3> QED
      BY <1>4, <3>1, <3>2 DEF Rewind
  <2>4. wound' \in BOOLEAN
    BY <1>4, Zenon DEF Typed, Rewind
  <2>5. CASE element = "ended"
    BY <1>1, <1>2, <1>4, <2>3, <2>4, <2>5 DEF Typed, Rewind, browserVars
  <2>6. CASE element # "ended"
    BY <1>2, <1>4, <2>1, <2>3, <2>4, <2>6 DEF Typed, Rewind, browserVars
  <2> QED
    BY <2>5, <2>6
<1>5. CASE Event
  <2>1. Tail(events) \in Seq(Events) /\ Head(events) \in Events /\ events # <<>>
    BY <1>5, TailSeq DEF Typed, Event
  <2>2. StateAfter(Head(events)) \in States
    BY <2>1 DEF StateAfter, States, Events
  <2>3. Queue(commands')
    <3>1. "end" \in Ops \ {"video", "dash"} /\ "error" \in Ops \ {"video", "dash"}
      BY DEF Ops
    <3>2. commands \in Seq(Commands) /\ Plain("end") \in Commands /\ Plain("error") \in Commands
      BY <3>1, PlainType DEF Typed, Queue
    <3>3. Sent(Head(events)) \in {<<>>, <<Plain("end")>>, <<Plain("error")>>}
      BY DEF Sent
    <3>4. \/ commands' = commands \/ commands' = Append(commands, Plain("end"))
          \/ commands' = Append(commands, Plain("error"))
      <4>1. commands' = commands \o Sent(Head(events))
        BY <1>5 DEF Event
      <4> QED
        BY <3>2, <3>3, <4>1, AppendNone, AppendSeq
    <3> QED
      BY <3>1, <3>4, QueuePlain DEF Typed
  <2>4. wish' \in Wishes /\ unheard' \in Whys
    BY <1>5, AskEndIs DEF Typed, Event
  <2>5. element \notin Mute
    BY <2>1 DEF Typed
  <2> QED
    BY <1>2, <1>5, <2>1, <2>2, <2>3, <2>4, <2>5 DEF Typed, Event, browserVars
<1>6. CASE ElementLoads
  <2>1. \A e \in Events : Append(events, e) \in Seq(Events)
    BY AppendSeq DEF Typed
  <2> QED
    BY <1>1, <1>2, <1>6, <2>1 DEF Typed, ElementLoads, browserVars, histVars
<1>7. CASE ElementEnds
  <2>1. \A e \in Events : Append(events, e) \in Seq(Events)
    BY AppendSeq DEF Typed
  <2>2. events \o <<"pause", "ended">> \in Seq(Events)
    BY DEF Typed, Events
  <2>3. hasty' \in BOOLEAN
    BY <1>7 DEF ElementEnds
  <2> QED
    BY <1>1, <1>2, <1>7, <2>1, <2>2, <2>3 DEF Typed, ElementEnds, browserVars
<1> QED
  BY <1>3, <1>4, <1>5, <1>6, <1>7

\* What a command finds, and leaves.
LEMMA ReceiveIs ==
  ASSUME Typed, NEW op, Receive(op)
  PROVE  /\ ~crashed /\ commands # <<>> /\ Head(commands) = commands[1] /\ commands[1].op = op
         /\ commands[1] \in Commands /\ (op \in {"video", "dash"} => commands[1].url \in Urls)
         /\ commands' = Tail(commands) /\ Queue(commands')
         /\ UNCHANGED <<data, src, element, playState, timers, rewinds, events, manifests, wish, unheard,
                        wound, hasty, videos, calls>>
<1>1. ~crashed /\ commands # <<>> /\ Head(commands).op = op /\ commands' = Tail(commands)
  BY DEF Receive
<1>2. UNCHANGED <<data, src, element, playState, timers, rewinds, events, manifests, wish, unheard,
                  wound, hasty, videos, calls>>
  BY DEF Receive, pageVars, histVars
<1> QED
  BY <1>1, <1>2, QueueTail DEF Typed

\* What State(S) makes of the transcoder.
LEMMA StateIs ==
  ASSUME player \in Players, NEW S \in SUBSET Modes, State(S)
  PROVE  /\ player' \in Players /\ player'.url = player.url
         /\ Transcoder => player'.state \in S
         /\ ~Transcoder => player' = player
<1>1. CASE Transcoder
  <2>1. PICK s \in S : player' = [player EXCEPT !.state = s]
    BY <1>1 DEF State
  <2> QED
    BY <1>1, <2>1 DEF Players
<1>2. CASE ~Transcoder
  BY <1>2 DEF State
<1> QED
  BY <1>1, <1>2

\* The states ffmpeg is put in.
LEMMA ModesAre ==
  /\ Started \subseteq Modes /\ "on" \in Started /\ {"off"} \subseteq Modes /\ {"detached"} \subseteq Modes
  /\ "failed" \in Modes /\ "dead" \in Modes
  /\ \A s \in Started : s # "off" /\ s # "failed"
  BY DEF Started, Modes

\* The commands that are carried out.
LEMMA QueryTypes == ASSUME Typed, OnQuery PROVE Typed'
<1> USE BoundAssumption, UrlAssumption
<1>1. PICK op : Receive(op)
  BY DEF OnQuery, QueryVideo, QueryPause, QueryResume, QuerySeek, QueryStop, QuerySpeed, QueryClearDash,
         QueryDash
<1>2. /\ Queue(commands')
      /\ UNCHANGED <<data, src, element, playState, timers, rewinds, events, manifests, wish, unheard,
                     wound, hasty, videos, calls>>
  BY <1>1, ReceiveIs
<1> DEFINE Browser == /\ movie' \in 0 .. MaxVideos /\ described' \subseteq Urls
                      /\ player' \in Players /\ crashed' \in BOOLEAN
<1>3. CASE QueryVideo
  <2>1. commands[1].url \in Urls /\ commands[1] \in Commands /\ Head(commands) = commands[1]
    BY <1>3, ReceiveIs DEF QueryVideo
  <2>2. commands[1].n \in 0 .. MaxVideos /\ \A s \in Modes : Video(commands[1].url, s) \in Players
    BY <2>1 DEF Commands, Video, Players
  <2>3. movie' \in 0 .. MaxVideos
    BY <1>3, <2>1, <2>2 DEF Typed, QueryVideo
  <2>4. player' \in Players
    BY <1>3, <2>1, <2>2, ModesAre DEF Typed, QueryVideo
  <2>5. described' \subseteq Urls /\ crashed' \in BOOLEAN
    BY <1>3 DEF Typed, QueryVideo
  <2> QED
    BY <1>2, <2>3, <2>4, <2>5 DEF Typed
<1>4. CASE QueryPause \/ QueryResume \/ QuerySeek \/ QueryStop
  <2>1. player' \in Players
    BY <1>4, StateIs, ModesAre DEF Typed, QueryPause, QueryResume, QuerySeek, QueryStop
  <2>2. Browser
    BY <1>4, <2>1 DEF Typed, QueryPause, QueryResume, QuerySeek, QueryStop
  <2> QED
    BY <1>2, <2>2 DEF Typed
<1>5. CASE QuerySpeed \/ QueryClearDash
  <2>1. Browser
    BY <1>5 DEF Typed, QuerySpeed, QueryClearDash, browserVars
  <2> QED
    BY <1>2, <2>1 DEF Typed
<1>6. CASE QueryDash
  <2>1. Browser
    BY <1>6, ReceiveIs DEF Typed, QueryDash
  <2> QED
    BY <1>2, <2>1 DEF Typed
<1> QED
  BY <1>3, <1>4, <1>5, <1>6 DEF OnQuery

\* What is done to ffmpeg without a command.
LEMMA UnaskedIs ==
  ASSUME Typed, PlayerDetached \/ FfmpegEnds
  PROVE  /\ UNCHANGED <<data, src, element, playState, timers, rewinds, events, manifests, commands, described,
                        crashed, wish, unheard, wound, hasty, videos, calls>>
         /\ ~crashed /\ player' \in Players /\ player'.url = player.url /\ movie' \in {0, movie}
         /\ player' = player \/ player'.state \in {"dead", "detached"}
         /\ player'.state = "dead" => player' = player \/ player.state = "on"
<1>1. player \in Players
  BY DEF Typed
<1>2. CASE PlayerDetached
  <2>1. player' \in Players /\ player'.url = player.url /\ (player' = player \/ player'.state = "detached")
    BY <1>1, <1>2, StateIs, ModesAre DEF PlayerDetached
  <2> QED
    BY <1>2, <2>1 DEF PlayerDetached, pageVars, histVars
<1>3. CASE FfmpegEnds
  <2>1. player' \in Players /\ player'.url = player.url /\ player'.state = "dead" /\ player.state = "on"
    BY <1>1, <1>3, ModesAre DEF FfmpegEnds, Players
  <2> QED
    BY <1>3, <2>1 DEF FfmpegEnds, pageVars, histVars
<1> QED
  BY <1>2, <1>3

\* Neither changes a type.
LEMMA UnaskedTypes == ASSUME Typed, PlayerDetached \/ FfmpegEnds PROVE Typed'
<1>1. movie' \in 0 .. MaxVideos
  BY UnaskedIs, BoundAssumption DEF Typed
<1> QED
  BY <1>1, UnaskedIs DEF Typed

\* Every step keeps the types.
LEMMA TypeStep == ASSUME Typed, [Next]_vars PROVE Typed'
<1>1. CASE UNCHANGED vars
  BY <1>1 DEF Typed, vars, pageVars, browserVars, histVars
<1> QED
  BY <1>1, CallTypes, PageTypes, ElementTypes, QueryTypes, UnaskedTypes DEF Next

-----------------------------------------------------------------------------
(***************************************************************************)
(* Numbers: step by step.                                                  *)
(***************************************************************************)
\* A command without a movie keeps the numbers, the next movie continues them.
LEMMA NumbersAppend ==
  ASSUME NEW q \in Seq(Commands), NEW x \in Commands, NEW m \in Nat, NEW v \in Nat, Numbers(q, m, v)
  PROVE  /\ x.op # "video" => Numbers(Append(q, x), m, v)
         /\ x.n = v + 1 => Numbers(Append(q, x), m, v + 1)
<1> DEFINE r == Append(q, x)
           L == Len(q)
<1>1. /\ L \in Nat /\ DOMAIN q = 1 .. L /\ DOMAIN r = 1 .. L + 1
      /\ r[L + 1] = x /\ \A i \in 1 .. L : r[i] = q[i]
  BY AppendSeq
<1>2. /\ 1 .. L \subseteq 1 .. L + 1 /\ L + 1 \in 1 .. L + 1
      /\ \A i \in 1 .. L + 1 : i \in 1 .. L \/ i = L + 1
      /\ \A i \in 1 .. L : i < L + 1 /\ ~(L + 1 < i)
      /\ ~(L + 1 < L + 1)
  BY <1>1
<1>3. \A i \in 1 .. L : q[i].n \in Nat
  <2>1. \A c \in Commands : c.n \in Nat
    BY BoundAssumption DEF Commands
  <2>2. \A i \in 1 .. L : q[i] \in Commands
    BY <1>1
  <2> QED
    BY <2>1, <2>2
<1> HIDE DEF r, L
<1>4. ASSUME x.op # "video" PROVE Numbers(r, m, v)
  BY <1>1, <1>2, <1>4 DEF Numbers
<1>5. ASSUME x.n = v + 1 PROVE Numbers(r, m, v + 1)
  <2>1. m <= v + 1 /\ m < v + 1 /\ m <= v
    BY DEF Numbers
  <2>2. ASSUME NEW i \in 1 .. L, q[i].op = "video"
        PROVE  m < q[i].n /\ q[i].n <= v + 1 /\ q[i].n < v + 1
    BY <1>1, <1>3, <2>2 DEF Numbers
  <2>3. ASSUME NEW i \in 1 .. L, NEW j \in 1 .. L, q[i].op = "video", q[j].op = "video", i < j
        PROVE  q[i].n < q[j].n
    BY <1>1, <2>3 DEF Numbers
  <2>4. ASSUME NEW i \in 1 .. L + 1, r[i].op = "video"
        PROVE  m < r[i].n /\ r[i].n <= v + 1
    BY <1>1, <1>2, <1>5, <2>1, <2>2, <2>4
  <2>5. ASSUME NEW i \in 1 .. L + 1, NEW j \in 1 .. L + 1, r[i].op = "video", r[j].op = "video", i < j
        PROVE  r[i].n < r[j].n
    BY <1>1, <1>2, <1>5, <2>2, <2>3, <2>5
  <2> QED
    BY <1>1, <2>1, <2>4, <2>5 DEF Numbers
<1> QED
  BY <1>4, <1>5 DEF r

\* The movie of the head is the one there is, none is, or the one there was stays.
LEMMA NumbersTail ==
  ASSUME NEW q \in Seq(Commands), q # <<>>, NEW m \in Nat, NEW v \in Nat, Numbers(q, m, v),
         NEW m2 \in Nat, m2 \in {0, m} \/ (q[1].op = "video" /\ m2 = q[1].n)
  PROVE  Numbers(Tail(q), m2, v)
<1> DEFINE r == Tail(q)
           L == Len(q)
<1>1. /\ L \in Nat \ {0} /\ DOMAIN q = 1 .. L /\ DOMAIN r = 1 .. L - 1
      /\ \A i \in 1 .. L - 1 : r[i] = q[i + 1]
  BY TailSeq
<1>2. /\ \A i \in 1 .. L - 1 : i + 1 \in 1 .. L /\ 1 < i + 1
      /\ \A i, j \in 1 .. L - 1 : i < j => i + 1 < j + 1
      /\ 1 \in 1 .. L
  BY <1>1
<1>3. \A i \in 1 .. L : q[i].n \in Nat
  <2>1. \A c \in Commands : c.n \in Nat
    BY BoundAssumption DEF Commands
  <2>2. \A i \in 1 .. L : q[i] \in Commands
    BY <1>1
  <2> QED
    BY <2>1, <2>2
<1> HIDE DEF r, L
<1>4. m2 <= v
  BY <1>1, <1>2, <1>3 DEF Numbers
<1>5. ASSUME NEW i \in 1 .. L - 1, r[i].op = "video"
      PROVE  m2 < r[i].n /\ r[i].n <= v
  <2>1. i + 1 \in 1 .. L /\ r[i] = q[i + 1] /\ 1 < i + 1 /\ q[i + 1].op = "video" /\ q[i + 1].n \in Nat
    BY <1>1, <1>2, <1>3, <1>5
  <2>2. m < q[i + 1].n /\ q[i + 1].n <= v
    BY <1>1, <2>1 DEF Numbers
  <2>3. q[1].op = "video" => q[1].n < q[i + 1].n
    BY <1>1, <1>2, <2>1 DEF Numbers
  <2> QED
    BY <2>1, <2>2, <2>3
<1>6. ASSUME NEW i \in 1 .. L - 1, NEW j \in 1 .. L - 1, r[i].op = "video", r[j].op = "video", i < j
      PROVE  r[i].n < r[j].n
  BY <1>1, <1>2, <1>6 DEF Numbers
<1> QED
  BY <1>1, <1>4, <1>5, <1>6 DEF Numbers, r

\* With no movie there is, those that are asked for are still in order.
LEMMA NumbersNone ==
  ASSUME NEW q \in Seq(Commands), NEW m \in Nat, NEW v \in Nat, Numbers(q, m, v)
  PROVE  Numbers(q, 0, v)
<1>1. \A i \in DOMAIN q : q[i].n \in Nat
  <2>1. \A c \in Commands : c.n \in Nat
    BY BoundAssumption DEF Commands
  <2> QED
    BY <2>1
<1> QED
  BY <1>1 DEF Numbers

\* A new object asks for a video; so does a change of data, which forgets the
\* manifests first.
NewVideo(u) == commands' = Append(commands, Command("video", u, videos + 1))
Change == commands' = Append(Append(commands, Plain("clear")), Command("video", data, videos + 1))

\* What a step does to the queue: nothing, a plain command or a manifest is
\* added, a video is asked for, or the head is carried out.
LEMMA QueueStep ==
  ASSUME Typed, [Next]_vars
  PROVE  \/ commands' = commands /\ videos' = videos
         \/ \E x \in Commands : x.op # "video" /\ commands' = Append(commands, x) /\ videos' = videos
         \/ \E u \in Urls : NewObject(u) /\ NewVideo(u) /\ videos' = videos + 1 /\ videos < MaxVideos
         \/ DataChanged /\ Change /\ videos' = videos + 1 /\ data \in Urls /\ videos < MaxVideos
         \/ OnQuery /\ commands' = Tail(commands) /\ videos' = videos
<1> USE UrlAssumption, BoundAssumption
<1>1. \A op \in {"clear", "pause", "resume", "stop", "seek", "speed", "end", "error"} :
        Plain(op) \in Commands /\ Plain(op).op # "video"
  BY PlainType DEF Ops
<1>2. \A u \in DashUrls : Command("dash", u, 0) \in Commands /\ Command("dash", u, 0).op # "video"
  BY VideoType
<1>3. commands \in Seq(Commands)
  BY DEF Typed, Queue
<1>4. CASE UNCHANGED vars
  BY <1>4 DEF vars
<1>5. CASE Calls
  BY <1>1, <1>5 DEF Calls, PlayPause, PlayResume, PlayFast, PlayBackward, Stop, Seek, Call
<1>6. CASE NewEmptyObject \/ Navigate \/ Timer \/ Rewind \/ ElementLoads \/ ElementEnds
  BY <1>6 DEF NewEmptyObject, Navigate, Timer, Rewind, ElementLoads, ElementEnds
<1>12. CASE PlayerDetached \/ FfmpegEnds
  BY <1>12, UnaskedIs
<1>7. ASSUME NEW u \in Urls, NewObject(u) \/ SetData(u)
      PROVE  \/ commands' = commands /\ videos' = videos
             \/ NewObject(u) /\ NewVideo(u) /\ videos' = videos + 1 /\ videos < MaxVideos
  BY <1>7 DEF NewObject, SetData, NewVideo
<1>8. ASSUME NEW u \in DashUrls, NewDashObject(u) \/ ManifestArrives(u)
      PROVE  \/ commands' = commands /\ videos' = videos
             \/ \E x \in Commands : x.op # "video" /\ commands' = Append(commands, x) /\ videos' = videos
  BY <1>1, <1>2, <1>8 DEF NewDashObject, ManifestArrives
<1>9. CASE DataChanged
  <2>1. data \in Urls /\ videos < MaxVideos /\ videos' = videos + 1
    BY <1>9 DEF Typed, DataChanged
  <2>2. Plain("clear") \in Commands /\ Command("video", data, videos + 1) \in Commands
    BY <1>1, <2>1, VideoType DEF Typed
  <2>3. ASSUME NEW x \in Commands, NEW y \in Commands
        PROVE  commands \o <<x, y>> = Append(Append(commands, x), y)
    BY <1>3, AppendTwo
  <2>4. commands' = commands \o <<Plain("clear"), Command("video", data, videos + 1)>>
    BY <1>9 DEF DataChanged
  <2>5. Change
    BY <2>2, <2>3, <2>4 DEF Change
  <2> QED
    BY <1>9, <2>1, <2>5
<1>10. CASE Event
  <2>1. Sent(Head(events)) \in {<<>>, <<Plain("end")>>, <<Plain("error")>>}
    BY DEF Sent
  <2>2. \/ commands' = commands \/ commands' = Append(commands, Plain("end"))
        \/ commands' = Append(commands, Plain("error"))
    BY <1>1, <1>3, <1>10, <2>1, AppendNone, AppendSeq DEF Event
  <2> QED
    BY <1>1, <1>10, <2>2 DEF Event
<1>11. CASE OnQuery
  BY <1>11, ReceiveIs DEF OnQuery, QueryVideo, QueryPause, QueryResume, QuerySeek, QueryStop, QuerySpeed,
       QueryClearDash, QueryDash
<1> QED
  BY <1>4, <1>5, <1>6, <1>7, <1>8, <1>9, <1>10, <1>11, <1>12 DEF Next

\* Every step keeps the numbers in order.
LEMMA NumberedStep ==
  ASSUME Typed, Numbers(commands, movie, videos), [Next]_vars
  PROVE  Numbers(commands', movie', videos')
<1>1. commands \in Seq(Commands) /\ movie \in Nat /\ videos \in Nat
  BY BoundAssumption DEF Typed, Queue
<1>2. ~OnQuery /\ ~PlayerDetached => movie' = movie
  BY DEF Next, FfmpegEnds, vars, Calls, PlayPause, PlayResume, PlayFast, PlayBackward, Stop, Seek, Call, NewObject, SetData,
         NewDashObject, ManifestArrives, NewEmptyObject, Inject, DataChanged, Timer, Rewind, Event, Navigate,
         ElementLoads, ElementEnds, browserVars
<1>3. CASE commands' = commands /\ videos' = videos /\ ~OnQuery /\ ~PlayerDetached
  BY <1>2, <1>3
<1>4. CASE /\ \E x \in Commands : x.op # "video" /\ commands' = Append(commands, x) /\ videos' = videos
           /\ ~OnQuery /\ ~PlayerDetached
  BY <1>1, <1>2, <1>4, NumbersAppend
<1>5. ASSUME NEW u \in Urls, NewVideo(u), videos' = videos + 1, videos < MaxVideos, ~OnQuery, ~PlayerDetached
      PROVE  Numbers(commands', movie', videos')
  <2>1. Command("video", u, videos + 1) \in Commands /\ Command("video", u, videos + 1).n = videos + 1
    BY <1>1, <1>5, VideoType, BoundAssumption
  <2> QED
    BY <1>1, <1>2, <1>5, <2>1, NumbersAppend DEF NewVideo
<1>6. CASE Change /\ videos' = videos + 1 /\ data \in Urls /\ videos < MaxVideos /\ ~OnQuery /\ ~PlayerDetached
  <2>1. Command("video", data, videos + 1) \in Commands /\ Command("video", data, videos + 1).n = videos + 1
    BY <1>1, <1>6, VideoType, BoundAssumption
  <2>2. Plain("clear") \in Commands /\ Plain("clear").op # "video"
    BY PlainType DEF Ops
  <2>3. Numbers(Append(commands, Plain("clear")), movie, videos)
    BY <1>1, <2>2, NumbersAppend
  <2>4. Append(commands, Plain("clear")) \in Seq(Commands)
    BY <1>1, <2>2, AppendSeq
  <2> QED
    BY <1>1, <1>2, <1>6, <2>1, <2>3, <2>4, NumbersAppend DEF Change
<1>7. CASE OnQuery
  <2>1. /\ commands # <<>> /\ commands' = Tail(commands) /\ videos' = videos /\ Head(commands) = commands[1]
        /\ commands[1] \in Commands
    BY <1>7, ReceiveIs DEF OnQuery, QueryVideo, QueryPause, QueryResume, QuerySeek, QueryStop, QuerySpeed,
         QueryClearDash, QueryDash
  <2>2. movie' \in {0, movie} \/ (commands[1].op = "video" /\ movie' = commands[1].n)
    <3>1. CASE QueryVideo
      BY <2>1, <3>1 DEF QueryVideo, Receive
    <3>2. CASE ~QueryVideo
      BY <1>7, <3>2 DEF OnQuery, QueryPause, QueryResume, QuerySeek, QueryStop, QuerySpeed, QueryClearDash,
           QueryDash, browserVars
    <3> QED
      BY <3>1, <3>2
  <2>3. movie' \in Nat
    BY TypeStep, BoundAssumption DEF Typed
  <2> QED
    BY <1>1, <2>1, <2>2, <2>3, NumbersTail
<1>8. CASE PlayerDetached
  <2>1. commands' = commands /\ videos' = videos /\ movie' \in {0, movie}
    BY <1>8, UnaskedIs
  <2> QED
    BY <1>1, <2>1, NumbersNone
<1> QED
  BY <1>3, <1>4, <1>5, <1>6, <1>7, <1>8, QueueStep

-----------------------------------------------------------------------------
(***************************************************************************)
(* Obeyed: step by step.                                                   *)
(***************************************************************************)
\* What the queue ends with and in.
Ends == EndsWith(commands, player, wish.url) /\ EndsIn(commands, player, Told)

\* What a call, or a listener, asks for goes to the end of the queue.
LEMMA EndsPlain ==
  ASSUME Typed, Ends, NEW op \in Ops \ {"video", "dash"}, player' = player,
         commands' = Append(commands, Plain(op)), wish'.url = wish.url,
         \/ op \notin Deciding /\ Told' = Told
         \/ op \in Deciding /\ (op \in Stopping <=> Told' = "off")
  PROVE  Ends'
<1>1. commands \in Seq(Commands) /\ Plain(op) \in Commands /\ Plain(op).op = op /\ op # "video"
  BY PlainType DEF Typed, Queue
<1>2. EndsWith(commands', player', wish'.url)
  BY <1>1, EndsWithAppend DEF Ends
<1>3. EndsIn(commands', player', Told')
  BY <1>1, EndsInAppend DEF Ends
<1> QED
  BY <1>2, <1>3 DEF Ends

\* A queue that a video was added to ends with it, and on.
LEMMA EndsVideo ==
  ASSUME NEW q \in Seq(Commands), NEW u \in Urls, NEW n \in 0 .. MaxVideos, NEW p
  PROVE  /\ EndsWith(Append(q, Command("video", u, n)), p, u)
         /\ EndsIn(Append(q, Command("video", u, n)), p, "on")
<1>1. /\ Command("video", u, n) \in Commands /\ Command("video", u, n).op = "video"
      /\ Command("video", u, n).url = u /\ "video" \in Deciding /\ "video" \notin Stopping
  BY VideoType DEF Deciding, Stopping
<1> QED
  BY <1>1, EndsWithAppend, EndsInAppend

\* A call that meets no change of data is carried out after all that was asked for.
LEMMA CallObeyed ==
  ASSUME Typed, Ends, Calls, data = Fail
  PROVE  Ends'
<1>1. /\ {"pause", "resume", "stop", "seek", "speed"} \subseteq Ops \ {"video", "dash"}
      /\ {"pause", "stop"} \subseteq Deciding \cap Stopping
      /\ {"resume", "seek"} \subseteq Deciding \ Stopping
      /\ "speed" \notin Deciding
  BY DEF Ops, Deciding, Stopping
<1>2. player' = player /\ wish \in Wishes
  BY CallIs DEF Typed, Calls, PlayPause, PlayResume, PlayFast, PlayBackward, Stop, Seek
<1>3. CASE PlayPause
  BY <1>1, <1>2, <1>3, EndsPlain, AskStopIs DEF PlayPause
<1>4. CASE PlayResume
  BY <1>1, <1>2, <1>4, EndsPlain, AskOthers DEF PlayResume
<1>5. CASE PlayFast
  BY <1>1, <1>2, <1>5, EndsPlain, AskOthers DEF PlayFast
<1>6. CASE PlayBackward
  BY <1>1, <1>2, <1>6, EndsPlain, AskOthers DEF PlayBackward
<1>7. CASE Stop
  BY <1>1, <1>2, <1>7, EndsPlain, AskStopIs DEF Stop
<1>8. CASE Seek
  BY <1>1, <1>2, <1>8, EndsPlain, AskOthers DEF Seek
<1> QED
  BY <1>3, <1>4, <1>5, <1>6, <1>7, <1>8 DEF Calls

\* So is what a listener sends.
LEMMA EventObeyed ==
  ASSUME Typed, Ends, Event
  PROVE  Ends'
<1>1. CASE Sent(Head(events)) = <<>>
  <2>1. commands' = commands /\ player' = player /\ wish' = wish /\ unheard' = unheard
    BY <1>1, AppendNone DEF Event, Typed, Queue, browserVars
  <2> QED
    BY <2>1 DEF Ends, Told
<1>2. CASE Sent(Head(events)) # <<>>
  <2>1. PICK op \in {"end", "error"} : Sent(Head(events)) = <<Plain(op)>>
    BY <1>2 DEF Sent
  <2>2. op \in Ops \ {"video", "dash"} /\ op \in Deciding /\ op \in Stopping
    BY DEF Ops, Deciding, Stopping
  <2>3. commands' = Append(commands, Plain(op))
    <3>1. commands \in Seq(Commands) /\ Plain(op) \in Commands
      BY <2>2, PlainType DEF Typed, Queue
    <3>2. commands \o <<Plain(op)>> = Append(commands, Plain(op))
      BY <3>1, AppendSeq
    <3> QED
      BY <2>1, <3>2 DEF Event
  <2>4. Ask("off", "off", "no") /\ player' = player /\ wish \in Wishes
    BY <1>2 DEF Event, Typed, browserVars
  <2>5. wish'.url = wish.url /\ Told' = "off"
    BY <2>4, AskEndIs
  <2> QED
    BY <2>2, <2>3, <2>4, <2>5, EndsPlain
<1> QED
  BY <1>1, <1>2

\* A command that is carried out does what the queue said it would.
LEMMA QueryObeyed ==
  ASSUME Typed, Ends, OnQuery, ~crashed', wish.url # NoUrl
  PROVE  Ends'
<1>1. PICK op : Receive(op)
  BY DEF OnQuery, QueryVideo, QueryPause, QueryResume, QuerySeek, QueryStop, QuerySpeed, QueryClearDash,
         QueryDash
<1>2. /\ commands # <<>> /\ Head(commands) = commands[1] /\ commands[1] \in Commands
      /\ commands' = Tail(commands) /\ wish' = wish /\ unheard' = unheard
  BY <1>1, ReceiveIs
<1>3. commands \in Seq(Commands) /\ player \in Players /\ Told \in {"on", "off"} /\ Told' = Told
  BY <1>2, ToldType DEF Typed, Queue, Told
<1> DEFINE h == commands[1]
           Later == \E j \in DOMAIN commands : 1 < j /\ commands[j].op \in Deciding
           Carried == \/ Fits(player'.state, IF h.op \in Stopping THEN "off" ELSE "on")
                      \/ Later
           NewUrl == player'.url = IF h.op = "video" THEN h.url ELSE player.url
<1>4. ASSUME player.url = NoUrl, h.op # "video" PROVE Later
  <2>1. PICK j \in DOMAIN commands : commands[j].op = "video"
    BY <1>4 DEF Ends, EndsWith
  <2>2. j \in Nat \ {0} /\ j # 1
    BY <1>3, <1>4, <2>1
  <2> QED
    BY <2>1, <2>2 DEF Deciding
<1>5. ASSUME player'.url = player.url, ~Transcoder => player' = player, h.op # "video",
             Transcoder => Fits(player'.state, IF h.op \in Stopping THEN "off" ELSE "on")
      PROVE  Carried /\ NewUrl
  <2>1. CASE Transcoder
    BY <1>5, <2>1
  <2>2. CASE ~Transcoder
    BY <1>4, <1>5, <2>2 DEF Transcoder
  <2> QED
    BY <1>5, <2>1, <2>2
<1>6. NewUrl /\ (h.op \in Deciding => Carried) /\ (h.op \notin Deciding => player'.state = player.state)
  <2>1. CASE QueryVideo
    <3>1. h.op = "video" /\ h.op \in Deciding /\ h.op \notin Stopping
      BY <1>2, <2>1, ReceiveIs DEF QueryVideo, Deciding, Stopping
    <3>2. PICK s \in Started \cup {"failed"} : player' = Video(h.url, s)
      BY <1>2, <2>1 DEF QueryVideo
    <3>3. player'.url = h.url /\ Fits(player'.state, "on")
      BY <3>2, ModesAre DEF Video, Fits
    <3> QED
      BY <3>1, <3>3
  <2>2. CASE QueryPause
    <3>1. h.op = "pause" /\ State({"off"})
      BY <2>2, ReceiveIs DEF QueryPause
    <3>2. /\ player'.url = player.url /\ (~Transcoder => player' = player)
          /\ Transcoder => player'.state \in {"off"}
      BY <1>3, <3>1, StateIs, ModesAre
    <3>3. h.op \in Stopping /\ h.op # "video"
      BY <3>1 DEF Stopping
    <3> QED
      BY <1>5, <3>1, <3>2, <3>3 DEF Fits, Deciding
  <2>3. CASE QueryResume
    <3>1. h.op = "resume" /\ h.op \notin Stopping
      BY <2>3, ReceiveIs DEF QueryResume, Stopping
    <3>2. CASE player.state \in {"on", "dead"}
      <4>1. player' = player
        BY <2>3, <3>2 DEF QueryResume
      <4> QED
        BY <3>1, <3>2, <4>1 DEF Fits
    <3>3. CASE player.state \notin {"on", "dead"}
      <4>1. State(Started)
        BY <2>3, <3>3 DEF QueryResume
      <4>2. /\ player'.url = player.url /\ (~Transcoder => player' = player)
            /\ Transcoder => player'.state \in Started
        BY <1>3, <4>1, StateIs, ModesAre
      <4> QED
        BY <1>5, <3>1, <4>2, ModesAre DEF Fits, Deciding
    <3> QED
      BY <3>2, <3>3
  <2>4. CASE QuerySeek
    <3>1. h.op = "seek" /\ State(Started) /\ h.op \notin Stopping
      BY <2>4, ReceiveIs DEF QuerySeek, Stopping
    <3>2. /\ player'.url = player.url /\ (~Transcoder => player' = player)
          /\ Transcoder => player'.state \in Started
      BY <1>3, <3>1, StateIs, ModesAre
    <3> QED
      BY <1>5, <3>1, <3>2, ModesAre DEF Fits, Deciding
  <2>5. CASE QueryStop
    <3>1. h.op \in {"stop", "end", "error"} /\ State({"off"})
      BY <2>5, ReceiveIs DEF QueryStop
    <3>2. /\ player'.url = player.url /\ (~Transcoder => player' = player)
          /\ Transcoder => player'.state \in {"off"}
      BY <1>3, <3>1, StateIs, ModesAre
    <3>3. h.op \in Stopping /\ h.op # "video"
      BY <3>1 DEF Stopping
    <3> QED
      BY <1>5, <3>1, <3>2, <3>3 DEF Fits, Deciding
  <2>6. CASE QuerySpeed \/ QueryClearDash \/ QueryDash
    <3>1. h.op \in {"speed", "clear", "dash"} /\ player' = player
      BY <2>6, ReceiveIs DEF QuerySpeed, QueryClearDash, QueryDash, browserVars
    <3> QED
      BY <3>1 DEF Deciding
  <2> QED
    BY <2>1, <2>2, <2>3, <2>4, <2>5, <2>6 DEF OnQuery
<1> HIDE DEF Carried, NewUrl
<1>7. EndsWith(Tail(commands), player', wish.url)
  BY <1>2, <1>3, <1>6, EndsWithTail DEF Ends, NewUrl
<1>8. EndsIn(Tail(commands), player', Told)
  BY <1>2, <1>3, <1>6, EndsInTail DEF Ends, Carried
<1> QED
  BY <1>2, <1>3, <1>7, <1>8 DEF Ends

\* ffmpeg that ends, or is stopped when VDR's player is detached, is on no more,
\* and not off either.
LEMMA UnaskedObeyed ==
  ASSUME Typed, Ends, PlayerDetached \/ FfmpegEnds
  PROVE  Ends'
<1>1. /\ UNCHANGED <<commands, wish, unheard>> /\ player'.url = player.url
      /\ player' = player \/ player'.state \in {"dead", "detached"}
  BY UnaskedIs
<1>2. Told' = Told
  BY <1>1 DEF Told
<1>3. Fits(player.state, Told) => Fits(player'.state, Told)
  BY <1>1 DEF Fits
<1>4. EndsWith(commands, player', wish.url)
  BY <1>1 DEF Ends, EndsWith
<1>5. EndsIn(commands, player', Told)
  BY <1>1, <1>3 DEF Ends, EndsIn
<1> QED
  BY <1>1, <1>2, <1>4, <1>5 DEF Ends

\* Every step keeps Obeyed.
LEMMA ObeyedStep ==
  ASSUME Typed, Obeyed, [Next]_vars
  PROVE  Obeyed'
<1> USE UrlAssumption, BoundAssumption
<1> SUFFICES ASSUME ~crashed', wish'.url # NoUrl
             PROVE  IF data' # Fail THEN wish'.url = data' /\ Told' = "on" ELSE Ends'
  BY DEF Obeyed, Ends
<1>1. (~crashed /\ wish.url # NoUrl) =>
        IF data # Fail THEN wish.url = data /\ Told = "on" ELSE Ends
  BY DEF Obeyed, Ends
<1>2. commands \in Seq(Commands) /\ wish \in Wishes
  BY DEF Typed, Queue
<1>3. CASE Timer \/ Rewind \/ ElementLoads \/ ElementEnds \/ UNCHANGED vars
  <2>1. UNCHANGED <<data, commands, player, crashed, wish, unheard>>
    BY <1>3 DEF Timer, Rewind, ElementLoads, ElementEnds, vars, pageVars, browserVars, histVars
  <2> QED
    BY <1>1, <2>1 DEF Ends, Told
<1>4. ASSUME NEW u \in Urls, NewObject(u)
      PROVE  data' = Fail /\ Ends'
  <2>1. /\ commands' = Append(commands, Command("video", u, videos + 1)) /\ videos + 1 \in 0 .. MaxVideos
        /\ wish' = Video(u, "on") /\ unheard' = "no" /\ data = Fail /\ data' = data
    BY <1>4 DEF NewObject, Inject, Idle, Typed
  <2>2. wish'.url = u /\ Told' = "on"
    BY <2>1, VideoWishType DEF Told
  <2> QED
    BY <1>2, <2>1, <2>2, EndsVideo DEF Ends
<1>5. CASE DataChanged
  <2>1. /\ UNCHANGED <<crashed, unheard, wish>> /\ data # Fail /\ data' = Fail /\ data \in Urls
        /\ videos + 1 \in 0 .. MaxVideos
    BY <1>5 DEF DataChanged, browserVars, histVars, Typed
  <2>2. wish'.url = data /\ Told' = "on"
    BY <1>1, <2>1 DEF Told
  <2>3. Plain("clear") \in Commands
    BY PlainType DEF Ops
  <2>4. Append(commands, Plain("clear")) \in Seq(Commands)
    BY <1>2, <2>3, AppendSeq
  <2>5. commands' = Append(Append(commands, Plain("clear")), Command("video", data, videos + 1))
    <3>1. ASSUME NEW x \in Commands, NEW y \in Commands
          PROVE  commands \o <<x, y>> = Append(Append(commands, x), y)
      BY <1>2, AppendTwo
    <3>2. Command("video", data, videos + 1) \in Commands
      BY <2>1, VideoType
    <3>3. commands' = commands \o <<Plain("clear"), Command("video", data, videos + 1)>>
      BY <1>5 DEF DataChanged
    <3> QED
      BY <2>3, <3>1, <3>2, <3>3
  <2>6. EndsWith(commands', player', data) /\ EndsIn(commands', player', "on")
    BY <2>1, <2>4, <2>5, EndsVideo
  <2> QED
    BY <2>1, <2>2, <2>6 DEF Ends
<1>6. ASSUME NEW u \in Urls, SetData(u)
      PROVE  data' # Fail /\ wish'.url = data' /\ Told' = "on"
  <2>1. data' = u /\ wish' = Video(u, "on") /\ unheard' = "no" /\ u # Fail
    BY <1>6 DEF SetData
  <2> QED
    BY <2>1, VideoWishType DEF Told
<1>7. CASE NewEmptyObject \/ Navigate \/ \E u \in DashUrls : NewDashObject(u)
  <2>1. wish' = Video(NoUrl, "off")
    BY <1>7 DEF NewEmptyObject, Navigate, NewDashObject, Inject
  <2> QED
    BY <2>1, VideoWishType
<1>8. CASE Calls
  <2>1. data' = data /\ ~crashed
    BY <1>8, CallIs DEF Calls, PlayPause, PlayResume, PlayFast, PlayBackward, Stop, Seek
  <2>2. wish'.url = wish.url
    BY <1>8, CallAsks
  <2>3. data # Fail /\ Told = "on" => Told' = "on"
    BY <1>2, <1>8, AskStopIs, AskOthers DEF Calls, PlayPause, PlayResume, PlayFast, PlayBackward, Stop, Seek
  <2> QED
    BY <1>1, <1>8, <2>1, <2>2, <2>3, CallObeyed
<1>9. CASE Event
  <2>1. data = Fail /\ data' = data /\ ~crashed
    BY <1>9 DEF Event, Idle
  <2>2. wish'.url = wish.url
    BY <1>2, <1>9, AskEndIs DEF Event
  <2> QED
    BY <1>1, <1>9, <2>1, <2>2, EventObeyed
<1>10. ASSUME NEW u \in DashUrls, ManifestArrives(u)
       PROVE  data' = Fail /\ Ends'
  <2>1. data = Fail /\ UNCHANGED <<data, player, crashed, wish, unheard>> /\ Told' = Told
    BY <1>10 DEF ManifestArrives, Idle, browserVars, histVars, Told
  <2>2. Ends
    BY <1>1, <2>1
  <2>3. /\ Command("dash", u, 0) \in Commands /\ Command("dash", u, 0).op # "video"
        /\ Command("dash", u, 0).op \notin Deciding
    BY VideoType DEF Deciding
  <2>4. CASE commands' = Append(commands, Command("dash", u, 0))
    <3>1. EndsWith(commands', player', wish'.url)
      BY <1>2, <2>1, <2>2, <2>3, <2>4, EndsWithAppend DEF Ends
    <3>2. EndsIn(commands', player', Told')
      BY <1>2, <2>1, <2>2, <2>3, <2>4, EndsInAppend DEF Ends
    <3> QED
      BY <2>1, <3>1, <3>2 DEF Ends
  <2>5. CASE commands' = commands
    BY <2>1, <2>2, <2>5 DEF Ends
  <2> QED
    BY <1>10, <2>4, <2>5 DEF ManifestArrives
<1>11. CASE OnQuery
  <2>1. ~crashed /\ UNCHANGED <<data, wish, unheard>> /\ Told' = Told
    BY <1>11, ReceiveIs DEF OnQuery, QueryVideo, QueryPause, QueryResume, QuerySeek, QueryStop, QuerySpeed,
         QueryClearDash, QueryDash, Told
  <2> QED
    BY <1>1, <1>11, <2>1, QueryObeyed
<1>12. CASE PlayerDetached \/ FfmpegEnds
  <2>1. ~crashed /\ UNCHANGED <<data, wish, unheard>> /\ Told' = Told
    BY <1>12, UnaskedIs DEF Told
  <2> QED
    BY <1>1, <1>12, <2>1, UnaskedObeyed
<1> QED
  BY <1>3, <1>4, <1>5, <1>6, <1>7, <1>8, <1>9, <1>10, <1>11, <1>12 DEF Next

-----------------------------------------------------------------------------
(***************************************************************************)
(* Steady: the events and videos under way.                                *)
(***************************************************************************)
\* The event that is added is the last one.
LEMMA EventAppend ==
  ASSUME NEW q \in Seq(Events), NEW x \in Events
  PROVE  /\ HasEnd(Append(q, x)) <=> (HasEnd(q) \/ x \in {"ended", "error"})
         /\ Append(q, x) # <<>> /\ Append(q, x)[Len(Append(q, x))] = x
<1>1. /\ Len(q) \in Nat /\ Len(Append(q, x)) = Len(q) + 1 /\ Append(q, x) # <<>>
      /\ DOMAIN q = 1 .. Len(q) /\ DOMAIN Append(q, x) = 1 .. Len(q) + 1
      /\ Append(q, x)[Len(q) + 1] = x /\ \A i \in 1 .. Len(q) : Append(q, x)[i] = q[i]
  BY AppendSeq
<1>2. /\ 1 .. Len(q) \subseteq 1 .. Len(q) + 1 /\ Len(q) + 1 \in 1 .. Len(q) + 1
      /\ \A i \in 1 .. Len(q) + 1 : i \in 1 .. Len(q) \/ i = Len(q) + 1
  BY <1>1
<1> QED
  BY <1>1, <1>2 DEF HasEnd

\* A listener takes the first event, and the last stays the last.
LEMMA EventTail ==
  ASSUME NEW q \in Seq(Events), q # <<>>
  PROVE  /\ HasEnd(q) <=> (HasEnd(Tail(q)) \/ q[1] \in {"ended", "error"})
         /\ Head(q) = q[1] /\ q[1] \in Events
         /\ Tail(q) # <<>> => Tail(q)[Len(Tail(q))] = q[Len(q)]
         /\ Tail(q) = <<>> => q[Len(q)] = q[1]
<1>1. /\ Head(q) = q[1] /\ q[1] \in Events /\ Tail(q) \in Seq(Events)
      /\ Len(q) \in Nat \ {0} /\ Len(Tail(q)) = Len(q) - 1
      /\ DOMAIN q = 1 .. Len(q) /\ DOMAIN Tail(q) = 1 .. Len(q) - 1
      /\ \A i \in 1 .. Len(q) - 1 : Tail(q)[i] = q[i + 1]
  BY TailSeq
<1>2. /\ 1 \in 1 .. Len(q) /\ \A i \in 1 .. Len(q) - 1 : i + 1 \in 1 .. Len(q)
      /\ \A i \in 1 .. Len(q) : i = 1 \/ (i - 1 \in 1 .. Len(q) - 1 /\ (i - 1) + 1 = i)
  BY <1>1
<1>3. HasEnd(q) <=> (HasEnd(Tail(q)) \/ q[1] \in {"ended", "error"})
  BY <1>1, <1>2 DEF HasEnd
<1>4. Tail(q) # <<>> => Tail(q)[Len(Tail(q))] = q[Len(q)]
  <2>1. \A t \in Seq(Events) : t # <<>> => Len(t) \in Nat \ {0}
    OBVIOUS
  <2>2. Tail(q) # <<>> => Len(q) - 1 \in 1 .. Len(q) - 1 /\ (Len(q) - 1) + 1 = Len(q)
    BY <1>1, <2>1
  <2> QED
    BY <1>1, <2>2
<1>5. Tail(q) = <<>> => q[Len(q)] = q[1]
  <2>1. Tail(q) = <<>> => Len(q) = 1
    BY <1>1
  <2> QED
    BY <2>1
<1> QED
  BY <1>1, <1>3, <1>4, <1>5

\* No event is no end of the movie.
LEMMA NoEnd == ~HasEnd(<<>>)
  BY DEF HasEnd

\* Another command than a video's is no video.
LEMMA VideoAppend ==
  ASSUME NEW q \in Seq(Commands), NEW x \in Commands, x.op # "video"
  PROVE  HasVideo(Append(q, x)) => HasVideo(q)
<1>1. /\ Len(q) \in Nat /\ DOMAIN q = 1 .. Len(q) /\ DOMAIN Append(q, x) = 1 .. Len(q) + 1
      /\ Append(q, x)[Len(q) + 1] = x /\ \A i \in 1 .. Len(q) : Append(q, x)[i] = q[i]
  BY AppendSeq
<1>2. \A i \in 1 .. Len(q) + 1 : i \in 1 .. Len(q) \/ i = Len(q) + 1
  BY <1>1
<1> QED
  BY <1>1, <1>2 DEF HasVideo

\* A video that is behind the head has a number above the head's.
LEMMA VideoTail ==
  ASSUME NEW q \in Seq(Commands), q # <<>>, HasVideo(Tail(q)), NEW m \in Nat, NEW v \in Nat, Numbers(q, m, v)
  PROVE  HasVideo(q) /\ (q[1].op = "video" => q[1].n \in Nat /\ q[1].n < v)
<1>1. /\ q[1] \in Commands /\ Len(q) \in Nat \ {0}
      /\ DOMAIN q = 1 .. Len(q) /\ DOMAIN Tail(q) = 1 .. Len(q) - 1
      /\ \A i \in 1 .. Len(q) - 1 : Tail(q)[i] = q[i + 1]
  BY TailSeq
<1>2. PICK j \in 1 .. Len(q) : 1 < j /\ q[j].op = "video"
  <2>1. PICK i \in 1 .. Len(q) - 1 : Tail(q)[i].op = "video"
    BY <1>1 DEF HasVideo
  <2>2. i + 1 \in 1 .. Len(q) /\ 1 < i + 1 /\ q[i + 1].op = "video"
    BY <1>1, <2>1
  <2> QED
    BY <2>2
<1>3. HasVideo(q)
  BY <1>1, <1>2 DEF HasVideo
<1>4. ASSUME q[1].op = "video" PROVE q[1].n \in Nat /\ q[1].n < v
  <2>1. q[j] \in Commands /\ 1 \in 1 .. Len(q)
    BY <1>1, <1>2
  <2>2. q[1].n \in Nat /\ q[j].n \in Nat
    BY <1>1, <2>1, BoundAssumption DEF Commands
  <2>3. q[1].n < q[j].n /\ q[j].n <= v
    BY <1>1, <1>2, <1>4, <2>1 DEF Numbers
  <2> QED
    BY <2>2, <2>3
<1> QED
  BY <1>3, <1>4

-----------------------------------------------------------------------------
(***************************************************************************)
(* Fresh, Reasons and Steady: step by step.                                *)
(***************************************************************************)
\* What a step leaves alone.
LEMMA Unchanging ==
  /\ UNCHANGED vars => UNCHANGED <<data, src, element, playState, timers, rewinds, events, commands, player,
                                   movie, crashed, wish, unheard, wound, hasty, videos>>
  /\ \A u : ManifestArrives(u) =>
       UNCHANGED <<data, src, element, playState, timers, rewinds, events, player, movie, crashed, wish,
                   unheard, wound, hasty, videos>>
  /\ (Timer \/ Rewind \/ ElementLoads) =>
       UNCHANGED <<data, src, playState, commands, player, movie, crashed, wish, unheard, hasty, videos>>
  /\ (ElementLoads \/ ElementEnds) =>
       UNCHANGED <<data, src, playState, timers, rewinds, commands, player, movie, crashed, wish, unheard,
                   wound, videos>>
  /\ Event => UNCHANGED <<data, src, element, timers, rewinds, player, movie, crashed, wound, hasty, videos>>
  BY DEF vars, pageVars, browserVars, histVars, ManifestArrives, Timer, Rewind, ElementLoads, ElementEnds,
         Event

\* Every step keeps Fresh: no timer and no interval without an element.
LEMMA FreshStep == ASSUME Typed, Fresh, [Next]_vars PROVE Fresh'
<1>1. /\ Played(element) = "none" => element = "none"
      /\ Paused(element) = "none" => element = "none"
      /\ \A e : Sought(e) = "none" => e = "none"
  BY DEF Played, Paused, Sought
<1>2. NoRewind.all = 0
  BY DEF NoRewind
<1>3. CASE Calls
  BY <1>1, <1>3, CallIs DEF Calls, Fresh, PlayPause, PlayResume, PlayFast, PlayBackward, Stop, Seek
<1>4. CASE Timer \/ Rewind
  BY <1>1, <1>2, <1>4 DEF Fresh, Timer, Rewind
<1>5. CASE Event \/ ElementLoads \/ ElementEnds \/ UNCHANGED vars \/ \E u \in DashUrls : ManifestArrives(u)
  BY <1>5, Unchanging DEF Fresh, ElementLoads, ElementEnds
<1>6. CASE NewEmptyObject \/ DataChanged \/ Navigate
  BY <1>6 DEF Fresh, NewEmptyObject, DataChanged, Navigate
<1>7. CASE \/ \E u \in Urls : NewObject(u) \/ SetData(u)
           \/ \E u \in DashUrls : NewDashObject(u)
  BY <1>7 DEF Fresh, NewObject, SetData, NewDashObject
<1>8. CASE OnQuery
  BY <1>8, ReceiveIs DEF Fresh, OnQuery, QueryVideo, QueryPause, QueryResume, QuerySeek, QueryStop, QuerySpeed,
       QueryClearDash, QueryDash
<1>9. CASE PlayerDetached \/ FfmpegEnds
  BY <1>9, UnaskedIs DEF Fresh
<1> QED
  BY <1>3, <1>4, <1>5, <1>6, <1>7, <1>8, <1>9 DEF Next

\* Every step keeps Reasons: a call that overtakes a change of data is hasty.
LEMMA ReasonsStep == ASSUME Typed, Reasons, [Next]_vars PROVE Reasons'
<1>1. CASE Calls
  <2>1. (data # Fail => hasty') /\ data' = data
    BY <1>1, CallIs DEF Calls, PlayPause, PlayResume, PlayFast, PlayBackward, Stop, Seek
  <2> QED
    BY <1>1, <2>1, CallAsks DEF Reasons
<1>2. CASE UNCHANGED <<wish, unheard>> /\ (hasty => hasty') /\ data' \in {data, Fail}
  BY <1>2 DEF Reasons
<1>3. CASE unheard' = "no"
  BY <1>3 DEF Reasons
<1>4. CASE ElementLoads \/ Timer \/ Rewind \/ UNCHANGED vars \/ \E u \in DashUrls : ManifestArrives(u)
  BY <1>2, <1>4, Unchanging
<1>5. CASE ElementEnds
  BY <1>2, <1>5, Unchanging DEF ElementEnds
<1>6. CASE Event
  BY <1>2, <1>3, <1>6, AskEndIs DEF Event, Typed
<1>7. CASE DataChanged
  BY <1>2, <1>7 DEF DataChanged
<1>8. CASE NewEmptyObject \/ Navigate
  BY <1>3, <1>8 DEF NewEmptyObject, Inject, Navigate
<1>9. CASE \/ \E u \in Urls : NewObject(u) \/ SetData(u)
           \/ \E u \in DashUrls : NewDashObject(u)
  BY <1>3, <1>9 DEF NewObject, Inject, SetData, NewDashObject
<1>10. CASE OnQuery
  BY <1>2, <1>10, ReceiveIs DEF OnQuery, QueryVideo, QueryPause, QueryResume, QuerySeek, QueryStop, QuerySpeed,
         QueryClearDash, QueryDash
<1>11. CASE PlayerDetached \/ FfmpegEnds
  BY <1>2, <1>11, UnaskedIs
<1> QED
  BY <1>1, <1>4, <1>5, <1>6, <1>7, <1>8, <1>9, <1>10, <1>11 DEF Next

Heard == (~crashed /\ data = Fail /\ wish.url # NoUrl) => Says /\ Follows

\* All that SteadyStep may use of the state before.
Good == /\ Typed /\ Numbers(commands, movie, videos) /\ Obeyed /\ Reasons /\ Fresh
        /\ Steady

\* What is last in a queue that something is added to, or taken from.
LEMMA LastIs ==
  ASSUME NEW S, NEW q \in Seq(S)
  PROVE  /\ \A x \in S : Append(q, x) # <<>> /\ Append(q, x)[Len(Append(q, x))] = x
         /\ q # <<>> => /\ Tail(q) # <<>> => Tail(q)[Len(Tail(q))] = q[Len(q)]
                        /\ Tail(q) = <<>> => q[Len(q)] = q[1]
<1>1. ASSUME NEW x \in S PROVE Append(q, x) # <<>> /\ Append(q, x)[Len(Append(q, x))] = x
  BY AppendSeq
<1>2. ASSUME q # <<>>
      PROVE  /\ Tail(q) # <<>> => Tail(q)[Len(Tail(q))] = q[Len(q)]
             /\ Tail(q) = <<>> => q[Len(q)] = q[1]
  <2>1. /\ Tail(q) \in Seq(S) /\ Len(q) \in Nat \ {0} /\ Len(Tail(q)) = Len(q) - 1
        /\ \A i \in 1 .. Len(q) - 1 : Tail(q)[i] = q[i + 1]
    BY <1>2, TailSeq
  <2>2. \A t \in Seq(S) : t # <<>> => Len(t) \in Nat \ {0}
    OBVIOUS
  <2>3. Tail(q) # <<>> => Len(q) - 1 \in 1 .. Len(q) - 1 /\ (Len(q) - 1) + 1 = Len(q)
    BY <2>1, <2>2
  <2>4. Tail(q) = <<>> => Len(q) = 1
    <3>1. Len(<<>>) = 0
      OBVIOUS
    <3>2. \A n \in Nat : n - 1 = 0 => n = 1
      OBVIOUS
    <3> QED
      BY <2>1, <3>1, <3>2
  <2> QED
    BY <2>1, <2>3, <2>4
<1> QED
  BY <1>1, <1>2

\* Objects and the videos the page asks for.
LEMMA PageSteady ==
  ASSUME Good, ~hasty',
         \/ \E u \in Urls : NewObject(u) \/ SetData(u)
         \/ \E u \in DashUrls : NewDashObject(u)
         \/ NewEmptyObject \/ DataChanged \/ Navigate
  PROVE  OneCall' /\ Heard'
<1> USE UrlAssumption
<1>1. /\ Typed /\ Fresh /\ movie \in Nat /\ videos \in Nat /\ movie <= videos
      /\ "none" \in Mute /\ Len(<<>>) = 0
  BY BoundAssumption DEF Good, Typed, Numbers, Mute
<1>2. ASSUME NEW u, NEW s, Inject(u, s)
      PROVE  /\ data' = Fail /\ timers' = <<>> /\ rewinds' = NoRewind /\ events' = <<>> /\ movie' = movie
             /\ wish' = Video(u, s)
  BY <1>1, <1>2 DEF Inject, Idle, Fresh, Typed, browserVars
<1>3. ASSUME NEW u \in Urls, NewObject(u) PROVE OneCall' /\ Heard'
  <2>1. /\ data' = Fail /\ timers' = <<>> /\ rewinds' = NoRewind /\ events' = <<>> /\ movie' = movie
        /\ wish' = Video(u, "on")
    BY <1>2, <1>3 DEF NewObject
  <2>2. element' = "loading" /\ videos' = videos + 1 /\ src' = videos + 1 /\ wish'.state = "on"
    BY <1>3, <2>1 DEF NewObject, Video
  <2>3. src' = videos' /\ src' # 0 /\ movie' # src'
    BY <1>1, <2>1, <2>2
  <2>4. OneCall'
    BY <1>1, <2>1, <2>2, NoEnd DEF OneCall, Over
  <2>5. Says' /\ Follows'
    BY <2>1, <2>2, <2>3 DEF Says, Follows, FatePlays
  <2> QED
    BY <2>4, <2>5 DEF Heard
<1>4. ASSUME NEW u \in Urls, SetData(u) PROVE OneCall' /\ Heard'
  <2>1. data' # Fail /\ timers' = <<>> /\ rewinds' = NoRewind
    BY <1>4 DEF SetData
  <2> QED
    BY <2>1 DEF OneCall, Heard
<1>5. CASE NewEmptyObject \/ \E u \in DashUrls : NewDashObject(u)
  <2>1. /\ data' = Fail /\ timers' = <<>> /\ rewinds' = NoRewind /\ events' = <<>> /\ wish' = Video(NoUrl, "off")
        /\ element' = "empty"
    BY <1>2, <1>5 DEF NewEmptyObject, NewDashObject
  <2> QED
    BY <1>1, <2>1, NoEnd DEF OneCall, Heard, Over, Video
<1>6. CASE DataChanged
  <2>1. /\ ~crashed /\ data # Fail /\ data' = Fail /\ events' = <<>> /\ element' = "loading" /\ ~hasty
        /\ UNCHANGED <<wish, unheard, timers, rewinds, movie>>
        /\ videos' = videos + 1 /\ src' = videos + 1
    BY <1>6 DEF DataChanged, browserVars
  <2>2. timers' = <<>> /\ rewinds' = NoRewind
    BY <2>1 DEF Good, Steady, OneCall
  <2>3. src' = videos' /\ src' # 0 /\ movie' # src'
    BY <1>1, <2>1
  <2>4. OneCall'
    BY <1>1, <2>1, <2>2, NoEnd DEF OneCall, Over
  <2>5. wish'.url # NoUrl => wish'.state = "on"
    <3>1. unheard = "no" /\ (wish.url # NoUrl => Told = "on")
      BY <2>1 DEF Good, Obeyed, Reasons
    <3> QED
      BY <2>1, <3>1 DEF Told
  <2>6. wish'.url # NoUrl => Says' /\ Follows'
    BY <2>1, <2>2, <2>3, <2>5 DEF Says, Follows, FatePlays
  <2> QED
    BY <2>4, <2>6 DEF Heard
<1>7. CASE Navigate
  <2>1. /\ data' = Fail /\ timers' = <<>> /\ rewinds' = NoRewind /\ events' = <<>> /\ wish' = Video(NoUrl, "off")
        /\ element' = "none"
    BY <1>7 DEF Navigate, Idle
  <2> QED
    BY <1>1, <2>1, NoEnd DEF OneCall, Heard, Over, Video
<1> QED
  BY <1>3, <1>4, <1>5, <1>6, <1>7

\* What the page finds when it makes a call that is not hasty.
LEMMA CallFinds ==
  ASSUME Good, NEW b, Call(b), ~hasty'
  PROVE  /\ b /\ ~hasty /\ data = Fail /\ data' = Fail /\ ~crashed /\ ~Over
         /\ UNCHANGED <<src, movie, crashed, player, videos>>
         /\ wish.url # NoUrl => Says /\ Follows
<1>1. /\ b /\ ~hasty /\ data = Fail /\ data' = data /\ ~crashed /\ ~Over
      /\ UNCHANGED <<src, movie, crashed, player, videos>>
  BY CallIs DEF Good
<1>2. OneCall /\ Heard
  BY <1>1 DEF Good, Steady, Heard
<1> QED
  BY <1>1, <1>2 DEF Heard

\* No call of the page asks for another video.
LEMMA NoVideoAdded ==
  ASSUME Typed, NEW op \in Ops \ {"video", "dash"}
  PROVE  HasVideo(Append(commands, Plain(op))) => HasVideo(commands)
  BY PlainType, VideoAppend DEF Typed, Queue

\* A call that sets a timer.
LEMMA DelayedSteady ==
  ASSUME Good, ~hasty', Call(Ready), NEW t \in {"pause", "play"}, timers' = Append(timers, t),
         UNCHANGED <<element, playState, rewinds, events>>,
         wish'.url = wish.url, wish'.state = IF t = "play" THEN "on" ELSE "off",
         HasVideo(commands') => HasVideo(commands)
  PROVE  OneCall' /\ Heard'
<1>1. Ready
  BY Zenon DEF Call
<1>2. /\ data' = Fail /\ ~Over /\ UNCHANGED <<src, movie, player, videos>>
      /\ wish.url # NoUrl => Says /\ Follows
  BY CallFinds
<1>3. ~Over' /\ element' \in {"playing", "paused", "ended"}
  BY <1>1, <1>2 DEF Over, Ready
<1>4. timers' # <<>> /\ timers'[Len(timers')] = t
  BY LastIs DEF Good, Typed, Timers
<1>5. FatePlays' <=> t = "play"
  BY <1>4 DEF FatePlays
<1>6. OneCall'
  BY <1>2, <1>3 DEF OneCall
<1>7. wish'.url # NoUrl => Says' /\ Follows'
  <2>1. wish.url # NoUrl => Says'
    BY <1>2 DEF Says
  <2>2. wish.url # NoUrl => Follows'
    BY <1>2, <1>5 DEF Follows
  <2> QED
    BY <2>1, <2>2
<1> QED
  BY <1>6, <1>7 DEF Heard

\* A call that does something to the element at once.
LEMMA DirectSteady ==
  ASSUME Good, ~hasty', Call(Ready /\ timers = <<>>), timers' = timers,
         element' \in {"playing", "paused", "ended"}, wish'.url = wish.url,
         wish'.state = IF element' = "playing" THEN "on" ELSE "off",
         HasVideo(commands') => HasVideo(commands),
         ~Over',
         wish.url # NoUrl => Says'
  PROVE  OneCall' /\ Heard'
<1>1. Ready /\ timers = <<>>
  BY Zenon, CallFinds
<1>2. /\ data' = Fail /\ UNCHANGED <<src, movie, player, videos>>
      /\ wish.url # NoUrl => Says /\ Follows
  BY CallFinds
<1>3. OneCall'
  BY <1>1, <1>2 DEF OneCall
<1>4. wish.url # NoUrl => Follows'
  BY <1>1, <1>2 DEF Follows, FatePlays, Ready
<1> QED
  BY <1>3, <1>4 DEF Heard

\* The calls of the page.
LEMMA CallSteady ==
  ASSUME Good, Calls, ~hasty'
  PROVE  OneCall' /\ Heard'
<1>1. {"pause", "resume", "stop", "seek", "speed"} \subseteq Ops \ {"video", "dash"}
  BY DEF Ops
<1>2. /\ Typed /\ wish \in Wishes /\ events \in Seq(Events) /\ "playing" \in Events /\ "pause" \in Events
      /\ wish'.url = wish.url
  BY CallAsks DEF Good, Typed, Events
<1>3. HasVideo(commands') => HasVideo(commands)
  BY <1>1, <1>2, NoVideoAdded DEF Calls, PlayPause, PlayResume, PlayFast, PlayBackward, Stop, Seek
<1>4. CASE PlayPause
  <2>1. wish'.state = "off"
    BY <1>2, <1>4, AskStopIs DEF PlayPause
  <2> QED
    BY <1>2, <1>3, <1>4, <2>1, DelayedSteady DEF PlayPause
<1>5. CASE PlayResume \/ PlayFast
  <2>1. wish'.state = "on"
    BY <1>2, <1>5, AskOthers DEF PlayResume, PlayFast
  <2> QED
    BY <1>2, <1>3, <1>5, <2>1, DelayedSteady DEF PlayResume, PlayFast
<1>6. CASE PlayBackward
  <2>1. /\ Call(Ready /\ timers = <<>>) /\ timers' = timers /\ playState' = playState
        /\ element' = Played(element) /\ events' = events \o PlayEvents(element)
    BY <1>6 DEF PlayBackward
  <2>2. Ready /\ timers = <<>>
    BY <2>1, Zenon, CallFinds
  <2>3. ~Over /\ (wish.url # NoUrl => Says)
    BY <2>1, CallFinds
  <2>4. wish'.state = "on"
    BY <1>2, <1>6, AskOthers DEF PlayBackward
  <2>5. element' = "playing"
    BY <2>1, <2>2 DEF Ready, Played
  <2>6. CASE element = "playing"
    <3>1. events' = events
      BY <1>2, <2>1, <2>6, AppendNone DEF PlayEvents
    <3>2. ~Over' /\ (wish.url # NoUrl => Says')
      BY <2>1, <2>3, <2>5, <2>6, <3>1 DEF Over, Says
    <3> QED
      BY <1>2, <1>3, <2>1, <2>4, <2>5, <3>2, DirectSteady
  <2>7. CASE element # "playing"
    <3>1. events' = Append(events, "playing")
      BY <1>2, <2>1, <2>2, <2>7, AppendSeq DEF Ready, PlayEvents
    <3>2. ~Over' /\ events' # <<>> /\ events'[Len(events')] = "playing"
      BY <1>2, <2>3, <3>1, EventAppend DEF Over
    <3>3. Says'
      BY <2>5, <3>2 DEF Says
    <3> QED
      BY <1>2, <1>3, <2>1, <2>4, <2>5, <3>2, <3>3, DirectSteady
  <2> QED
    BY <2>6, <2>7
<1>7. CASE Stop
  <2>1. /\ Call(Ready /\ timers = <<>>) /\ timers' = timers /\ playState' = "stopped"
        /\ element' = Sought(Paused(element)) /\ events' = events \o PauseEvents(element)
    BY <1>7 DEF Stop
  <2>2. Ready /\ timers = <<>>
    BY <2>1, Zenon, CallFinds
  <2>3. ~Over /\ (wish.url # NoUrl => Says)
    BY <2>1, CallFinds
  <2>4. wish'.state = "off"
    BY <1>2, <1>7, AskStopIs DEF Stop
  <2>5. element' = "paused"
    BY <2>1, <2>2 DEF Ready, Paused, Sought
  <2>6. CASE element # "playing"
    <3>1. events' = events
      BY <1>2, <2>1, <2>6, AppendNone DEF PauseEvents
    <3>2. ~Over' /\ (wish.url # NoUrl => Says')
      BY <2>1, <2>3, <2>5, <2>6, <3>1 DEF Over, Says
    <3> QED
      BY <1>2, <1>3, <2>1, <2>4, <2>5, <3>2, DirectSteady
  <2>7. CASE element = "playing"
    <3>1. events' = Append(events, "pause")
      BY <1>2, <2>1, <2>7, AppendSeq DEF PauseEvents
    <3>2. ~Over' /\ events' # <<>> /\ events'[Len(events')] = "pause"
      BY <1>2, <2>3, <3>1, EventAppend DEF Over
    <3>3. Says'
      BY <2>5, <3>2 DEF Says
    <3> QED
      BY <1>2, <1>3, <2>1, <2>4, <2>5, <3>2, <3>3, DirectSteady
  <2> QED
    BY <2>6, <2>7
<1>8. CASE Seek
  <2>1. /\ Call(Ready) /\ UNCHANGED <<playState, timers, rewinds, events, wound>>
        /\ element' = Sought(element)
    BY <1>8 DEF Seek
  <2>2. Ready
    BY <2>1, Zenon DEF Call
  <2>3. /\ data' = Fail /\ ~Over /\ UNCHANGED <<src, movie, player, videos>>
        /\ wish.url # NoUrl => Says /\ Follows
    BY <2>1, CallFinds
  <2>4. wish'.state = wish.state
    BY <1>2, <1>8, AskOthers DEF Seek
  <2>5. /\ element' \in {"playing", "paused"} /\ (element' = "playing" <=> element = "playing") /\ ~Over'
        /\ element \notin {"loading", "error"}
    BY <2>1, <2>2, <2>3 DEF Ready, Sought, Over
  <2>6. OneCall'
    BY <2>3, <2>5 DEF OneCall
  <2>7. FatePlays' <=> FatePlays
    BY <2>1, <2>5 DEF FatePlays
  <2>8. wish.url # NoUrl => Says'
    BY <2>1, <2>3, <2>5 DEF Says
  <2>9. wish.url # NoUrl => Follows'
    BY <1>3, <2>1, <2>3, <2>4, <2>5, <2>7 DEF Follows
  <2> QED
    BY <1>2, <2>6, <2>8, <2>9 DEF Heard
<1> QED
  BY <1>4, <1>5, <1>6, <1>7, <1>8 DEF Calls

\* What a task finds when the page has not been hasty.
LEMMA TaskFinds ==
  ASSUME Good, Idle, ~hasty
  PROVE  /\ Typed /\ wish \in Wishes /\ events \in Seq(Events) /\ "playing" \in Events /\ "pause" \in Events
         /\ "ended" \in Events /\ "error" \in Events
         /\ data = Fail /\ ~crashed
         /\ rewinds # NoRewind => element \notin {"loading", "held"}
         /\ timers # <<>> => element \in {"playing", "paused", "ended"} /\ ~Over
         /\ element # "held" /\ (Over => element \in {"ended", "error", "paused"})
         /\ wish.url # NoUrl => Says /\ Follows
         /\ element = "loading" => events = <<>> /\ timers = <<>> /\ rewinds = NoRewind
<1>1. Typed /\ wish \in Wishes /\ events \in Seq(Events) /\ (element = "loading" => events = <<>>)
  BY DEF Good, Typed, Mute
<1>2. data = Fail /\ ~crashed
  BY DEF Idle
<1>3. OneCall /\ Heard
  BY DEF Good, Steady, Heard
<1>4. "playing" \in Events /\ "pause" \in Events /\ "ended" \in Events /\ "error" \in Events
  BY DEF Events
<1> QED
  BY <1>1, <1>2, <1>3, <1>4 DEF OneCall, Heard

\* The timer takes the element where it said.
LEMMA TimerSteady == ASSUME Good, Timer, ~hasty' PROVE OneCall' /\ Heard'
<1>1. /\ ~hasty /\ Idle /\ timers # <<>> /\ timers' = Tail(timers) /\ data' = data /\ rewinds' = rewinds
      /\ UNCHANGED <<src, playState, commands, player, movie, crashed, wish, videos>>
  BY Unchanging DEF Timer
<1>2. /\ element \in {"playing", "paused", "ended"} /\ ~Over /\ data' = Fail /\ events \in Seq(Events)
      /\ wish.url # NoUrl => Says /\ Follows
      /\ "playing" \in Events /\ "pause" \in Events
  BY <1>1, TaskFinds
<1>3. /\ Head(timers) = timers[1] /\ timers[1] \in {"pause", "play"}
      /\ timers' # <<>> => timers'[Len(timers')] = timers[Len(timers)]
      /\ timers' = <<>> => timers[Len(timers)] = timers[1]
  BY <1>1, TimersType, LastIs DEF Good, Typed, Timers
<1>4. /\ element' \in {"playing", "paused", "ended"}
      /\ element' = "playing" <=> timers[1] = "play"
  BY <1>1, <1>2, <1>3 DEF Timer, Paused, Played
<1>5. FatePlays' <=> FatePlays
  BY <1>1, <1>3, <1>4 DEF FatePlays
<1>6. CASE element' = element /\ events' = events
  <2>1. ~Over' /\ (wish.url # NoUrl => Says')
    BY <1>1, <1>2, <1>6 DEF Over, Says
  <2> QED
    <3>1. OneCall'
      BY <1>2, <1>4, <2>1 DEF OneCall
    <3>2. wish.url # NoUrl => Follows'
      BY <1>1, <1>2, <1>5, <1>6 DEF Follows
    <3> QED
      BY <1>1, <2>1, <3>1, <3>2 DEF Heard
<1>7. ASSUME NEW e \in {"playing", "pause"}, events' = Append(events, e), e = "playing" <=> element' = "playing"
      PROVE  OneCall' /\ Heard'
  <2>1. e \in Events /\ e \notin {"ended", "error"}
    BY DEF Events
  <2>2. ~Over' /\ events' # <<>> /\ events'[Len(events')] = e
    BY <1>2, <1>7, <2>1, EventAppend DEF Over
  <2>3. OneCall'
    BY <1>2, <1>4, <2>2 DEF OneCall
  <2>4. Says'
    BY <1>7, <2>2 DEF Says
  <2>5. wish.url # NoUrl => Follows'
    BY <1>1, <1>2, <1>5 DEF Follows
  <2> QED
    BY <1>1, <2>3, <2>4, <2>5 DEF Heard
<1>8. CASE timers[1] = "pause"
  <2>1. element' = Paused(element) /\ events' = events \o PauseEvents(element)
    BY <1>3, <1>8 DEF Timer
  <2>2. CASE element = "playing"
    <3>1. events' = Append(events, "pause") /\ element' = "paused"
      BY <1>2, <2>1, <2>2, AppendSeq DEF Paused, PauseEvents
    <3> QED
      BY <1>7, <3>1
  <2>3. CASE element # "playing"
    <3>1. events' = events /\ element' = element
      BY <1>2, <2>1, <2>3, AppendNone DEF Paused, PauseEvents
    <3> QED
      BY <1>6, <3>1
  <2> QED
    BY <2>2, <2>3
<1>9. CASE timers[1] = "play"
  <2>1. element' = Played(element) /\ events' = events \o PlayEvents(element)
    BY <1>3, <1>9 DEF Timer
  <2>2. CASE element \in {"paused", "ended"}
    <3>1. events' = Append(events, "playing") /\ element' = "playing"
      BY <1>2, <2>1, <2>2, AppendSeq DEF Played, PlayEvents
    <3> QED
      BY <1>7, <3>1
  <2>3. CASE element = "playing"
    <3>1. events' = events /\ element' = element
      BY <1>2, <2>1, <2>3, AppendNone DEF Played, PlayEvents
    <3> QED
      BY <1>6, <3>1
  <2> QED
    BY <1>2, <2>2, <2>3
<1> QED
  BY <1>3, <1>8, <1>9

\* An interval pauses the element at the start of the movie, and no one notices
\* who does not look at wound.
LEMMA RewindSteady == ASSUME Good, Rewind, ~hasty' PROVE OneCall' /\ Heard'
<1>1. /\ ~hasty /\ Idle /\ rewinds.all > 0 /\ timers' = timers
      /\ UNCHANGED <<data, src, playState, commands, player, movie, crashed, wish, videos>>
  BY Unchanging DEF Rewind
<1>2. /\ data' = Fail /\ events \in Seq(Events) /\ element \notin {"loading", "held"} /\ "pause" \in Events
      /\ timers # <<>> => element \in {"playing", "paused", "ended"} /\ ~Over
      /\ Over => element \in {"ended", "error", "paused"}
      /\ wish.url # NoUrl => Says /\ Follows
  <2>1. rewinds # NoRewind
    BY <1>1 DEF NoRewind
  <2> QED
    BY <1>1, <2>1, TaskFinds
<1>3. CASE /\ element = "ended" /\ element' = "paused" /\ UNCHANGED <<events, wound>>
  <2>1. Over' <=> Over
    BY <1>3 DEF Over
  <2>2. FatePlays' <=> FatePlays
    BY <1>1, <1>3 DEF FatePlays
  <2>3. OneCall'
    BY <1>1, <1>2, <1>3, <2>1 DEF OneCall
  <2>4. wish.url # NoUrl => Says'
    BY <1>1, <1>2, <1>3 DEF Says
  <2>5. wish.url # NoUrl => Follows'
    BY <1>1, <1>2, <1>3, <2>1, <2>2 DEF Follows
  <2> QED
    BY <1>1, <2>3, <2>4, <2>5 DEF Heard
<1>4. CASE element = "playing"
  <2>1. element' = "paused" /\ events' = events \o <<"pause">> /\ wound'
    BY <1>4 DEF Rewind, Paused, PauseEvents
  <2>2. events' = Append(events, "pause") /\ ~Over
    BY <1>2, <1>4, <2>1, AppendSeq
  <2>3. ~Over' /\ events' # <<>> /\ events'[Len(events')] = "pause"
    BY <1>2, <2>2, EventAppend DEF Over
  <2>4. OneCall'
    BY <1>2, <2>1, <2>3 DEF OneCall
  <2>5. Says'
    BY <2>1, <2>3 DEF Says
  <2>6. timers # <<>> => (FatePlays' <=> FatePlays)
    BY <1>1 DEF FatePlays
  <2>7. timers = <<>> => ~FatePlays'
    BY <1>1, <2>1 DEF FatePlays
  <2>8. wish.url # NoUrl => Follows'
    BY <1>1, <1>2, <1>4, <2>1, <2>2, <2>6, <2>7 DEF Follows
  <2> QED
    BY <1>1, <2>4, <2>5, <2>8 DEF Heard
<1>5. CASE element \notin {"playing", "ended"}
  <2>1. element' = element /\ events' = events \o <<>> /\ (wound' <=> wound)
    BY <1>2, <1>5 DEF Rewind, Paused, PauseEvents
  <2>2. events' = events
    BY <1>2, <2>1, AppendNone
  <2>3. (Over' <=> Over) /\ (FatePlays' <=> FatePlays)
    BY <1>1, <2>1, <2>2 DEF Over, FatePlays
  <2>4. OneCall'
    BY <1>1, <1>2, <2>1, <2>3, TaskFinds DEF OneCall
  <2>5. wish.url # NoUrl => Says'
    BY <1>1, <1>2, <2>1, <2>2 DEF Says
  <2>6. wish.url # NoUrl => Follows'
    BY <1>1, <1>2, <2>1, <2>3 DEF Follows
  <2> QED
    BY <1>1, <2>4, <2>5, <2>6 DEF Heard
<1>6. element = "ended" => element' = "paused" /\ UNCHANGED <<events, wound>>
  BY DEF Rewind
<1> QED
  BY <1>3, <1>4, <1>5, <1>6

\* The listeners: what they do after the end of the movie is what its end asks for.
LEMMA EventSteady == ASSUME Good, Event, ~hasty' PROVE OneCall' /\ Heard'
<1>1. /\ ~hasty /\ Idle /\ events # <<>> /\ events' = Tail(events) /\ playState' = StateAfter(Head(events))
      /\ UNCHANGED <<data, src, element, timers, rewinds, player, movie, crashed, wound, videos>>
  BY Unchanging DEF Event
<1>2. /\ data = Fail /\ events \in Seq(Events)
      /\ rewinds # NoRewind => element \notin {"loading", "held"}
      /\ timers # <<>> => element \in {"playing", "paused", "ended"} /\ ~Over
      /\ element # "held" /\ (Over => element \in {"ended", "error", "paused"}) /\ wish \in Wishes /\ Typed
      /\ wish.url # NoUrl => Says /\ Follows
  BY <1>1, TaskFinds
<1>3. /\ Over <=> (Over' \/ events[1] \in {"ended", "error"})
      /\ Head(events) = events[1] /\ events[1] \in Events
      /\ events' # <<>> => events'[Len(events')] = events[Len(events)]
      /\ events' = <<>> => events[Len(events)] = events[1]
  BY <1>1, <1>2, EventTail DEF Over
<1>4. OneCall'
  BY <1>1, <1>2, <1>3 DEF OneCall
<1>5. playState' = "playing" <=> events[1] = "playing"
  BY <1>1, <1>3 DEF StateAfter, Events
<1>6. wish.url # NoUrl => Says'
  BY <1>1, <1>2, <1>3, <1>5 DEF Says
<1>7. FatePlays' <=> FatePlays
  BY <1>1 DEF FatePlays
<1>8. CASE events[1] \notin {"ended", "error"}
  <2>1. Sent(Head(events)) = <<>>
    BY <1>3, <1>8 DEF Sent
  <2>2. wish' = wish /\ commands' = commands
    BY <1>2, <2>1, AppendNone DEF Event, Typed, Queue
  <2>3. wish.url # NoUrl => Follows'
    BY <1>1, <1>2, <1>3, <1>7, <1>8, <2>2 DEF Follows
  <2> QED
    BY <1>4, <1>6, <2>2, <2>3 DEF Heard
<1>9. CASE events[1] \in {"ended", "error"}
  <2>1. PICK op \in {"end", "error"} : Sent(Head(events)) = <<Plain(op)>>
    BY <1>3, <1>9 DEF Sent
  <2>2. op \in Ops \ {"video", "dash"}
    BY DEF Ops
  <2>3. commands' = Append(commands, Plain(op))
    <3>1. commands \in Seq(Commands) /\ Plain(op) \in Commands
      BY <1>2, <2>2, PlainType DEF Typed, Queue
    <3>2. commands \o <<Plain(op)>> = Append(commands, Plain(op))
      BY <3>1, AppendSeq
    <3> QED
      BY <2>1, <3>2 DEF Event
  <2>4. HasVideo(commands') => HasVideo(commands)
    BY <1>2, <2>2, <2>3, NoVideoAdded
  <2>5. wish'.url = wish.url /\ wish'.state = "off"
    <3>1. Sent(Head(events)) # <<>>
      BY <2>1
    <3>2. Ask("off", "off", "no")
      BY <3>1 DEF Event
    <3> QED
      BY <1>2, <3>2, AskEndIs
  <2>6. element \in {"ended", "error", "paused"} /\ timers = <<>>
    BY <1>2, <1>3, <1>9
  <2>7. ~FatePlays
    BY <2>6 DEF FatePlays
  <2>8. wish.url # NoUrl => Follows'
    BY <1>1, <1>2, <1>7, <2>4, <2>5, <2>7 DEF Follows
  <2> QED
    BY <1>4, <1>6, <2>5, <2>8 DEF Heard
<1> QED
  BY <1>8, <1>9

\* The element loads the movie, or does not.
LEMMA LoadsSteady == ASSUME Good, ElementLoads, ~hasty' PROVE OneCall' /\ Heard'
<1>1. /\ ~hasty /\ Idle /\ element \in {"loading", "held"}
      /\ UNCHANGED <<data, src, playState, commands, player, movie, crashed, wish, videos>>
      /\ UNCHANGED <<timers, rewinds>>
  BY Unchanging DEF ElementLoads
<1>2. /\ element = "loading" /\ events = <<>> /\ timers = <<>> /\ timers' = <<>> /\ rewinds' = NoRewind
      /\ data' = Fail
      /\ wish.url # NoUrl => Says /\ Follows
      /\ <<>> \in Seq(Events) /\ "playing" \in Events /\ "error" \in Events
  BY <1>1, TaskFinds
<1>3. FatePlays
  BY <1>2 DEF FatePlays
<1>4. CASE movie = src /\ element' = "playing" /\ events' = Append(<<>>, "playing")
  <2>1. ~Over' /\ events' # <<>> /\ events'[Len(events')] = "playing" /\ FatePlays'
    BY <1>2, <1>4, EventAppend, NoEnd DEF Over, FatePlays
  <2>2. OneCall'
    BY <1>2, <1>4, <2>1 DEF OneCall
  <2>3. Says'
    BY <1>4, <2>1 DEF Says
  <2>4. wish'.url # NoUrl => Follows'
    BY <1>1, <1>2, <1>3, <1>4, <2>1 DEF Follows
  <2> QED
    BY <2>2, <2>3, <2>4 DEF Heard
<1>5. CASE element' = "error" /\ events' = Append(<<>>, "error")
  <2>1. Over' /\ events' # <<>> /\ events'[Len(events')] = "error" /\ ~FatePlays'
    BY <1>2, <1>5, EventAppend DEF Over, FatePlays
  <2>2. OneCall'
    BY <1>2, <1>5, <2>1 DEF OneCall
  <2>3. Says'
    BY <1>5, <2>1 DEF Says
  <2>4. wish'.url # NoUrl => Follows'
    BY <1>1, <1>2, <1>3, <1>5, <2>1 DEF Follows
  <2> QED
    BY <2>2, <2>3, <2>4 DEF Heard
<1> QED
  BY <1>2, <1>4, <1>5 DEF ElementLoads

\* The movie ends.
LEMMA EndsSteady == ASSUME Good, ElementEnds, ~hasty' PROVE OneCall' /\ Heard'
<1>1. /\ ~hasty /\ Idle /\ timers = <<>>
      /\ UNCHANGED <<data, src, playState, timers, rewinds, commands, player, movie, crashed, wish, videos>>
  BY Unchanging DEF ElementEnds
<1>2. /\ data' = Fail
      /\ wish.url # NoUrl => Says /\ Follows
      /\ events \in Seq(Events) /\ "pause" \in Events /\ "ended" \in Events /\ "error" \in Events
  BY <1>1, TaskFinds
<1>3. ASSUME NEW q \in Seq(Events), NEW e \in {"ended", "error"}, events' = Append(q, e),
             element \in {"playing", "paused"}, element' = e
      PROVE  OneCall' /\ Heard'
  <2>1. Over' /\ events' # <<>> /\ events'[Len(events')] = e
    BY <1>2, <1>3, EventAppend DEF Over
  <2>2. element' \in {"ended", "error"} /\ element' # "playing" /\ timers' = <<>>
    BY <1>1, <1>3
  <2>3. ~FatePlays'
    BY <2>2 DEF FatePlays
  <2>4. OneCall'
    BY <1>2, <2>1, <2>2 DEF OneCall
  <2>5. Says'
    BY <1>3, <2>1, <2>2 DEF Says
  <2>6. element \notin {"loading", "error"}
    BY <1>3
  <2>7. wish'.url # NoUrl => Follows'
    BY <1>1, <1>2, <2>1, <2>3, <2>6 DEF Follows
  <2> QED
    BY <2>4, <2>5, <2>7 DEF Heard
<1>4. CASE element = "playing" /\ element' = "ended" /\ events' = events \o <<"pause", "ended">>
  <2>1. /\ events \o <<"pause", "ended">> = Append(Append(events, "pause"), "ended")
        /\ Append(events, "pause") \in Seq(Events)
    BY <1>2, AppendTwo, AppendSeq
  <2> QED
    BY <1>3, <1>4, <2>1
<1>5. CASE element \in {"playing", "paused"} /\ element' = "error" /\ events' = Append(events, "error")
  BY <1>2, <1>3, <1>5
<1> QED
  BY <1>4, <1>5 DEF ElementEnds

\* What is carried out fails only a movie that has not started.
LEMMA QuerySteady == ASSUME Good, OnQuery, ~hasty' PROVE OneCall' /\ Heard'
<1>1. PICK op : Receive(op)
  BY DEF OnQuery, QueryVideo, QueryPause, QueryResume, QuerySeek, QueryStop, QuerySpeed, QueryClearDash,
         QueryDash
<1>2. /\ ~crashed /\ commands # <<>> /\ Head(commands) = commands[1] /\ commands' = Tail(commands)
      /\ UNCHANGED <<data, src, element, playState, timers, rewinds, events, wish, wound, hasty, videos>>
      /\ Typed /\ Numbers(commands, movie, videos)
  BY <1>1, ReceiveIs DEF Good
<1>3. OneCall /\ Heard
  BY <1>2 DEF Good, Steady, Heard
<1>4. OneCall'
  BY <1>2, <1>3 DEF OneCall, Over
<1>5. ASSUME data = Fail, wish.url # NoUrl PROVE Says' /\ Follows'
  <2>1. Says /\ Follows
    BY <1>2, <1>3, <1>5 DEF Heard
  <2>2. Says'
    BY <1>2, <2>1 DEF Says
  <2>3. (FatePlays' <=> FatePlays) /\ (Over' <=> Over)
    BY <1>2 DEF FatePlays, Over
  <2>4. /\ commands \in Seq(Commands) /\ movie \in Nat /\ videos \in Nat /\ player \in Players
    BY <1>2, BoundAssumption DEF Typed, Queue
  <2>5. HasVideo(commands') => /\ HasVideo(commands)
                               /\ commands[1].op = "video" => commands[1].n \in Nat /\ commands[1].n < videos
    BY <1>2, <2>4, VideoTail
  <2>6. (player'.state = "failed" \/ HasVideo(commands')) => element \in {"loading", "error"} /\ movie' # src
    <3>1. CASE QueryVideo
      <4>1. commands[1].op = "video" /\ HasVideo(commands)
        BY <1>2, <2>4, <3>1, ReceiveIs, TailSeq DEF QueryVideo, HasVideo
      <4>2. element \in {"loading", "error"} /\ movie # src /\ src = videos /\ src # 0
        BY <2>1, <4>1 DEF Follows
      <4>3. \/ player' = player /\ movie' = movie
            \/ (\E s \in Started : player' = Video(commands[1].url, s)) /\ movie' = commands[1].n
            \/ movie' = 0
        BY <1>2, <3>1 DEF QueryVideo
      <4>4. CASE player' = player /\ movie' = movie
        BY <4>2, <4>4
      <4>5. CASE (\E s \in Started : player' = Video(commands[1].url, s)) /\ movie' = commands[1].n
        <5>1. player'.state # "failed"
          BY <4>5, ModesAre DEF Video
        <5> QED
          BY <2>4, <2>5, <4>1, <4>2, <4>5, <5>1
      <4>6. CASE movie' = 0
        BY <4>2, <4>6
      <4> QED
        BY <4>3, <4>4, <4>5, <4>6
    <3>2. CASE ~QueryVideo
      <4>1. player'.state = "failed" => player.state = "failed"
        <5>1. ASSUME NEW S \in {{"off"}, Started}, State(S)
              PROVE  player'.state = "failed" => player.state = "failed"
          <6>1. S \in SUBSET Modes /\ \A s \in S : s # "failed"
            BY ModesAre
          <6> QED
            BY <2>4, <5>1, <6>1, StateIs
        <5>2. player' = player \/ \E S \in {{"off"}, Started} : State(S)
          BY <1>2, <3>2 DEF OnQuery, QueryPause, QueryResume, QuerySeek, QueryStop, QuerySpeed, QueryClearDash,
             QueryDash, browserVars
        <5> QED
          BY <5>1, <5>2
      <4>2. movie' = movie \/ movie' = 0
        BY <3>2 DEF OnQuery, QueryPause, QueryResume, QuerySeek, QueryStop, QuerySpeed, QueryClearDash,
           QueryDash, browserVars
      <4> QED
        BY <2>1, <2>5, <4>1, <4>2 DEF Follows
    <3> QED
      BY <3>1, <3>2
  <2>7. Follows'
    BY <1>2, <2>1, <2>3, <2>6 DEF Follows
  <2> QED
    BY <2>2, <2>7
<1>6. Heard'
  BY <1>2, <1>5 DEF Heard
<1> QED
  BY <1>4, <1>6

\* What happens to ffmpeg fails no movie that has started.
LEMMA UnaskedSteady == ASSUME Good, PlayerDetached \/ FfmpegEnds, ~hasty' PROVE OneCall' /\ Heard'
<1>1. /\ UNCHANGED <<data, src, element, playState, timers, rewinds, events, commands, crashed, wish, wound,
                     hasty, videos>>
      /\ movie' \in {0, movie} /\ (player' = player \/ player'.state \in {"dead", "detached"})
  BY UnaskedIs DEF Good
<1>2. OneCall /\ Heard
  BY <1>1 DEF Good, Steady, Heard
<1>3. OneCall'
  BY <1>1, <1>2 DEF OneCall, Over
<1>4. (FatePlays' <=> FatePlays) /\ (Over' <=> Over)
  BY <1>1 DEF FatePlays, Over
<1>5. Says => Says'
  BY <1>1 DEF Says
<1>6. Follows => Follows'
  BY <1>1, <1>4 DEF Follows
<1> QED
  BY <1>1, <1>2, <1>3, <1>5, <1>6 DEF Heard

\* Every step keeps Steady.
LEMMA SteadyStep == ASSUME Good, [Next]_vars PROVE Steady'
<1> SUFFICES ASSUME ~hasty' PROVE OneCall' /\ Heard'
  BY DEF Steady, Heard
<1>1. ASSUME UNCHANGED <<data, src, element, playState, timers, rewinds, events, player, movie, crashed,
                         wish, wound, hasty, videos>>,
             HasVideo(commands') => HasVideo(commands)
      PROVE  OneCall' /\ Heard'
  <2>1. OneCall /\ Heard
    BY <1>1 DEF Good, Steady, Heard
  <2>2. OneCall'
    BY <1>1, <2>1 DEF OneCall, Over
  <2>3. Says => Says'
    BY <1>1 DEF Says
  <2>4. Follows => Follows'
    BY <1>1 DEF Follows, FatePlays, Over
  <2> QED
    BY <1>1, <2>1, <2>2, <2>3, <2>4 DEF Heard
<1>2. CASE UNCHANGED vars
  BY <1>1, <1>2, Unchanging
<1>3. ASSUME NEW u \in DashUrls, ManifestArrives(u) PROVE OneCall' /\ Heard'
  <2>1. Command("dash", u, 0) \in Commands /\ Command("dash", u, 0).op # "video" /\ commands \in Seq(Commands)
    BY UrlAssumption, BoundAssumption, VideoType DEF Good, Typed, Queue
  <2>2. HasVideo(commands') => HasVideo(commands)
    BY <1>3, <2>1, VideoAppend DEF ManifestArrives
  <2> QED
    BY <1>1, <1>3, <2>2, Unchanging
<1> QED
  BY <1>2, <1>3, PageSteady, CallSteady, TimerSteady, RewindSteady, EventSteady, LoadsSteady, EndsSteady,
     QuerySteady, UnaskedSteady DEF Next

-----------------------------------------------------------------------------
(***************************************************************************)
(* The theorems.                                                           *)
(***************************************************************************)
\* Two forms of the invariant, in this state and in the next.
LEMMA GoodIs == (IInv <=> Good) /\ (IInv' <=> Good')
  BY TypedIs DEF IInv, Good

\* The invariant holds at first.
LEMMA InitInvariant == Init => IInv
<1> SUFFICES ASSUME Init PROVE Good
  BY GoodIs
<1> USE UrlAssumption, BoundAssumption DEF Init
<1>1. /\ "none" \in Elements /\ "none" \in Mute /\ "stopped" \in States /\ <<>> \in Timers /\ <<>> \in Seq(Events)
      /\ <<>> \in Seq(Commands) /\ DOMAIN <<>> = {} /\ Len(<<>>) = 0
  BY DEF Elements, Mute, States, Timers
<1>2. wish = Video(NoUrl, "off") /\ wish \in Wishes /\ player \in Players /\ wish.url = NoUrl
  BY VideoWishType
<1>3. NoRewind \in Rewinds /\ NoRewind.all = 0
  BY RewindType
<1>4. Queue(commands)
  BY <1>1 DEF Queue
<1>5. Typed
  <2>1. 0 \in 0 .. MaxVideos /\ 0 \in 0 .. MaxCalls /\ {} \subseteq Urls /\ FALSE \in BOOLEAN /\ "no" \in Whys
    BY DEF Whys
  <2>2. rewinds \in Rewinds /\ rewinds.all <= calls
    BY <1>3
  <2> QED
    BY <1>1, <1>2, <1>4, <2>1, <2>2 DEF Typed
<1>6. Numbers(commands, movie, videos)
  BY <1>1 DEF Numbers
<1>7. OneCall
  BY <1>1, NoEnd DEF OneCall, Over
<1>8. Obeyed /\ Fresh /\ Steady /\ Reasons
  BY <1>2, <1>7 DEF Obeyed, Fresh, Steady, Reasons
<1> QED
  BY <1>5, <1>6, <1>8 DEF Good

\* Every step keeps the invariant.
LEMMA InvariantStep == IInv /\ [Next]_vars => IInv'
<1> SUFFICES ASSUME Good, [Next]_vars PROVE Good'
  BY GoodIs
<1>1. Typed'
  BY TypeStep DEF Good
<1>2. Numbers(commands', movie', videos')
  BY NumberedStep DEF Good
<1>3. Obeyed' /\ Fresh' /\ Reasons'
  BY ObeyedStep, FreshStep, ReasonsStep DEF Good
<1>4. Steady'
  BY SteadyStep
<1> QED
  BY <1>1, <1>2, <1>3, <1>4 DEF Good

\* When the queue is empty, what it ends with and in is what ffmpeg does.
LEMMA NothingQueued ==
  ASSUME NEW p, NEW u, NEW s
  PROVE  /\ EndsWith(<<>>, p, u) => p.url = u
         /\ EndsIn(<<>>, p, s) => Fits(p.state, s)
<1>1. DOMAIN <<>> = {}
  OBVIOUS
<1> QED
  BY <1>1 DEF EndsWith, EndsIn

\* With nothing queued, the end of the queue is what ffmpeg does.
LEMMA LastWordFollows == IInv => LastWordCounts
<1> SUFFICES ASSUME Good, Settled
             PROVE  /\ player.url = wish.url
                    /\ wish.state = "off" /\ unheard \notin {"seek", "overtaken"} => player.state # "on"
                    /\ wish.state = "on" /\ unheard # "speed" => player.state \in {"on", "failed"} \cup Untold
  BY GoodIs DEF LastWordCounts
<1>1. EndsWith(<<>>, player, wish.url) /\ EndsIn(<<>>, player, Told)
  BY DEF Good, Settled, Idle, Obeyed
<1>2. player.url = wish.url /\ Fits(player.state, Told)
  BY <1>1, NothingQueued
<1>3. unheard \in Whys /\ player.state \in Modes /\ Reasons
  BY DEF Good, Typed, Players
<1>4. ASSUME wish.state = "off", unheard \notin {"seek", "overtaken"} PROVE player.state # "on"
  <2>1. unheard = "no"
    BY <1>3, <1>4 DEF Reasons, Whys
  <2> QED
    BY <1>2, <1>4, <2>1 DEF Told, Fits
<1>5. ASSUME wish.state = "on", unheard # "speed" PROVE player.state \in {"on", "failed"} \cup Untold
  <2>1. unheard = "no"
    BY <1>3, <1>5 DEF Reasons, Whys
  <2>2. player.state # "off"
    BY <1>2, <1>5, <2>1 DEF Told, Fits
  <2> QED
    BY <1>3, <2>2 DEF Modes, Untold
<1> QED
  BY <1>2, <1>4, <1>5

\* With nothing under way, where the element goes is where it is.
LEMMA InStepFollows == IInv => InStep
<1> SUFFICES ASSUME Good, Settled, ~hasty, timers = <<>>, events = <<>>, element \notin {"loading", "held"}
             PROVE  /\ player.state = "on" /\ unheard # "seek" /\ ~wound => element = "playing"
                    /\ element = "playing" => player.state \in {"on"} \cup Untold \/ unheard = "speed"
                    /\ playState = "playing" <=> element = "playing"
  BY GoodIs DEF InStep
<1>1. Says /\ Follows /\ wish.state \in {"on", "off"} /\ unheard # "overtaken" /\ LastWordCounts
  BY GoodIs, LastWordFollows DEF Good, Typed, Wishes, Reasons, Steady, Settled, Idle
<1>2. ~Over /\ (FatePlays <=> element = "playing") /\ (playState = "playing" <=> element = "playing")
  BY <1>1, NoEnd DEF Over, FatePlays, Says
<1>3. ASSUME player.state = "on", unheard # "seek", ~wound PROVE element = "playing"
  <2>1. wish.state = "on"
    BY <1>1, <1>3 DEF LastWordCounts
  <2> QED
    BY <1>1, <1>2, <1>3, <2>1 DEF Follows
<1>4. ASSUME element = "playing", unheard # "speed" PROVE player.state \in {"on"} \cup Untold
  <2>1. wish.state = "on" /\ player.state # "failed"
    BY <1>1, <1>2, <1>4 DEF Follows
  <2> QED
    BY <1>1, <1>4, <2>1 DEF LastWordCounts
<1> QED
  BY <1>2, <1>3, <1>4

\* Every variable has its type, and no event of an earlier movie is on its way
\* once the element loads another.
THEOREM TypeCorrect == Spec => []TypeOK
<1>1. IInv => TypeOK
  BY DEF IInv
<1> QED
  BY <1>1, InitInvariant, InvariantStep, PTL DEF Spec

\* Whatever the page does to its object, whatever the element does and whenever
\* ffmpeg ends, once the commands are carried out ffmpeg has the video the page
\* asked for last, and is on or off as the page wants it, but for the calls that
\* are not heard and for what stops ffmpeg untold.
THEOREM LastWord == Spec => []LastWordCounts
<1> QED
  BY LastWordFollows, InitInvariant, InvariantStep, PTL DEF Spec

\* A page that makes its calls on a video that is there sees its object play when
\* the element does, and the element play when ffmpeg does, with the exceptions
\* InStep names.
THEOREM StaysInStep == Spec => []InStep
<1> QED
  BY InStepFollows, InitInvariant, InvariantStep, PTL DEF Spec
=============================================================================
