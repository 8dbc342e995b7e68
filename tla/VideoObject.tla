---------------------------- MODULE VideoObject ----------------------------
(***************************************************************************)
(* A page's video object and the video it stands for.  The polyfill        *)
(* (js/hbbtv_polyfill.js, OipfAVControlMapper) puts a video element with a *)
(* transparent movie in place of the object, follows what the page does to *)
(* the object, and tells the browser with cefQuery; OnQuery carries the    *)
(* commands out one after the other, and ffmpeg plays the real video.  So  *)
(* there are two players, which nothing keeps in step but the order of     *)
(* three queues: the commands, the page's timers and the media events.     *)
(*                                                                         *)
(* A JavaScript task is atomic, and what the mutation observers do comes   *)
(* at its end: while data is a URL of the page, the task that set it is    *)
(* still running, and only it can go on.                                   *)
(***************************************************************************)
EXTENDS Naturals, Sequences, FiniteSets

CONSTANTS
  Urls,       \* videos a page may ask for
  DashUrls,   \* those that end in .mpd
  NoUrl,      \* an empty data attribute
  Fail,       \* client://movie/fail, what data is set to
  MaxVideos,  \* bound: VIDEO_URL and CHANGE_VIDEO_URL commands
  MaxCalls    \* bound: calls of play, stop and seek, and objects

ASSUME UrlAssumption == DashUrls \subseteq Urls /\ NoUrl \notin Urls /\ Fail \notin Urls
ASSUME BoundAssumption == MaxVideos \in Nat /\ MaxCalls \in Nat

VARIABLES
  data,       \* the object's attribute
  src,        \* the transparent movie of the video element: a number, or 0
  element,    \* the video element; "held": it is loading and will not play
  playState,  \* the object's
  timers,     \* setTimeout(..., 0): what they will do to the element
  rewinds,    \* setInterval(..., 100): those running, and whether rewindInterval is one
  events,     \* media events on their way to the element's listeners
  manifests,  \* the manifests that are being fetched
  commands,   \* cefQuery requests on their way to OnQuery
  player,     \* the transcoder: its URL, and what its ffmpeg does
  movie,      \* the transparent movie there is a file of, or 0
  described,  \* the manifests DashHandler knows the streams of
  crashed,    \* 60 / stream.duration was 0 in InitLoadThread
  wish,       \* history: what the page asked for last, or was told
  unheard,    \* history: why the commands say something else, or "no"
  wound,      \* history: winding back paused the element at the start of the movie
  hasty,      \* history: a call, or the end of the movie, met a call half done
  videos, calls

pageVars == <<data, src, element, playState, timers, rewinds, events, manifests>>
browserVars == <<player, movie, described, crashed>>
histVars == <<wish, unheard, wound, hasty>>
vars == <<pageVars, commands, browserVars, histVars, videos, calls>>

Video(u, state) == [url |-> u, state |-> state]
Command(op, u, n) == [op |-> op, url |-> u, n |-> n]
Plain(op) == Command(op, NoUrl, 0)

\* rewindInterval names the interval that was made last.
NoRewind == [all |-> 0, named |-> FALSE]

Init ==
  /\ data = Fail /\ src = 0 /\ element = "none" /\ playState = "stopped"
  /\ timers = <<>> /\ rewinds = NoRewind /\ events = <<>> /\ manifests = {}
  /\ commands = <<>>
  /\ player = Video(NoUrl, "off") /\ movie = 0 /\ described = {} /\ crashed = FALSE
  /\ wish = Video(NoUrl, "off") /\ unheard = "no" /\ wound = FALSE /\ hasty = FALSE
  /\ videos = 0 /\ calls = 0

\* No JavaScript is running; the next task may be a timer, an event, ...
Idle == ~crashed /\ data = Fail

-----------------------------------------------------------------------------
(***************************************************************************)
(* The video element (external, HTMLMediaElement).                         *)
(***************************************************************************)
\* pause() while a movie loads takes autoplay back, and is no event.
Paused(e) == CASE e = "playing" -> "paused" [] e = "loading" -> "held" [] OTHER -> e
PauseEvents(e) == IF e = "playing" THEN <<"pause">> ELSE <<>>

\* play() fails on an element in error, and starts over at the end.
Played(e) == CASE e \in {"paused", "ended"} -> "playing"
               [] e = "held" -> "loading"
               [] OTHER -> e
PlayEvents(e) == IF e \in {"paused", "ended"} THEN <<"playing">> ELSE <<>>

\* The movie is there and is played, unless it is held; it may as well fail,
\* as when the element asks for it before the browser has made it.
ElementLoads ==
  /\ Idle /\ element \in {"loading", "held"}
  /\ \/ /\ movie = src
        /\ element' = IF element = "loading" THEN "playing" ELSE "paused"
        /\ events' = IF element = "loading" THEN Append(events, "playing") ELSE events
     \/ /\ element' = "error"
        /\ events' = Append(events, "error")
  /\ UNCHANGED <<data, src, playState, timers, rewinds, manifests, commands, browserVars, histVars, videos,
                 calls>>

\* The movie has ended or failed, and the listener does not know yet.
HasEnd(q) == \E i \in DOMAIN q : q[i] \in {"ended", "error"}
Over == HasEnd(events)

\* The movie ends, or its file is gone.
ElementEnds ==
  /\ Idle
  /\ hasty' = (hasty \/ timers # <<>>)
  /\ \/ /\ element = "playing"
        /\ element' = "ended"
        /\ events' = events \o <<"pause", "ended">>
     \/ /\ element \in {"playing", "paused"} /\ movie # src
        /\ element' = "error"
        /\ events' = Append(events, "error")
  /\ UNCHANGED <<data, src, playState, timers, rewinds, manifests, commands, browserVars, wish,
                 unheard, wound, videos, calls>>

-----------------------------------------------------------------------------
(***************************************************************************)
(* The object: its constructor, its methods, its observers, its listeners. *)
(***************************************************************************)
\* The polyfill puts a video element into an object once.
Inject(u, state) ==
  /\ Idle /\ element = "none"
  /\ calls < MaxCalls
  /\ calls' = calls + 1
  /\ wish' = Video(u, state)
  /\ unheard' = "no" /\ wound' = FALSE /\ hasty' = FALSE
  /\ UNCHANGED <<data, playState, timers, rewinds, events, browserVars>>

NewObject(u) ==
  /\ Inject(u, "on")
  /\ videos < MaxVideos
  /\ videos' = videos + 1
  /\ src' = videos + 1
  /\ commands' = Append(commands, Command("video", u, videos + 1))
  /\ element' = "loading"
  /\ UNCHANGED manifests

NewEmptyObject ==
  /\ Inject(NoUrl, "off")
  /\ element' = "empty"
  /\ UNCHANGED <<src, videos, commands, manifests>>

\* An object of type application/dash+xml: its manifest is fetched, and the
\* video waits for a change of data.
NewDashObject(u) ==
  /\ Inject(NoUrl, "off")
  /\ commands' = Append(commands, Plain("clear"))
  /\ manifests' = manifests \cup {u}
  /\ element' = "empty"
  /\ UNCHANGED <<src, videos>>

\* The page sets the attribute; the observers come later.
SetData(u) ==
  /\ ~crashed /\ element # "none" /\ videos < MaxVideos
  /\ data' = u
  /\ wish' = Video(u, "on")
  /\ unheard' = "no"
  /\ hasty' = (timers # <<>> \/ rewinds # NoRewind)
  /\ UNCHANGED <<src, element, playState, timers, rewinds, events, manifests, commands, browserVars, wound,
                 videos, calls>>

\* Both observers: data goes to src and is set to Fail, src goes to the
\* browser and is set to the transparent movie.  The element loads it, and
\* forgets the events of the movie before.
DataChanged ==
  /\ ~crashed /\ data # Fail
  /\ data' = Fail
  /\ videos' = videos + 1
  /\ src' = videos + 1
  /\ commands' = commands \o <<Plain("clear"), Command("video", data, videos + 1)>>
  /\ manifests' = IF data \in DashUrls THEN manifests \cup {data} ELSE manifests
  /\ element' = "loading"
  /\ events' = <<>>
  /\ wound' = FALSE
  /\ UNCHANGED <<playState, timers, rewinds, browserVars, wish, unheard, hasty, calls>>

\* A call of the page is hasty in the same task as a change of data, on a video
\* that is not there yet or not there any more, or when the object has not heard
\* yet that the movie is over.
Call(steady) ==
  /\ ~crashed /\ element # "none" /\ calls < MaxCalls
  /\ calls' = calls + 1
  /\ hasty' = (hasty \/ data # Fail \/ Over \/ ~steady)
  /\ UNCHANGED <<data, src, manifests, browserVars, videos>>

Ready == element \in {"playing", "paused", "ended"}

\* What the commands say, to the end of the queue, and of a change of data.
Told == IF unheard = "no" <=> wish.state = "on" THEN "on" ELSE "off"

\* The page wants ffmpeg on or off; what is told then, and why if it is not that.
Ask(state, told, why) ==
  /\ wish' = [wish EXCEPT !.state = state]
  /\ unheard' = IF state = told THEN "no" ELSE why

\* What comes before a change of data is undone by it.
AskStop == Ask("off", IF data = Fail THEN "off" ELSE "on", "overtaken")

\* Mutant of PlayPause: only the element pauses.
PauseLate ==
  /\ Call(Ready)
  /\ timers' = Append(timers, "pause")
  /\ AskStop
  /\ UNCHANGED <<commands, element, playState, rewinds, events, wound>>

\* play(0)
PlayPause ==
  /\ Call(Ready)
  /\ commands' = Append(commands, Plain("pause"))
  /\ timers' = Append(timers, "pause")
  /\ AskStop
  /\ UNCHANGED <<element, playState, rewinds, events, wound>>

\* play(1)
PlayResume ==
  /\ Call(Ready)
  /\ commands' = Append(commands, Plain("resume"))
  /\ timers' = Append(timers, "play")
  /\ Ask("on", "on", "no")
  /\ UNCHANGED <<element, playState, rewinds, events, wound>>

\* play(speed), speed > 1: the element plays, ffmpeg is told a speed.
PlayFast ==
  /\ Call(Ready)
  /\ commands' = Append(commands, Plain("speed"))
  /\ timers' = Append(timers, "play")
  /\ Ask("on", Told, "speed")
  /\ UNCHANGED <<element, playState, rewinds, events, wound>>

\* play(speed), speed < 0.  An interval that is running goes on, without a name;
\* and no other call and no new video ends one.
PlayBackward ==
  /\ Call(Ready /\ timers = <<>>)
  /\ commands' = Append(commands, Plain("speed"))
  /\ element' = Played(element)
  /\ events' = events \o PlayEvents(element)
  /\ rewinds' = [all |-> rewinds.all + 1, named |-> TRUE]
  /\ wound' = FALSE
  /\ Ask("on", Told, "speed")
  /\ UNCHANGED <<playState, timers>>

\* A tenth of a second back; at the start, where the movie may be at any time
\* here, the element pauses, and the interval that was made last ends, whichever
\* finds it there.
Rewind ==
  /\ Idle /\ rewinds.all > 0
  /\ \/ /\ element = "ended"
        /\ element' = "paused"
        /\ UNCHANGED <<rewinds, events, wound>>
     \/ /\ element # "ended"
        /\ element' = Paused(element)
        /\ events' = events \o PauseEvents(element)
        /\ rewinds' = IF rewinds.named THEN [all |-> rewinds.all - 1, named |-> FALSE] ELSE rewinds
        /\ wound' = (wound \/ element = "playing")
  /\ UNCHANGED <<data, src, playState, timers, manifests, commands, browserVars, wish, unheard, hasty,
                 videos, calls>>

\* A movie that was played to its end is paused when it is put elsewhere.
Sought(e) == IF e = "ended" THEN "paused" ELSE e

Stop ==
  /\ Call(Ready /\ timers = <<>>)
  /\ commands' = Append(commands, Plain("stop"))
  /\ element' = Sought(Paused(element))
  /\ events' = events \o PauseEvents(element)
  /\ playState' = "stopped"
  /\ AskStop
  /\ UNCHANGED <<timers, rewinds, wound>>

\* seek_video starts ffmpeg, also that of a video that is paused.
Seek ==
  /\ Call(Ready)
  /\ commands' = Append(commands, Plain("seek"))
  /\ element' = Sought(element)
  /\ Ask(wish.state, "on", "seek")
  /\ UNCHANGED <<playState, timers, rewinds, events, wound>>

Timer ==
  /\ Idle /\ timers # <<>>
  /\ timers' = Tail(timers)
  /\ \/ /\ Head(timers) = "pause"
        /\ element' = Paused(element)
        /\ events' = events \o PauseEvents(element)
        /\ UNCHANGED wound
     \/ /\ Head(timers) = "play"
        /\ element' = Played(element)
        /\ events' = events \o PlayEvents(element)
        /\ wound' = FALSE
  /\ UNCHANGED <<data, src, playState, rewinds, manifests, commands, browserVars, wish, unheard, hasty,
                 videos, calls>>

\* The command a listener sends, and the state it sets.
Sent(e) == CASE e = "ended" -> <<Plain("end")>> [] e = "error" -> <<Plain("error")>> [] OTHER -> <<>>
StateAfter(e) == CASE e = "pause" -> "paused" [] e = "ended" -> "finished" [] OTHER -> e

\* Mutant of Event: END_VIDEO is not sent.
EventUntold ==
  /\ Idle /\ events # <<>>
  /\ events' = Tail(events)
  /\ playState' = StateAfter(Head(events))
  /\ IF Sent(Head(events)) = <<>> THEN UNCHANGED <<wish, unheard>> ELSE Ask("off", "off", "no")
  /\ UNCHANGED <<data, src, element, timers, rewinds, manifests, commands, browserVars, wound,
                 hasty, videos, calls>>

\* The listeners of playing, pause, ended and error.
Event ==
  /\ Idle /\ events # <<>>
  /\ events' = Tail(events)
  /\ commands' = commands \o Sent(Head(events))
  /\ playState' = StateAfter(Head(events))
  /\ IF Sent(Head(events)) = <<>> THEN UNCHANGED <<wish, unheard>> ELSE Ask("off", "off", "no")
  /\ UNCHANGED <<data, src, element, timers, rewinds, manifests, browserVars, wound, hasty, videos,
                 calls>>

\* The answer to GetAndParseMpd's request; another than 2xx changes nothing.
ManifestArrives(u) ==
  /\ Idle /\ u \in manifests
  /\ manifests' = manifests \ {u}
  /\ \/ commands' = Append(commands, Command("dash", u, 0))
     \/ UNCHANGED commands
  /\ UNCHANGED <<data, src, element, playState, timers, rewinds, events, browserVars, histVars, videos,
                 calls>>

\* The page is left; the browser stops nothing for it.
Navigate ==
  /\ Idle /\ element # "none" /\ calls < MaxCalls
  /\ calls' = calls + 1
  /\ src' = 0 /\ element' = "none" /\ playState' = "stopped"
  /\ timers' = <<>> /\ rewinds' = NoRewind /\ events' = <<>> /\ manifests' = {}
  /\ wish' = Video(NoUrl, "off") /\ unheard' = "no" /\ wound' = FALSE /\ hasty' = FALSE
  /\ UNCHANGED <<data, commands, browserVars, videos>>

-----------------------------------------------------------------------------
(***************************************************************************)
(* OnQuery.  VideoControl has what these commands do in detail, and what   *)
(* happens when another thread stops the video meanwhile.                  *)
(***************************************************************************)
Receive(op) == /\ ~crashed /\ commands # <<>> /\ Head(commands).op = op
               /\ commands' = Tail(commands)
               /\ UNCHANGED <<pageVars, histVars, videos, calls>>

\* There is a transcoder once a video was asked for.  Its state: ffmpeg is on or
\* off; it ended by itself ("dead"), and ffmpeg_pid still names it; fork() failed
\* ("unforked"), or there was nothing to fork it for ("failed"); or VDR's player
\* was detached.
Transcoder == player.url # NoUrl
State(S) == IF Transcoder THEN \E s \in S : player' = [player EXCEPT !.state = s] ELSE player' = player
Started == {"on", "unforked"}

\* VIDEO_URL and CHANGE_VIDEO_URL: stop the video there is, start the new one.
\* set_input does not look at what fork_ffmpeg returns.
QueryVideo ==
  /\ Receive("video")
  /\ LET u == Head(commands).url IN
     \/ /\ u \in DashUrls /\ described = {}      \* GetBestStream finds none (DashManifest)
        /\ crashed' = TRUE
        /\ UNCHANGED <<player, movie>>
     \/ /\ u \in DashUrls => described # {}
        /\ \/ /\ \E s \in Started : player' = Video(u, s)
              /\ movie' = Head(commands).n
           \/ /\ player' = Video(u, "failed")
              /\ movie' = 0
        /\ UNCHANGED crashed
  /\ UNCHANGED described

QueryPause ==
  /\ Receive("pause")
  /\ State({"off"})
  /\ UNCHANGED <<movie, described, crashed>>

\* A resume while ffmpeg_pid is set is ignored, whether ffmpeg runs or not.
QueryResume ==
  /\ Receive("resume")
  /\ IF player.state \in {"on", "dead"} THEN UNCHANGED player ELSE State(Started)
  /\ UNCHANGED <<movie, described, crashed>>

\* seek_video stops the video, files and all, and forks.
QuerySeek ==
  /\ Receive("seek")
  /\ State(Started)
  /\ movie' = IF Transcoder THEN 0 ELSE movie
  /\ UNCHANGED <<described, crashed>>

\* STOP_VIDEO, END_VIDEO and ERROR_VIDEO
QueryStop ==
  /\ \E op \in {"stop", "end", "error"} : Receive(op)
  /\ State({"off"})
  /\ movie' = 0
  /\ UNCHANGED <<described, crashed>>

\* speed_video is empty.
QuerySpeed ==
  /\ Receive("speed")
  /\ UNCHANGED browserVars

QueryClearDash ==
  /\ Receive("clear")
  /\ described' = {}
  /\ UNCHANGED <<player, movie, crashed>>

QueryDash ==
  /\ Receive("dash")
  /\ described' = described \cup {Head(commands).url}
  /\ UNCHANGED <<player, movie, crashed>>

OnQuery == \/ QueryVideo \/ QueryPause \/ QueryResume \/ QuerySeek \/ QueryStop \/ QuerySpeed
           \/ QueryClearDash \/ QueryDash

\* The control thread's stop_video, in one step: VideoControl has the steps.
PlayerDetached ==
  /\ ~crashed
  /\ State({"detached"})
  /\ movie' = 0
  /\ UNCHANGED <<pageVars, commands, described, crashed, histVars, videos, calls>>

\* ffmpeg ends by itself: the video is over for it, or it could not go on.
FfmpegEnds ==
  /\ ~crashed /\ player.state = "on"
  /\ player' = [player EXCEPT !.state = "dead"]
  /\ UNCHANGED <<pageVars, commands, movie, described, crashed, histVars, videos, calls>>

-----------------------------------------------------------------------------
Calls == PlayPause \/ PlayResume \/ PlayFast \/ PlayBackward \/ Stop \/ Seek

Next ==
  \/ \E u \in Urls : NewObject(u) \/ SetData(u)
  \/ \E u \in DashUrls : NewDashObject(u) \/ ManifestArrives(u)
  \/ NewEmptyObject \/ DataChanged \/ Calls \/ Timer \/ Rewind \/ Event \/ Navigate
  \/ ElementLoads \/ ElementEnds
  \/ OnQuery \/ PlayerDetached \/ FfmpegEnds

Spec == Init /\ [][Next]_vars

-----------------------------------------------------------------------------
\* Every variable has its type, and no event of an earlier movie is on its way
\* once the element loads another: an "ended" of it would stop the new video.
TypeOK ==
  /\ data \in Urls \cup {Fail}
  /\ src \in 0 .. MaxVideos /\ movie \in 0 .. MaxVideos
  /\ element \in {"none", "empty", "loading", "held", "playing", "paused", "ended", "error"}
  /\ playState \in {"stopped", "playing", "paused", "finished", "error"}
  /\ timers \in Seq({"pause", "play"})
  /\ rewinds \in [all : 0 .. MaxCalls, named : BOOLEAN]
  /\ events \in Seq({"playing", "pause", "ended", "error"})
  /\ element \in {"none", "empty", "loading", "held"} => events = <<>>
  /\ manifests \subseteq Urls /\ described \subseteq Urls
  /\ player \in [url : Urls \cup {NoUrl}, state : {"on", "off", "failed", "dead", "unforked", "detached"}]
  /\ wish \in [url : Urls \cup {NoUrl}, state : {"on", "off"}]
  /\ unheard \in {"no", "speed", "seek", "overtaken"}
  /\ crashed \in BOOLEAN /\ wound \in BOOLEAN /\ hasty \in BOOLEAN
  /\ videos \in 0 .. MaxVideos /\ calls \in 0 .. MaxCalls

\* Everything the page and its element have said has been carried out.
Settled == Idle /\ commands = <<>> /\ wish.url # NoUrl

\* What stops ffmpeg, or keeps it from starting, and nobody tells the page: it
\* ended by itself, and then RESUME_VIDEO is ignored, too; fork() failed; VDR's
\* player was detached.
Untold == {"dead", "unforked", "detached"}

\* Whatever the page does to its object, whatever the element does and whenever
\* ffmpeg ends, ffmpeg ends up with the video the page asked for last; it is off
\* if the page wants it off, and on if the page wants it on, unless it cannot
\* play the video or was stopped untold.  Three calls are not heard: a seek of a
\* video that is off starts its ffmpeg; play() with another speed than 1 does
\* not; and what the page stops in the task that changes data is started by the
\* observers, which come later.
LastWordCounts ==
  Settled =>
    /\ player.url = wish.url
    /\ wish.state = "off" /\ unheard \notin {"seek", "overtaken"} => player.state # "on"
    /\ wish.state = "on" /\ unheard # "speed" => player.state \in {"on", "failed"} \cup Untold

\* The transparent movie and ffmpeg keep in step, as long as no call is made on a
\* video that is not there yet or is over, no stop(), new video or end of the
\* movie meets a play() half done, and no new video meets a winding back.  Where
\* ffmpeg plays the element plays, but for a seek of a video that is off and a
\* movie wound back to its start; where the element plays ffmpeg does, but for
\* another speed than 1 and what stopped it untold; and the object says what the
\* element does.
InStep ==
  Settled /\ ~hasty /\ timers = <<>> /\ events = <<>> /\ element \notin {"loading", "held"} =>
    /\ player.state = "on" /\ unheard # "seek" /\ ~wound => element = "playing"
    /\ element = "playing" => player.state \in {"on"} \cup Untold \/ unheard = "speed"
    /\ playState = "playing" <=> element = "playing"
=============================================================================
