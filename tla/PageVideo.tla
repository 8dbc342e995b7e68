----------------------------- MODULE PageVideo -----------------------------
(***************************************************************************)
(* Where the video is on a page, and what VDR and the page's own style are *)
(* told of it.  hbb-video-handler.js puts a <video> into every object of a *)
(* video type, live TV or a film; cefVideoSize (index.js) measures the     *)
(* elements that may be the video and sends VIDEO_SIZE; video_quirks.js    *)
(* hides, site by site, what covers a film that fills the screen.          *)
(*                                                                         *)
(* All players have the same id, so that getElementById finds the first in *)
(* document order, whoever it belongs to.  A rectangle is <<width, height>>*)
(* (its place rides along), and a player is as large as the object it is   *)
(* in: without a box of its own it is measured by its parent.              *)
(***************************************************************************)
EXTENDS Integers, Sequences, SequencesExt

CONSTANTS
  Order,       \* the elements a page may have, in document order
  Type,        \* element -> "broadcast", "av", "dash", "none"
  Id,          \* element -> "video", "videocontainer", "playerObject", "other"
  Filled,      \* the elements with a child of their own, <param> and the like
  Rects,       \* the sizes elements may have
  Pages,       \* the pages as they are read: site, elements, data, missing things
  None,
  MaxOps       \* bound: what the page's scripts do

Elements == Range(Order)
ASSUME OrderAssumption == Order \in Seq(Elements) /\ None \notin Elements
ASSUME TypeAssumption == Type \in [Elements -> {"broadcast", "av", "dash", "none"}]
ASSUME IdAssumption == Id \in [Elements -> {"video", "videocontainer", "playerObject", "other"}]
ASSUME RectsAssumption == Rects \subseteq Nat \X Nat /\ <<1280, 720>> \in Rects
ASSUME PagesAssumption ==
  \A p \in Pages : p.present \subseteq Elements /\ p.data \in {"url", "empty"}
ASSUME OpsAssumption == MaxOps \in Nat

VARIABLES
  site,        \* document.location
  doc,         \* the document and what it has under way, see PageStart
  parsed,      \* DOMContentLoaded has been: the polyfill is initialised
  late,        \* how beforeend.js went: "no", "done", "failed"
  told,        \* the size VDR knows
  ops,         \* what the page's scripts have done
  lost         \* history: an object has lost a player that was not live TV

vars == <<site, doc, parsed, late, told, ops, lost>>

Full == <<1280, 720>>

-----------------------------------------------------------------------------
(***************************************************************************)
(* The quirks, site by site: what is written to the style of which thing.  *)
(***************************************************************************)
Set(thing, value) == [thing |-> thing, value |-> value]

\* What hides the page but for its player, and shows it again.
BodyAnd(thing) == [start |-> <<Set("body", "hidden"), Set(thing, "visible")>>,
                   stop |-> <<Set("body", "visible"), Set(thing, "hidden")>>]
BodyOnly == [start |-> <<Set("body", "hidden")>>, stop |-> <<Set("body", "visible")>>]

Sites ==
  {"hbbtv-tatort.daserste.de", "hbbtv.daserste.de", "tv.ardmediathek.de", "hbbtv.zdf.de",
   "itv.ard.de/replay", "hbbtv-mediathek-ard-alpha.br.de", "www.arte.tv",
   "hbbtv.redbutton.de/extern/redorbit/hbbtv/apps/", "-digitaltext.rtl-hbbtv.de",
   "specials.rtl-hbbtv.de", "cdn.specials.digitaltext.rtl.de", "cdn.digitaltext.rtl.de",
   "bibeltv.c.nmdn.net"}

Quirks ==
  [s \in Sites |->
     CASE s = "hbbtv-tatort.daserste.de" -> BodyAnd("playerbar[0]")
       [] s = "hbbtv.daserste.de" ->
            [start |-> <<Set("body", "hidden"), Set("playerbar[0].parent", "visible"),
                         Set("playerbar[0]", "visible")>>,
             stop |-> <<Set("body", "visible"), Set("playerbar[0]", "hidden")>>]
       [] s \in {"tv.ardmediathek.de", "hbbtv.zdf.de"} -> BodyAnd("player")
       [] s = "itv.ard.de/replay" ->
            [start |-> <<Set("background", "transparent")>>, stop |-> <<Set("background", "black")>>]
       [] s = "hbbtv-mediathek-ard-alpha.br.de" -> BodyAnd("playerwin[0]")
       [] s = "www.arte.tv" -> BodyAnd("videoOverlay")
       [] s = "hbbtv.redbutton.de/extern/redorbit/hbbtv/apps/" ->
            [start |-> <<Set("background", "transparent"), Set("screen", "hidden"),
                         Set("slider[0]", "none"), Set("slider[1]", "none")>>,
             stop |-> <<Set("background", "#2c2c2c"), Set("screen", "visible"),
                        Set("slider[0]", "block"), Set("slider[1]", "block")>>]
       [] s = "bibeltv.c.nmdn.net" ->
            [start |-> <<Set("application", "hidden")>>, stop |-> <<Set("application", "visible")>>]
       [] OTHER -> BodyOnly]

Steps(way) == IF site \in Sites THEN Quirks[site][way] ELSE <<>>

-----------------------------------------------------------------------------
(***************************************************************************)
(* A document: present, rect and player say what is in it; data, what is   *)
(* in the data attribute; mapped, which objects have got their methods;    *)
(* sent, the cefQuery requests that are on their way; timers, the quirks   *)
(* that are due; scripts, the calls of cefVideoSize the browser has sent   *)
(* here; overlay, the coloured rectangle VDR's video shows through; style, *)
(* what the quirks write.  seen, app and list are history: nothing has     *)
(* moved since VDR was sent a size; the page itself wrote to its body since*)
(* the last quirk; the list that was written last.                         *)
(***************************************************************************)
\* Where the elements of S stand in document order, and which stands first.
Places(S) == {i \in DOMAIN Order : Order[i] \in S}
First(S) == IF S = {} THEN None ELSE Order[Min(Places(S))]

\* document.getElementById(id), None when there is none.
Named(d, id) == First({e \in d.present : Id[e] = id})

\* The elements with a player in them.
Players(d) == {e \in d.present : d.player[e] # "none"}

\* Mutant of FirstPlayer: the player that stands last is found.
LastPlayer(d) == IF Players(d) = {} THEN None ELSE Order[Max(Places(Players(d)))]

\* document.getElementById('hbbtv-polyfill-video-player'), as the element it is in.
FirstPlayer(d) == First(Players(d))

Shown(r) == r[1] > 0 /\ r[2] > 0
Covers(r, s) == r[1] >= s[1] /\ r[2] >= s[2]

\* What cefVideoSize looks at, in its order.
Candidates(d) ==
  <<Named(d, "video"),
    IF site = "hbbtv.daserste.de" THEN None ELSE Named(d, "videocontainer"),
    FirstPlayer(d),
    Named(d, "playerObject")>>

\* Mutant of Better: the size to beat stays 0.
AnyShown(d, t, c) == IF c # None /\ Shown(d.rect[c]) THEN c ELSE t

\* The target when the candidate c has been looked at.
Better(d, t, c) ==
  IF c # None /\ Shown(d.rect[c]) /\ (t = None \/ Covers(d.rect[c], d.rect[t])) THEN c ELSE t

\* The last that is at least as wide and as high as the target before it.
Target(d) ==
  LET c == Candidates(d)
  IN Better(d, Better(d, Better(d, Better(d, None, c[1]), c[2]), c[3]), c[4])

\* Mutant of process_video_quirk: live TV is treated as a film is.
LiveQuirk(d, r) == IF r = Full THEN "start" ELSE "stop"

\* process_video_quirk: what is due in 10 ms.
process_video_quirk(d, r) ==
  IF r = Full /\ d.player[FirstPlayer(d)] # "live" THEN "start" ELSE "stop"

SizeSent(d, r) == [d EXCEPT !.sent = Append(@, [kind |-> "SIZE", rect |-> r]),
                            !.overlay = IF r = Full THEN None ELSE r,
                            !.seen = TRUE]

\* cefVideoSize.  With a target but no player process_video_quirk fails, and
\* nothing is sent.
cefVideoSize(d) ==
  LET t == Target(d)
      r == d.rect[t]
  IN CASE t = None -> SizeSent(d, Full)
       [] t # None /\ FirstPlayer(d) = None -> d
       [] OTHER -> SizeSent([d EXCEPT !.timers = Append(@, process_video_quirk(d, r))], r)

\* OipfVideoBroadcastMapper: live TV, unless the object has children.  The movie
\* is requested, which makes the browser call cefVideoSize.
BroadcastMapper(d, e) ==
  LET live == [d EXCEPT !.player[e] = "live", !.scripts = @ + 1]
      map(c) == [c EXCEPT !.mapped = @ \cup {e}]
  IN IF e \in Filled THEN map(d) ELSE map(cefVideoSize(live))

\* OipfAVControlMapper: the film plays unless it has no address, and the data
\* attribute is spoilt.  A DASH player waits for another address.
AVControlMapper(d, e) ==
  LET plays == Type[e] = "av" /\ d.data[e] # "empty"
  IN [d EXCEPT !.player[e] = IF plays THEN "film" ELSE "idle",
               !.data[e] = "fail",
               !.sent = IF plays THEN Append(@, [kind |-> "PLAY", data |-> d.data[e]]) ELSE @,
               !.mapped = @ \cup {e},
               !.seen = FALSE]

\* Mutant of checkNodeTypeAndInjectVideoMethods: whether there is a video is not looked at.
CheckEveryNode(d, e) ==
  CASE Type[e] = "broadcast" -> BroadcastMapper(d, e)
    [] Type[e] \in {"av", "dash"} -> AVControlMapper(d, e)
    [] OTHER -> d

checkNodeTypeAndInjectVideoMethods(d, e) ==
  CASE d.player[e] # "none" -> d
    [] d.player[e] = "none" /\ Type[e] = "broadcast" -> BroadcastMapper(d, e)
    [] d.player[e] = "none" /\ Type[e] \in {"av", "dash"} -> AVControlMapper(d, e)
    [] OTHER -> d

\* VideoHandler.initialize: not when there is a player; else every node there is.
initialize(d) ==
  LET after[n \in 0 .. Len(Order)] ==
        IF n = 0 THEN d
        ELSE IF Order[n] \in d.present THEN checkNodeTypeAndInjectVideoMethods(after[n - 1], Order[n])
        ELSE after[n - 1]
  IN IF FirstPlayer(d) # None THEN d ELSE after[Len(Order)]

-----------------------------------------------------------------------------
(***************************************************************************)
(* What happens to a page from outside its scripts.                        *)
(***************************************************************************)
\* init: at DOMContentLoaded.
DOMContentLoaded ==
  /\ ~parsed
  /\ parsed' = TRUE
  /\ doc' = initialize(doc)
  /\ UNCHANGED <<site, late, told, ops, lost>>

\* beforeend.js, 1 s after the end of the body was read.  When deferred scripts
\* take longer there is no handler and no cefVideoSize yet.
BeforeEnd ==
  /\ late = "no"
  /\ doc' = IF parsed THEN cefVideoSize(initialize(doc)) ELSE doc
  /\ late' = IF parsed /\ doc'.seen THEN "done" ELSE "failed"
  /\ UNCHANGED <<site, parsed, told, ops, lost>>

\* A call of cefVideoSize by the browser.
RunScript ==
  /\ doc.scripts > 0
  /\ doc' = LET d == [doc EXCEPT !.scripts = @ - 1] IN IF parsed THEN cefVideoSize(d) ELSE d
  /\ UNCHANGED <<site, parsed, late, told, ops, lost>>

\* A style that the steps of a list have been written to, one after the other:
\* what is not in the page is left out.
Written(style, steps) ==
  [t \in DOMAIN style |->
     LET mine == {i \in DOMAIN steps : steps[i].thing = t}
     IN IF mine = {} THEN style[t] ELSE steps[Max(mine)].value]

\* activate_quirks, 10 ms after process_video_quirk.
RunTimer ==
  /\ doc.timers # <<>>
  /\ LET steps == Steps(Head(doc.timers))
     IN doc' = [doc EXCEPT !.timers = Tail(@),
                           !.style = Written(@, steps),
                           !.list = Head(doc.timers),
                           !.app = @ /\ \A s \in Range(steps) : s.thing # "body"]
  /\ UNCHANGED <<site, parsed, late, told, ops, lost>>

\* OnQuery: a size goes to VDR, a film is opened, and measured when that works.
OnQuery ==
  /\ doc.sent # <<>>
  /\ LET q == Head(doc.sent)
         d == [doc EXCEPT !.sent = Tail(@)]
     IN IF q.kind = "SIZE" THEN told' = q.rect /\ doc' = d
        ELSE /\ doc' \in {d, [d EXCEPT !.scripts = @ + 1]}
             /\ UNCHANGED told
  /\ UNCHANGED <<site, parsed, late, ops, lost>>

-----------------------------------------------------------------------------
(***************************************************************************)
(* The page's own scripts.                                                 *)
(***************************************************************************)
PageStep(d) == /\ ops < MaxOps
               /\ ops' = ops + 1
               /\ doc' = d
               /\ UNCHANGED <<site, parsed, late, told>>

\* An element is added.  The MutationObserver sees the nodes that were added,
\* not what is in them.
Insert(e, inside) ==
  /\ e \notin doc.present
  /\ LET d == [doc EXCEPT !.present = @ \cup {e}, !.seen = FALSE]
     IN PageStep(IF parsed /\ ~inside THEN checkNodeTypeAndInjectVideoMethods(d, e) ELSE d)
  /\ UNCHANGED lost

\* "TODO: handle object removal": nobody does.
TakeOut(e) ==
  /\ e \in doc.present
  /\ PageStep([doc EXCEPT !.present = @ \ {e}, !.seen = FALSE])
  /\ UNCHANGED lost

\* Only films watch their style.
Resize(e, r) ==
  /\ e \in doc.present /\ r # doc.rect[e]
  /\ LET d == [doc EXCEPT !.rect[e] = r, !.seen = FALSE]
     IN PageStep(IF e \in doc.mapped /\ Type[e] # "broadcast" THEN cefVideoSize(d) ELSE d)
  /\ UNCHANGED lost

\* The observer of src: CHANGE_VIDEO_URL, and a transparent movie.  It has the
\* element, which it keeps without a place in the page as well.
NewAddress(d, e) ==
  [d EXCEPT !.player[e] = IF @ = "none" THEN @ ELSE "film",
            !.sent = Append(@, [kind |-> "PLAY", data |-> "url"])]

\* The observer of data: src gets what the page wrote, data is spoilt again.
SetData(e) ==
  /\ e \in doc.mapped /\ Type[e] # "broadcast"
  /\ PageStep(NewAddress([doc EXCEPT !.seen = FALSE], e))
  /\ UNCHANGED lost

\* bindToCurrentChannel of any live TV object: the first player is played.
Bind(e) ==
  /\ e \in doc.mapped /\ Type[e] = "broadcast"
  /\ FirstPlayer(doc) # None
  /\ PageStep(cefVideoSize(doc))
  /\ UNCHANGED lost

\* release of any live TV object: the first player is removed.
Release(e) ==
  /\ e \in doc.mapped /\ Type[e] = "broadcast"
  /\ LET f == FirstPlayer(doc)
     IN /\ f # None
        /\ PageStep([doc EXCEPT !.player[f] = "none", !.seen = FALSE])
        /\ lost' = (lost \/ doc.player[f] # "live")

\* show and hide of the Application object.
Show(value) ==
  /\ PageStep([doc EXCEPT !.style["body"] = value, !.app = TRUE])
  /\ UNCHANGED lost

-----------------------------------------------------------------------------
Things(s) == {"body"} \cup
  IF s \in Sites
  THEN {st.thing : st \in Range(Quirks[s].start) \cup Range(Quirks[s].stop)} ELSE {}

\* The page as it is read.  things are those of the quirks that it has.
PageStart(p) ==
  LET things == Things(p.site) \ p.missing
  IN [present |-> p.present, rect |-> [e \in Elements |-> Full],
      player |-> [e \in Elements |-> "none"], data |-> [e \in Elements |-> p.data],
      mapped |-> {}, sent |-> <<>>, timers |-> <<>>, scripts |-> 0, overlay |-> None,
      things |-> things, style |-> [t \in things |-> "page"], seen |-> FALSE, app |-> FALSE,
      list |-> "none"]

Init ==
  /\ \E p \in Pages : site = p.site /\ doc = PageStart(p)
  /\ parsed = FALSE /\ late = "no"
  /\ told = None /\ ops = 0 /\ lost = FALSE

Scripts ==
  \/ \E e \in Elements : \/ TakeOut(e) \/ SetData(e) \/ Bind(e) \/ Release(e)
                         \/ \E r \in Rects : Resize(e, r)
                         \/ \E inside \in BOOLEAN : Insert(e, inside)
  \/ \E value \in {"visible", "hidden"} : Show(value)

System == DOMContentLoaded \/ BeforeEnd \/ RunScript \/ RunTimer \/ OnQuery
Next == System \/ Scripts

Spec == Init /\ [][Next]_vars

-----------------------------------------------------------------------------
Visible == {c \in Range(Candidates(doc)) \ {None} : Shown(doc.rect[c])}

\* VDR's video is as large as the video on the page: when nothing moved behind
\* the polyfill's back and no message is on its way, VDR knows the size of an
\* element that may be the video and that none other of them exceeds.
ToldLargest ==
  (doc.seen /\ doc.scripts = 0 /\ \A i \in DOMAIN doc.sent : doc.sent[i].kind # "SIZE") =>
    IF Visible = {} THEN told = Full
    ELSE \E c \in Visible : /\ told = doc.rect[c]
                            /\ \A b \in Visible : Covers(doc.rect[b], doc.rect[c]) => doc.rect[b] = doc.rect[c]

\* What the page shows fits its video, once the page was measured and all that is
\* due is done: with a film that fills the screen what the site's start list says;
\* with other video what its stop list says; and without such a film nothing that the
\* start list wrote is left, but the parent hbbtv.daserste.de never hides again.
\* The page's own show and hide may have written its body since.
\* The exception: a film that filled the screen is gone, or hidden, and no other
\* video is there.  cefVideoSize then sends the full size and asks for no list, so
\* that what the start list has hidden stays so (Deserted).  And a page is measured
\* when a size was sent: with an element that may be the video but no player
\* cefVideoSize fails, and leaves what was written for the film before as well.
QuirkFollowsVideo ==
  (doc.seen /\ doc.scripts = 0 /\ doc.timers = <<>> /\ doc.sent = <<>>) =>
    LET film == Visible # {} /\ told = Full /\ doc.player[FirstPlayer(doc)] # "live"
        Deserted == Visible = {} /\ doc.list = "start"
        Mine(s) == s.thing \in doc.things /\ ~(s.thing = "body" /\ doc.app)
        InForce(way) == \A s \in Range(Steps(way)) : Mine(s) => doc.style[s.thing] = s.value
    IN /\ film => InForce("start")
       /\ (~film /\ (Visible # {} \/ doc.list = "stop")) => InForce("stop")
       /\ (~film /\ ~Deserted) => \A s \in Range(Steps("start")) :
            (Mine(s) /\ s.thing # "playerbar[0].parent") => doc.style[s.thing] # s.value

\* The browser is asked to play the address that was spoilt only after a film
\* has lost its player to the release of a live TV object: then beforeend.js,
\* or adding it again, takes it for a new film.
SpoiltNotPlayed ==
  \A i \in DOMAIN doc.sent : (doc.sent[i].kind = "PLAY" /\ doc.sent[i].data = "fail") => lost

\* A film loses its player only to the release of a live TV object that stands
\* behind it, or whose own player is gone (a second release, an object with
\* children).
FilmKeepsPlayer ==
  [][\A e \in Elements :
       (doc.player[e] \in {"film", "idle"} /\ doc'.player[e] = "none") =>
         \A b \in doc.present : doc.player[b] = "live" =>
           \E i, j \in DOMAIN Order : i < j /\ Order[i] = e /\ Order[j] = b]_vars
=============================================================================
