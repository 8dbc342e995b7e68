------------------------------ MODULE PageApps ------------------------------
(***************************************************************************)
(* VDR's commands that reach a page: the applications of a channel         *)
(* (CHANNEL, APPURL), the keys of the remote control (KEY) and the next    *)
(* page (URL).  The control thread (browsercontrol.cpp) keeps a registry   *)
(* of applications and sends scripts to the page that is there; the UI     *)
(* thread tells every new page what the registry holds when it has loaded  *)
(* (OnLoadEnd, browserclient.cpp); the page keeps its own map, from which  *)
(* createApplication (hbbtv.js) takes the URL of a dvb: address.           *)
(*                                                                         *)
(* An id is a sequence of hexadecimal digits.  A dvb: address is a record: *)
(* its id, and whether parameters, or parameters with a full stop and a    *)
(* fragment, follow.                                                       *)
(***************************************************************************)
EXTENDS Keys

CONSTANTS
  Apps,        \* the applications VDR may name: an id of two digits and a URL
  Urls,        \* the pages there are
  Uris,        \* the dvb: addresses pages use
  KeyNames,    \* the keys VDR sends
  PcCodes,     \* the key codes of a keyboard (remote debugging)
  Own,         \* page -> the key codes it defines itself
  Links,       \* page -> the elements that findNextFocusableElement looks at
  Tagesschau,  \* the pages that have their focus moved for them
  MaxCommands, \* bound: commands of VDR
  MaxOps       \* bound: what pages do, and extra ends of loading

\* The digits, and how toLocaleUpperCase writes the ones that are letters.
Digits == <<"0", "1", "2", "3", "4", "5", "6", "7", "8", "9", "A", "B", "C", "D", "E", "F">>
Letters == <<"a", "b", "c", "d", "e", "f">>
Upper(digit) == IF digit \in Range(Letters) THEN Digits[10 + CHOOSE i \in 1 .. 6 : Letters[i] = digit]
                ELSE digit

Ids == {app.id : app \in Apps}

ASSUME AppsAssumption == \A app \in Apps : app.id \in Range(Digits) \X Range(Digits) /\ app.url \in Urls
ASSUME UrisAssumption ==
  \A uri \in Uris : uri.id \in Seq(Range(Digits) \cup Range(Letters)) /\ uri.id # <<>>
ASSUME PagesAssumption ==
  /\ DOMAIN Own = Urls /\ DOMAIN Links = Urls /\ Tagesschau \subseteq Urls
  /\ \A url \in Urls : Links[url] \in Seq([tabIndex : Int, shown : BOOLEAN, takes : BOOLEAN])
ASSUME UndefinedAssumption ==
  /\ Undefined \notin Int /\ Undefined \notin Apps
  /\ \A ids \in SUBSET Ids : Undefined # ids /\ Undefined \notin [ids -> Urls]
  /\ Undefined \notin [url : Urls \cup {Undefined}, asked : BOOLEAN, read : BOOLEAN, channel : Nat]
ASSUME KeysAssumption == Undefined \notin KeyNames /\ PcCodes \subseteq Int
ASSUME BoundAssumption == MaxCommands \in Nat /\ MaxOps \in Nat

VARIABLES
  adding,      \* the APPURL the control thread has told the page of, not yet the registry
  channel,     \* BrowserClient::currentChannel, a count
  appUrls,     \* BrowserClient::appUrls
  scripts,     \* the scripts on their way to the main frame
  queries,     \* the requests on their way from the page
  nav,         \* the navigation under way, Undefined when there is none
  page,        \* the document in the main frame
  inject,      \* BrowserClient::injectJavascript: the next page that has loaded gets the font
  iter,        \* OnLoadEnd's loop: the ids it has done, Undefined outside
  crashed,     \* the loop ran over a map that was cleared under it
  held,        \* the key of a keyboard that is down, Undefined when there is none
  sent, ops,   \* commands and operations so far
  key,         \* history: the key that has just ended, and what the page saw of it
  twice,       \* history: VDR named another URL for an id it had registered
  missed,      \* history: a page got less than the registry held when it had loaded
  stolen       \* history: the font of the last page asked for went to the one before

vars == <<adding, channel, appUrls, scripts, queries, nav, page, inject, iter, crashed,
          held, sent, ops, key, twice, missed, stolen>>

ui == <<nav, page, inject, iter, crashed>>
history == <<twice, missed, stolen>>

NoUrls == [id \in {} |-> Undefined]
With(map, id, url) == [i \in DOMAIN map \cup {id} |-> IF i = id THEN url ELSE map[i]]

-----------------------------------------------------------------------------
(***************************************************************************)
(* The control thread, which takes one command of VDR after the other.     *)
(***************************************************************************)
Command == /\ sent < MaxCommands /\ sent' = sent + 1
           /\ adding = Undefined /\ ~crashed
           /\ key' = Undefined
           /\ UNCHANGED <<queries, inject, held, ops, missed, stolen>>

\* A clear or an insertion by this thread leaves OnLoadEnd's loop without a
\* place in the map: the build may go on, or crash.
Disturbs(map) == IF iter = Undefined \/ map = appUrls THEN UNCHANGED crashed
                 ELSE crashed' \in BOOLEAN

\* CHANNEL
HandleChannel ==
  /\ Command
  /\ channel' = channel + 1
  /\ appUrls' = NoUrls
  /\ Disturbs(NoUrls)
  /\ UNCHANGED <<adding, scripts, nav, page, iter, twice>>

\* APPURL: the page is told first ...
HandleAppUrl(app) ==
  /\ Command
  /\ adding' = app
  /\ scripts' = Append(scripts, [kind |-> "APPURL", id |-> app.id, url |-> app.url])
  /\ UNCHANGED <<channel, appUrls, twice>> /\ UNCHANGED ui

\* Mutant of AddAppUrl: the registry is not told.
AddNoAppUrl ==
  /\ adding # Undefined /\ ~crashed
  /\ adding' = Undefined
  /\ key' = Undefined
  /\ UNCHANGED <<channel, appUrls, scripts, queries, held, sent, ops>> /\ UNCHANGED ui
  /\ UNCHANGED history

\* ... then the registry, where emplace keeps a URL that is there.
AddAppUrl ==
  /\ adding # Undefined /\ ~crashed
  /\ LET id == adding.id
         map == IF id \in DOMAIN appUrls THEN appUrls ELSE With(appUrls, id, adding.url)
     IN /\ appUrls' = map
        /\ Disturbs(map)
        /\ twice' = (twice \/ map[id] # adding.url)
  /\ adding' = Undefined
  /\ key' = Undefined
  /\ UNCHANGED <<channel, scripts, queries, nav, page, inject, iter, held, sent, ops,
                 missed, stolen>>

\* KEY: cefKeyPress is called in the page.
sendKeyEvent(name) ==
  /\ Command
  /\ scripts' = Append(scripts, [kind |-> "KEY", name |-> name])
  /\ UNCHANGED <<adding, channel, appUrls, twice>> /\ UNCHANGED ui

\* LoadURL stops what is being loaded.
Navigate(url) == nav' = [url |-> url, asked |-> FALSE, read |-> FALSE, channel |-> channel]

\* URL
HandleUrl(url) ==
  /\ Command
  /\ Navigate(url)
  /\ UNCHANGED <<adding, channel, appUrls, scripts, page, iter, crashed, twice>>

-----------------------------------------------------------------------------
(***************************************************************************)
(* Loading a page.                                                         *)
(***************************************************************************)
Loading == /\ ~crashed
           /\ key' = Undefined
           /\ UNCHANGED <<adding, channel, appUrls, queries, held, sent, twice>>

\* Mutant of GetResourceRequestHandler: the font is for the first page.
RequestOnce ==
  /\ nav # Undefined /\ ~nav.asked
  /\ nav' = [nav EXCEPT !.asked = TRUE]
  /\ stolen' = FALSE
  /\ Loading
  /\ UNCHANGED <<scripts, page, inject, iter, crashed, ops, missed>>

\* The IO thread is asked for the page, and asks for the font.  OnLoadEnd reads the
\* flag and clears it later: this step in between is as good as before it.
GetResourceRequestHandler ==
  /\ nav # Undefined /\ ~nav.asked
  /\ nav' = [nav EXCEPT !.asked = TRUE]
  /\ inject' = TRUE
  /\ stolen' = FALSE
  /\ Loading
  /\ UNCHANGED <<scripts, page, iter, crashed, ops, missed>>

\* When GetResourceHandler's transfer is over, ProcessRequest makes another, and
\* writes the channel, and an empty map, into the page.
ProcessRequest ==
  /\ nav # Undefined /\ nav.asked /\ nav.url \in Urls /\ ~nav.read
  /\ nav' = [nav EXCEPT !.read = TRUE, !.channel = channel]
  /\ Loading
  /\ UNCHANGED <<scripts, page, inject, iter, crashed, ops, missed, stolen>>

\* What was sent to the page before the next one reaches it before.
Commit ==
  /\ nav # Undefined /\ nav.asked /\ (nav.read \/ nav.url \notin Urls)
  /\ iter = Undefined
  /\ nav' = Undefined
  /\ scripts' = Append(scripts, [kind |-> "PAGE", url |-> nav.url, channel |-> nav.channel])
  /\ Loading
  /\ UNCHANGED <<page, inject, iter, crashed, ops, missed, stolen>>

\* The inline script that makes the map.
HeadParsed ==
  /\ page.url \in Urls /\ page.map = Undefined
  /\ page' = [page EXCEPT !.map = NoUrls]
  /\ Loading
  /\ UNCHANGED <<scripts, nav, inject, iter, crashed, ops, missed, stolen>>

\* The polyfill's init at DOMContentLoaded: keyEventInit and hbbtvFn.
DOMContentLoaded ==
  /\ page.map # Undefined /\ ~page.ready
  /\ page' = [page EXCEPT !.ready = TRUE]
  /\ Loading
  /\ UNCHANGED <<scripts, nav, inject, iter, crashed, ops, missed, stolen>>

\* Another page has been asked for than the one that is there.
Coming == \/ nav # Undefined /\ nav.asked
          \/ \E i \in DOMAIN scripts : scripts[i].kind = "PAGE"

\* OnLoadEnd, of the page and then of any frame in it.  It does nothing when the
\* last response to any request was a redirect.  The mode is HbbTV's.
OnLoadEnd ==
  /\ page.ready /\ iter = Undefined
  /\ IF page.loaded THEN ops < MaxOps /\ ops' = ops + 1 ELSE UNCHANGED ops
  /\ page' = [page EXCEPT !.loaded = TRUE]
  /\ \/ /\ iter' = {}
        /\ inject' = FALSE
        /\ scripts' = IF inject THEN Append(scripts, [kind |-> "FONT"]) ELSE scripts
        /\ missed' = (missed \/ adding # Undefined)
        /\ stolen' = (stolen \/ (inject /\ Coming))
     \/ /\ ~page.loaded
        /\ iter' = Undefined /\ missed' = TRUE
        /\ UNCHANGED <<inject, scripts, stolen>>
  /\ Loading
  /\ UNCHANGED <<nav, crashed>>

\* Its loop over the registry, in which an id that is added meanwhile may be met.
InjectAppUrl ==
  /\ iter # Undefined
  /\ \E id \in DOMAIN appUrls \ iter :
       /\ iter' = iter \cup {id}
       /\ scripts' = Append(scripts, [kind |-> "APPURL", id |-> id, url |-> appUrls[id]])
  /\ Loading
  /\ UNCHANGED <<nav, page, inject, crashed, ops, missed, stolen>>

LoadEndDone ==
  /\ iter # Undefined /\ DOMAIN appUrls \subseteq iter
  /\ iter' = Undefined
  /\ Loading
  /\ UNCHANGED <<scripts, nav, page, inject, crashed, ops, missed, stolen>>

-----------------------------------------------------------------------------
(***************************************************************************)
(* In the page.                                                            *)
(***************************************************************************)
Script(kind) == /\ ~crashed
                /\ scripts # <<>> /\ Head(scripts).kind = kind
                /\ scripts' = Tail(scripts)
                /\ UNCHANGED <<adding, channel, appUrls, queries, inject, iter, crashed,
                               sent, twice, missed, stolen>>

\* The key codes of a page that is ready.
Table(url) == keyEventInit(Own[url])

\* The new document takes the old one's place; an address that cannot be loaded
\* gives an error page.  map is Undefined until the page's head has been parsed.
Blank(url, c) == [url |-> url, channel |-> c, map |-> Undefined, ready |-> FALSE,
                  loaded |-> FALSE, font |-> FALSE, alive |-> TRUE, active |-> 0]

NewDocument ==
  /\ Script("PAGE")
  /\ page' = Blank(Head(scripts).url, Head(scripts).channel)
  /\ held' = IF held = Undefined THEN held ELSE [held EXCEPT !.seen = <<>>, !.left = TRUE]
  /\ key' = Undefined
  /\ UNCHANGED <<nav, ops>>

\* "if (window._HBBTV_APPURL_) window._HBBTV_APPURL_.set(id, url)"
SetAppUrl ==
  /\ Script("APPURL")
  /\ LET s == Head(scripts)
     IN page' = IF page.map = Undefined THEN page
                ELSE [page EXCEPT !.map = With(@, s.id, s.url)]
  /\ key' = Undefined
  /\ UNCHANGED <<nav, held, ops>>

\* font.js: a style sheet in the head there is by then.
SetFont ==
  /\ Script("FONT")
  /\ page' = IF page.map = Undefined THEN page ELSE [page EXCEPT !.font = TRUE]
  /\ key' = Undefined
  /\ UNCHANGED <<nav, held, ops>>

\* cefKeyPress, which is not there before init.  A click does what the page has
\* for it: it may lead to another page.
cefKeyPress ==
  /\ Script("KEY")
  /\ LET name == Head(scripts).name
         moves == page.url \in Tagesschau /\ name \in DOMAIN Arrows
         next == findNextFocusableElement(Links[page.url], Arrows[name], page.active)
     IN CASE ~page.ready -> key' = Undefined /\ UNCHANGED <<nav, page, ops>>
          [] page.ready /\ moves /\ next # Undefined ->
               /\ page' = IF Links[page.url][next].takes THEN [page EXCEPT !.active = next] ELSE page
               /\ \/ UNCHANGED <<nav, ops>>
                  \/ ops < MaxOps /\ ops' = ops + 1 /\ \E url \in Urls : Navigate(url)
               /\ key' = [name |-> name, code |-> Undefined, events |-> <<>>, clicked |-> next,
                          on |-> page.url, left |-> FALSE]
          [] OTHER ->
               /\ key' = [name |-> name, code |-> Undefined, clicked |-> Undefined,
                          events |-> doKeyPress(Table(page.url), name),
                          on |-> page.url, left |-> FALSE]
               /\ UNCHANGED <<nav, page, ops>>
  /\ UNCHANGED held

InPage == /\ ~crashed /\ page.ready
          /\ ops < MaxOps /\ ops' = ops + 1
          /\ UNCHANGED <<adding, channel, appUrls, scripts, inject, iter, crashed, sent,
                         twice, missed, stolen>>

\* A keyboard's key goes down: the listener, F5 loads the page again.  One key at a
\* time; one that is held down and repeats is as good as pressed again.
PcKey(code) ==
  /\ InPage
  /\ held = Undefined
  /\ held' = [code |-> code, seen |-> Listener(Table(page.url), code, FALSE), left |-> FALSE]
  /\ IF code = F5 THEN Navigate(page.url) ELSE UNCHANGED nav
  /\ key' = Undefined
  /\ UNCHANGED <<page, queries>>

\* The key goes up, on the page that is there by now.
PcKeyUp ==
  /\ ~crashed
  /\ held # Undefined
  /\ held' = Undefined
  /\ key' = [name |-> NameOf(held.code), code |-> held.code, clicked |-> Undefined,
             events |-> held.seen \o Released(held.code), on |-> page.url, left |-> held.left]
  /\ UNCHANGED <<adding, channel, appUrls, scripts, queries, sent, ops, twice, missed, stolen>>
  /\ UNCHANGED ui

\* ('0' + id).slice(-2) of the id that the patterns find.  A full stop behind the
\* id, with a ? or # after it, ends the address for them.
AppId(uri) ==
  LET digits == <<"0">> \o [i \in DOMAIN uri.id |-> Upper(uri.id[i])]
  IN IF uri.rest = "dottedFragment" THEN Undefined
     ELSE SubSeq(digits, Len(digits) - 1, Len(digits))

\* What createApplication goes to: for an id nobody registered the dvb: address
\* itself, Undefined here, which cannot be loaded.
newLocation(uri, map) ==
  IF AppId(uri) \in DOMAIN map THEN [url |-> map[AppId(uri)], rest |-> uri.rest]
  ELSE [url |-> Undefined, rest |-> "none"]

\* createApplication: CREATE_APP and CHANGE_URL.
createApplication(uri) ==
  /\ InPage
  /\ queries' = queries \o <<[kind |-> "CREATE_APP"],
                             [kind |-> "CHANGE_URL", url |-> newLocation(uri, page.map).url]>>
  /\ key' = Undefined
  /\ UNCHANGED <<nav, page, held>>

\* destroyApplication: the page is emptied, the video stopped.
destroyApplication ==
  /\ InPage
  /\ page' = [page EXCEPT !.alive = FALSE]
  /\ queries' = Append(queries, [kind |-> "DESTROY_APP"])
  /\ key' = Undefined
  /\ UNCHANGED <<nav, held>>

\* OnQuery: CHANGE_URL loads; CREATE_APP is noted, DESTROY_APP stops the video
\* (VideoControl).
OnQuery ==
  /\ ~crashed /\ queries # <<>> /\ iter = Undefined
  /\ queries' = Tail(queries)
  /\ IF Head(queries).kind = "CHANGE_URL" THEN Navigate(Head(queries).url) ELSE UNCHANGED nav
  /\ key' = Undefined
  /\ UNCHANGED <<adding, channel, appUrls, scripts, page, inject, iter, crashed, held, sent, ops>>
  /\ UNCHANGED history

-----------------------------------------------------------------------------
\* The browser starts without a page, or with the one the command line names.
Init ==
  /\ adding = Undefined /\ channel = 0 /\ appUrls = NoUrls
  /\ scripts = <<>> /\ queries = <<>>
  /\ nav = Undefined \/ \E url \in Urls : nav = [url |-> url, asked |-> FALSE, read |-> FALSE, channel |-> 0]
  /\ page = Blank(Undefined, 0) /\ inject = TRUE /\ iter = Undefined /\ crashed = FALSE
  /\ held = Undefined /\ sent = 0 /\ ops = 0
  /\ key = Undefined /\ twice = FALSE /\ missed = FALSE /\ stolen = FALSE

Control == \/ HandleChannel \/ AddAppUrl
           \/ \E app \in Apps : HandleAppUrl(app)
           \/ \E name \in KeyNames : sendKeyEvent(name)
           \/ \E url \in Urls : HandleUrl(url)
Io == GetResourceRequestHandler \/ ProcessRequest
Ui == Commit \/ OnLoadEnd \/ InjectAppUrl \/ LoadEndDone \/ OnQuery
Renderer == NewDocument \/ HeadParsed \/ DOMContentLoaded \/ SetAppUrl \/ SetFont \/ cefKeyPress
Person == \/ \E code \in PcCodes : PcKey(code)
          \/ PcKeyUp
          \/ \E uri \in Uris : createApplication(uri)
          \/ destroyApplication
Next == Control \/ Io \/ Ui \/ Renderer \/ Person

Spec == Init /\ [][Next]_vars

-----------------------------------------------------------------------------
\* All VDR has said has arrived, and the page has loaded.
AtRest == /\ ~crashed /\ adding = Undefined
          /\ scripts = <<>> /\ nav = Undefined /\ iter = Undefined
          /\ page.url \in Urls /\ page.loaded

\* The number that digits write.
Value(digit) == CHOOSE n \in 0 .. 15 : Digits[n + 1] = Upper(digit)
Number(digits) ==
  LET upTo[n \in 0 .. Len(digits)] ==
        IF n = 0 THEN 0 ELSE 16 * upTo[n - 1] + Value(digits[n])
  IN upTo[Len(digits)]

\* Every application VDR registered for the channel can be started from the page
\* by its number, however the address writes it, and from a page of this channel
\* no other can: unless VDR gave one id two URLs (the registry keeps the first,
\* the page that is there takes the last), a redirect anywhere kept OnLoadEnd
\* from telling the page, a page ended loading between the two steps of APPURL,
\* the id has more than two digits or full stops and a fragment follow it.
AppsStart ==
  (AtRest /\ ~twice /\ ~missed) =>
    \A uri \in Uris : uri.rest # "dottedFragment" =>
      LET to == newLocation(uri, page.map)
          ids == {id \in DOMAIN appUrls : Number(id) = Number(uri.id)}
      IN /\ \A id \in ids : to = [url |-> appUrls[id], rest |-> uri.rest]
         /\ (page.channel = channel /\ ids = {} /\ Number(uri.id) < 256) => to.url = Undefined

\* Every page that has loaded has the font, although one flag asks for it, which
\* the end of any frame's loading takes back: unless a frame of the page before
\* ends when this one has been asked for, be it that its transfers are still under
\* way, or a redirect anywhere keeps OnLoadEnd from it.
FontSet == (AtRest /\ ~missed /\ ~stolen) => page.font

\* A key of VDR is seen by the page once, as down, press and up of one code, the
\* page's own if it defines one, or else it has moved the focus.  A keyboard's key
\* is seen as the same three events, or as nothing when it stands for none of
\* VDR's, and then its own keyup, which the polyfill lets through; if the page has
\* changed since it went down the new one sees this keyup alone.
KeySeenOnce ==
  key # Undefined =>
    LET pressed == IF key.name = Undefined \/ key.left THEN <<>>
                   ELSE Pressed(Code(Table(key.on), key.name))
    IN IF key.clicked # Undefined THEN key.name \in DOMAIN Arrows /\ key.events = <<>>
       ELSE key.events = IF key.code = Undefined THEN pressed
                         ELSE pressed \o <<Event("keyup", key.code)>>

\* On a page whose focus is moved for it every link that is shown is reached by
\* as many presses of DOWN as there are links, and UP takes each step back,
\* from wherever the keys so far have moved it: when all of them take the focus.
FocusReaches ==
  (AtRest /\ page.url \in Tagesschau /\ \A i \in DOMAIN Links[page.url] : Links[page.url][i].takes) =>
    LET links == Links[page.url]
        Next1(i) == findNextFocusableElement(links, FALSE, i)
        after[n \in 0 .. Len(links)] == IF n = 0 THEN page.active ELSE Next1(after[n - 1])
        shown == {i \in DOMAIN links : links[i].shown}
    IN /\ shown \subseteq {after[n] : n \in DOMAIN after}
       /\ \A i \in shown : findNextFocusableElement(links, TRUE, Next1(i)) = i
=============================================================================
