--------------------------- MODULE PageAppsProofs ---------------------------
(***************************************************************************)
(* Proofs about PageApps for every set of applications, pages, addresses,  *)
(* keys and links, and any number of commands: a key is seen once, every   *)
(* page has its font, the applications VDR registered are the ones the     *)
(* page can start, and the focus reaches every link.                       *)
(***************************************************************************)
EXTENDS PageApps, FiniteSetTheorems, WellFoundedInduction, TLAPS

-----------------------------------------------------------------------------
(***************************************************************************)
(* Sequences.                                                              *)
(***************************************************************************)
\* What Append does to a sequence.
LEMMA AppendSeq ==
  ASSUME NEW S, NEW s \in Seq(S), NEW x \in S
  PROVE  /\ Append(s, x) \in Seq(S) /\ Len(Append(s, x)) = Len(s) + 1
         /\ \A i \in DOMAIN s : Append(s, x)[i] = s[i]
         /\ Append(s, x)[Len(s) + 1] = x
         /\ DOMAIN Append(s, x) = DOMAIN s \cup {Len(s) + 1} /\ DOMAIN s = 1 .. Len(s)
         /\ Len(s) \in Nat
OBVIOUS

\* What Tail does to a sequence.
LEMMA TailSeq ==
  ASSUME NEW S, NEW s \in Seq(S), s # <<>>
  PROVE  /\ Tail(s) \in Seq(S) /\ Len(Tail(s)) = Len(s) - 1 /\ Head(s) = s[1] /\ s[1] \in S
         /\ \A i \in DOMAIN Tail(s) : Tail(s)[i] = s[i + 1]
         /\ DOMAIN s = 1 .. Len(s) /\ DOMAIN Tail(s) = 1 .. Len(s) - 1
         /\ Len(s) \in Nat \ {0}
OBVIOUS

\* One and two make three.
LEMMA OneAndTwo == \A a, b, c : <<a>> \o <<b, c>> = <<a, b, c>>
<1> SUFFICES ASSUME NEW a, NEW b, NEW c PROVE <<a>> \o <<b, c>> = <<a, b, c>>
  OBVIOUS
<1> DEFINE S == {a, b, c}
<1>1. <<a>> \in Seq(S) /\ <<b, c>> \in Seq(S) /\ Len(<<a>>) = 1 /\ Len(<<b, c>>) = 2
  OBVIOUS
<1> DEFINE t == <<a>> \o <<b, c>>
<1>2. t \in Seq(S) /\ Len(t) = 3
  BY <1>1
<1>3. t[1] = a /\ t[2] = b /\ t[3] = c
  OBVIOUS
<1> DEFINE u == <<a, b, c>>
<1>4. u \in Seq(S) /\ Len(u) = 3 /\ u[1] = a /\ u[2] = b /\ u[3] = c
  OBVIOUS
<1> HIDE DEF t, u, S
<1>5. \A i \in 1 .. 3 : t[i] = u[i]
  BY <1>3, <1>4
<1>6. t = u
  BY <1>2, <1>4, <1>5
<1> QED
  BY <1>6 DEF t, u

-----------------------------------------------------------------------------
(***************************************************************************)
(* Keys.                                                                   *)
(***************************************************************************)
\* doKeyPress makes the three events of one press.
LEMMA PressedOnce ==
  ASSUME NEW table, NEW name
  PROVE  doKeyPress(table, name) = Pressed(Code(table, name))
<1> DEFINE c == Code(table, name)
<1>1. Listener(table, c, TRUE) = <<Event("keydown", c)>>
  BY DEF Listener
<1>2. Tail(Pressed(c)) = <<Event("keypress", c), Event("keyup", c)>>
  BY DEF Pressed
<1> HIDE DEF c
<1>3. <<Event("keydown", c)>> \o <<Event("keypress", c), Event("keyup", c)>> = Pressed(c)
  BY OneAndTwo, Zenon DEF Pressed
<1> QED
  BY <1>1, <1>2, <1>3 DEF doKeyPress, c

\* Of a key the listener does not know the page sees nothing.
LEMMA ListenerEvents ==
  ASSUME NEW table, NEW code
  PROVE  Listener(table, code, FALSE) = IF NameOf(code) = Undefined THEN <<>>
                                        ELSE Pressed(Code(table, NameOf(code)))
BY DEF Listener

-----------------------------------------------------------------------------
(***************************************************************************)
(* Types.                                                                  *)
(***************************************************************************)
\* A page's address, an address that cannot be loaded among them.
Places == Urls \cup {Undefined}

\* A registry, of the browser or of a page.
IsMap(map) == \E ids \in SUBSET Ids : map \in [ids -> Urls]

Messages == [kind : {"APPURL"}, id : Ids, url : Urls] \cup [kind : {"KEY"}, name : KeyNames]
            \cup [kind : {"FONT"}] \cup [kind : {"PAGE"}, url : Places, channel : Nat]

Requests == [kind : {"CREATE_APP", "DESTROY_APP"}] \cup [kind : {"CHANGE_URL"}, url : Places]

Fields == DOMAIN Blank(Undefined, 0)

\* What a document holds: it is ready when its head is there, loaded when it is ready.
IsPage(p) ==
  /\ DOMAIN p = Fields
  /\ p.url \in Places /\ p.channel \in Nat
  /\ p.map = Undefined \/ IsMap(p.map)
  /\ p.ready \in BOOLEAN /\ p.loaded \in BOOLEAN /\ p.font \in BOOLEAN
  /\ p.ready => p.map # Undefined
  /\ p.loaded => p.ready

Navigations == [url : Places, asked : BOOLEAN, read : BOOLEAN, channel : Nat]

TypeOK ==
  /\ adding = Undefined \/ adding \in Apps
  /\ channel \in Nat
  /\ IsMap(appUrls)
  /\ scripts \in Seq(Messages)
  /\ queries \in Seq(Requests)
  /\ nav = Undefined \/ nav \in Navigations
  /\ IsPage(page)
  /\ inject \in BOOLEAN
  /\ iter = Undefined \/ iter \in SUBSET Ids
  /\ crashed \in BOOLEAN
  /\ twice \in BOOLEAN /\ missed \in BOOLEAN /\ stolen \in BOOLEAN

\* The empty registry is one.
LEMMA NoUrlsMap == IsMap(NoUrls)
BY DEF IsMap, NoUrls

\* A registry with one more application is one.
LEMMA WithMap ==
  ASSUME NEW map, IsMap(map), NEW id \in Ids, NEW url \in Urls
  PROVE  /\ IsMap(With(map, id, url))
         /\ DOMAIN With(map, id, url) = DOMAIN map \cup {id}
         /\ With(map, id, url)[id] = url
         /\ \A i \in DOMAIN map \ {id} : With(map, id, url)[i] = map[i]
<1>1. PICK ids \in SUBSET Ids : map \in [ids -> Urls]
  BY DEF IsMap
<1>2. ids \cup {id} \in SUBSET Ids /\ With(map, id, url) \in [ids \cup {id} -> Urls]
  BY <1>1 DEF With
<1>3. IsMap(With(map, id, url))
  BY <1>2 DEF IsMap
<1> QED
  BY <1>1, <1>3 DEF With

\* A registry is a function to addresses, and not undefined.
LEMMA MapFacts ==
  ASSUME NEW map, IsMap(map)
  PROVE  map # Undefined /\ DOMAIN map \subseteq Ids /\ \A id \in DOMAIN map : map[id] \in Urls
<1>1. PICK ids \in SUBSET Ids : map \in [ids -> Urls]
  BY DEF IsMap
<1> QED
  BY <1>1, UndefinedAssumption

\* An application has an id and an address.
LEMMA AppFacts == \A app \in Apps : app.id \in Ids /\ app.url \in Urls
BY AppsAssumption DEF Ids

\* What LoadURL starts is a navigation.
LEMMA NavigateType ==
  ASSUME NEW url \in Places, channel \in Nat, Navigate(url)
  PROVE  nav' \in Navigations
BY DEF Navigate, Navigations

\* A key of VDR leads to another page, or leaves the navigation alone.
LEMMA KeyNavigates == cefKeyPress => nav' = nav \/ \E url \in Urls : Navigate(url)
BY DEF cefKeyPress

\* The initial states satisfy the types.
LEMMA InitType == Init => TypeOK
<1> SUFFICES ASSUME Init PROVE TypeOK
  OBVIOUS
<1>1. nav = Undefined \/ nav \in Navigations
  <2>1. \A url \in Urls : [url |-> url, asked |-> FALSE, read |-> FALSE, channel |-> 0] \in Navigations
    BY DEF Navigations, Places
  <2> QED
    BY <2>1 DEF Init
<1>2. IsPage(page)
  BY DEF Init, IsPage, Blank, Fields, Places
<1>3. scripts \in Seq(Messages) /\ queries \in Seq(Requests)
  BY DEF Init
<1>4. IsMap(appUrls) /\ channel \in Nat
  BY NoUrlsMap DEF Init
<1>5. /\ inject \in BOOLEAN /\ crashed \in BOOLEAN
      /\ twice \in BOOLEAN /\ missed \in BOOLEAN /\ stolen \in BOOLEAN
  BY DEF Init
<1>6. adding = Undefined /\ iter = Undefined
  BY DEF Init
<1> QED
  BY <1>1, <1>2, <1>3, <1>4, <1>5, <1>6 DEF TypeOK

\* Each action keeps the types.
LEMMA TypeStep == TypeOK /\ [Next]_vars => TypeOK'
<1> SUFFICES ASSUME TypeOK, [Next]_vars PROVE TypeOK'
  OBVIOUS
<1> USE DEF TypeOK
<1>u. CASE UNCHANGED vars
  BY <1>u DEF vars
<1>1. CASE HandleChannel
  BY <1>1, NoUrlsMap DEF HandleChannel, Command, Disturbs
<1>2. CASE AddAppUrl
  <2> DEFINE map == IF adding.id \in DOMAIN appUrls THEN appUrls
                    ELSE With(appUrls, adding.id, adding.url)
  <2>1. adding.id \in Ids /\ adding.url \in Urls
    BY <1>2, AppFacts DEF AddAppUrl
  <2>2. IsMap(map)
    BY <2>1, WithMap
  <2>3. /\ appUrls' = map /\ Disturbs(map) /\ twice' = (twice \/ map[adding.id] # adding.url)
        /\ adding' = Undefined
        /\ UNCHANGED <<channel, scripts, queries, nav, page, inject, iter, missed, stolen>>
    BY <1>2 DEF AddAppUrl
  <2> HIDE DEF map
  <2>4. crashed' \in BOOLEAN
    BY <2>3 DEF Disturbs
  <2> QED
    BY <2>2, <2>3, <2>4
<1>3. CASE \E app \in Apps : HandleAppUrl(app)
  <2>1. PICK app \in Apps : HandleAppUrl(app)
    BY <1>3
  <2>2. [kind |-> "APPURL", id |-> app.id, url |-> app.url] \in Messages
    BY AppFacts DEF Messages
  <2>3. scripts' \in Seq(Messages)
    BY <2>1, <2>2, AppendSeq DEF HandleAppUrl
  <2> QED
    BY <2>1, <2>3 DEF HandleAppUrl, Command, ui
<1>4. CASE \E name \in KeyNames : sendKeyEvent(name)
  <2>1. PICK name \in KeyNames : sendKeyEvent(name)
    BY <1>4
  <2>2. [kind |-> "KEY", name |-> name] \in Messages
    BY DEF Messages
  <2>3. scripts' \in Seq(Messages)
    BY <2>1, <2>2, AppendSeq DEF sendKeyEvent
  <2> QED
    BY <2>1, <2>3 DEF sendKeyEvent, Command, ui
<1>5. CASE \E url \in Urls : HandleUrl(url)
  <2>1. PICK url \in Urls : HandleUrl(url)
    BY <1>5
  <2>2. nav' \in Navigations
    BY <2>1, NavigateType DEF HandleUrl, Places
  <2> QED
    BY <2>1, <2>2 DEF HandleUrl, Command
<1>21. CASE GetResourceRequestHandler
  BY <1>21 DEF GetResourceRequestHandler, Loading, Navigations
<1>6. CASE ProcessRequest
  BY <1>6 DEF ProcessRequest, Loading, Navigations
<1>7. CASE Commit
  <2>1. [kind |-> "PAGE", url |-> nav.url, channel |-> nav.channel] \in Messages
    BY <1>7 DEF Commit, Messages, Navigations
  <2>2. scripts' \in Seq(Messages)
    BY <1>7, <2>1, AppendSeq DEF Commit
  <2> QED
    BY <1>7, <2>2 DEF Commit, Loading
<1>8. CASE OnLoadEnd
  <2>1. [kind |-> "FONT"] \in Messages
    BY DEF Messages
  <2>2. scripts' \in Seq(Messages)
    BY <1>8, <2>1, AppendSeq DEF OnLoadEnd
  <2>3. page.ready /\ page' = [page EXCEPT !.loaded = TRUE]
    BY <1>8 DEF OnLoadEnd
  <2>4. IsPage(page')
    BY <2>3 DEF IsPage, Fields, Blank
  <2>5. /\ inject' \in BOOLEAN /\ missed' \in BOOLEAN /\ stolen' \in BOOLEAN
        /\ iter' = Undefined \/ iter' \in SUBSET Ids
    BY <1>8 DEF OnLoadEnd
  <2> QED
    BY <1>8, <2>2, <2>4, <2>5 DEF OnLoadEnd, Loading
<1>9. CASE InjectAppUrl
  <2>1. PICK id \in DOMAIN appUrls \ iter :
          /\ iter' = iter \cup {id}
          /\ scripts' = Append(scripts, [kind |-> "APPURL", id |-> id, url |-> appUrls[id]])
    BY <1>9 DEF InjectAppUrl
  <2>2. id \in Ids /\ [kind |-> "APPURL", id |-> id, url |-> appUrls[id]] \in Messages
    BY <2>1, MapFacts DEF Messages
  <2>3. scripts' \in Seq(Messages) /\ iter' \in SUBSET Ids
    BY <1>9, <2>1, <2>2, AppendSeq DEF InjectAppUrl
  <2> QED
    BY <1>9, <2>3 DEF InjectAppUrl, Loading
<1>10. CASE LoadEndDone
  BY <1>10 DEF LoadEndDone, Loading
<1>11. CASE OnQuery
  <2>1. queries' \in Seq(Requests) /\ Head(queries) \in Requests
    BY <1>11, TailSeq DEF OnQuery
  <2>2. nav' = nav \/ nav' \in Navigations
    <3>1. Head(queries).kind = "CHANGE_URL" => Head(queries).url \in Places
      BY <2>1 DEF Requests
    <3>2. nav' = nav \/ (Head(queries).kind = "CHANGE_URL" /\ Navigate(Head(queries).url))
      BY <1>11 DEF OnQuery
    <3> QED
      BY <3>1, <3>2, NavigateType
  <2> QED
    BY <1>11, <2>1, <2>2 DEF OnQuery, history
<1>12. CASE NewDocument
  <2>1. scripts' \in Seq(Messages) /\ Head(scripts) \in Messages /\ Head(scripts).kind = "PAGE"
    BY <1>12, TailSeq DEF NewDocument, Script
  <2>2. Head(scripts).url \in Places /\ Head(scripts).channel \in Nat
    BY <2>1 DEF Messages
  <2>3. IsPage(page')
    BY <1>12, <2>2 DEF NewDocument, IsPage, Blank, Fields
  <2> QED
    BY <1>12, <2>1, <2>3 DEF NewDocument, Script
<1>13. CASE HeadParsed
  <2>1. IsPage(page')
    BY <1>13, NoUrlsMap, MapFacts DEF HeadParsed, IsPage, Fields, Blank
  <2> QED
    BY <1>13, <2>1 DEF HeadParsed, Loading
<1>14. CASE DOMContentLoaded
  <2>1. IsPage(page')
    BY <1>14 DEF DOMContentLoaded, IsPage, Fields, Blank
  <2> QED
    BY <1>14, <2>1 DEF DOMContentLoaded, Loading
<1>15. CASE SetAppUrl
  <2> DEFINE s == Head(scripts)
  <2>1. scripts' \in Seq(Messages) /\ s \in Messages /\ s.kind = "APPURL"
    BY <1>15, TailSeq DEF SetAppUrl, Script
  <2>2. s.id \in Ids /\ s.url \in Urls
    BY <2>1 DEF Messages
  <2>3. page.map # Undefined => IsMap(With(page.map, s.id, s.url))
    BY <2>2, WithMap DEF IsPage
  <2>4. page' = IF page.map = Undefined THEN page
                ELSE [page EXCEPT !.map = With(page.map, s.id, s.url)]
    BY <1>15 DEF SetAppUrl
  <2> HIDE DEF s
  <2>5. IsPage(page')
    BY <2>3, <2>4, MapFacts DEF IsPage, Fields, Blank
  <2> QED
    BY <1>15, <2>1, <2>5 DEF SetAppUrl, Script
<1>16. CASE SetFont
  <2>1. scripts' \in Seq(Messages)
    BY <1>16, TailSeq DEF SetFont, Script
  <2>2. IsPage(page')
    BY <1>16 DEF SetFont, IsPage, Fields, Blank
  <2> QED
    BY <1>16, <2>1, <2>2 DEF SetFont, Script
<1>17. CASE cefKeyPress
  <2>1. scripts' \in Seq(Messages)
    BY <1>17, TailSeq DEF cefKeyPress, Script
  <2>2. page' = page \/ \E n : page' = [page EXCEPT !.active = n]
    BY <1>17 DEF cefKeyPress
  <2>3. IsPage(page')
    BY <2>2 DEF IsPage, Fields, Blank
  <2>4. nav' = nav \/ nav' \in Navigations
    BY <1>17, KeyNavigates, NavigateType DEF Places
  <2> QED
    BY <1>17, <2>1, <2>3, <2>4 DEF cefKeyPress, Script
<1>18. CASE \E code \in PcCodes : PcKey(code)
  <2>1. page.url \in Places
    BY DEF IsPage
  <2>2. nav' = nav \/ nav' \in Navigations
    BY <1>18, <2>1, NavigateType DEF PcKey
  <2> QED
    BY <1>18, <2>2 DEF PcKey, InPage
<1>22. CASE PcKeyUp
  BY <1>22 DEF PcKeyUp, ui
<1>19. CASE \E uri \in Uris : createApplication(uri)
  <2>1. PICK uri \in Uris : createApplication(uri)
    BY <1>19
  <2> DEFINE to == newLocation(uri, page.map).url
  <2>2. IsMap(page.map)
    BY <2>1 DEF createApplication, InPage, IsPage
  <2>3. to \in Places
    BY <2>2, MapFacts DEF newLocation, Places
  <2>4. queries' = queries \o <<[kind |-> "CREATE_APP"], [kind |-> "CHANGE_URL", url |-> to]>>
    BY <2>1 DEF createApplication
  <2> HIDE DEF to
  <2>5. [kind |-> "CREATE_APP"] \in Requests /\ [kind |-> "CHANGE_URL", url |-> to] \in Requests
    BY <2>3 DEF Requests
  <2>6. queries' \in Seq(Requests)
    BY <2>4, <2>5
  <2> QED
    BY <2>1, <2>6 DEF createApplication, InPage
<1>20. CASE destroyApplication
  <2>1. [kind |-> "DESTROY_APP"] \in Requests
    BY DEF Requests
  <2>2. queries' \in Seq(Requests)
    BY <1>20, <2>1, AppendSeq DEF destroyApplication
  <2>3. IsPage(page')
    BY <1>20 DEF destroyApplication, IsPage, Fields, Blank
  <2> QED
    BY <1>20, <2>2, <2>3 DEF destroyApplication, InPage
<1> QED
  BY <1>u, <1>1, <1>2, <1>3, <1>4, <1>5, <1>6, <1>7, <1>8, <1>9, <1>10, <1>11, <1>12, <1>13,
    <1>14, <1>15, <1>16, <1>17, <1>18, <1>19, <1>20, <1>21, <1>22 DEF Next, Control, Io, Ui, Renderer, Person

\* Every variable of the registry, the page and what is on its way keeps its
\* type; a page that has loaded has a map.
THEOREM TypeCorrect == Spec => []TypeOK
BY InitType, TypeStep, PTL DEF Spec

-----------------------------------------------------------------------------
(***************************************************************************)
(* What the page sees of keys.                                             *)
(***************************************************************************)
\* The page has seen what the listener made of the key that is down, unless it
\* has come since.
HeldInv ==
  held # Undefined =>
    \E code \in PcCodes :
      \/ held = [code |-> code, seen |-> Listener(Table(page.url), code, FALSE), left |-> FALSE]
      \/ held = [code |-> code, seen |-> <<>>, left |-> TRUE]

\* Each action keeps it.
LEMMA HeldStep == TypeOK /\ HeldInv /\ [Next]_vars => HeldInv'
<1> SUFFICES ASSUME TypeOK, HeldInv, [Next]_vars PROVE HeldInv'
  OBVIOUS
<1>t. DOMAIN page = Fields
  BY DEF TypeOK, IsPage
<1>1. CASE held' = held /\ page'.url = page.url
  BY <1>1, Zenon DEF HeldInv, Table
<1>2. CASE held' = Undefined
  BY <1>2 DEF HeldInv
<1>3. CASE \E code \in PcCodes : PcKey(code)
  <2>1. PICK code \in PcCodes : PcKey(code)
    BY <1>3
  <2>2. /\ held' = [code |-> code, seen |-> Listener(Table(page.url), code, FALSE), left |-> FALSE]
        /\ page' = page
    BY <2>1 DEF PcKey
  <2>3. held' = [code |-> code, seen |-> Listener(Table(page'.url), code, FALSE), left |-> FALSE]
    BY <2>2
  <2> QED
    BY <2>3, Zenon DEF HeldInv, Table
<1>4. CASE NewDocument /\ held # Undefined
  <2>1. held' = [held EXCEPT !.seen = <<>>, !.left = TRUE]
    BY <1>4 DEF NewDocument
  <2>2. PICK code \in PcCodes : DOMAIN held = {"code", "seen", "left"} /\ held.code = code
    <3>1. PICK code \in PcCodes :
            \/ held = [code |-> code, seen |-> Listener(Table(page.url), code, FALSE), left |-> FALSE]
            \/ held = [code |-> code, seen |-> <<>>, left |-> TRUE]
      BY <1>4 DEF HeldInv
    <3>2. CASE held = [code |-> code, seen |-> <<>>, left |-> TRUE]
      BY <3>2
    <3>3. CASE held = [code |-> code, seen |-> Listener(Table(page.url), code, FALSE), left |-> FALSE]
      BY <3>3
    <3> QED
      BY <3>1, <3>2, <3>3
  <2>3. DOMAIN held' = {"code", "seen", "left"} /\ held' = [k \in DOMAIN held' |-> held'[k]]
    BY <2>1, <2>2
  <2>4. held'.code = code /\ held'.seen = <<>> /\ held'.left = TRUE
    BY <2>1, <2>2
  <2>5. held' = [code |-> code, seen |-> <<>>, left |-> TRUE]
    BY <2>3, <2>4
  <2> QED
    BY <2>5, Zenon DEF HeldInv
<1>5. CASE NewDocument /\ held = Undefined
  BY <1>2, <1>5 DEF NewDocument
<1>6. CASE UNCHANGED vars
  BY <1>1, <1>6 DEF vars
<1>7. CASE \/ Control \/ Io \/ Commit \/ InjectAppUrl \/ LoadEndDone \/ OnQuery
           \/ \E uri \in Uris : createApplication(uri)
  BY <1>1, <1>7 DEF Control, Io, Command, Loading, HandleChannel, AddAppUrl, HandleAppUrl, sendKeyEvent,
    HandleUrl, GetResourceRequestHandler, ProcessRequest, Commit, InjectAppUrl, LoadEndDone, OnQuery,
    createApplication, ui
<1>8. CASE \/ OnLoadEnd \/ HeadParsed \/ DOMContentLoaded \/ SetAppUrl \/ SetFont \/ cefKeyPress
           \/ destroyApplication
  <2>1. held' = held
    BY <1>8 DEF OnLoadEnd, HeadParsed, DOMContentLoaded, SetAppUrl, SetFont, cefKeyPress,
      destroyApplication, Loading
  <2>2. \/ page' = page
        \/ \E x : \/ page' = [page EXCEPT !.loaded = x] \/ page' = [page EXCEPT !.map = x]
                  \/ page' = [page EXCEPT !.ready = x] \/ page' = [page EXCEPT !.font = x]
                  \/ page' = [page EXCEPT !.active = x] \/ page' = [page EXCEPT !.alive = x]
    BY <1>8 DEF OnLoadEnd, HeadParsed, DOMContentLoaded, SetAppUrl, SetFont, cefKeyPress,
      destroyApplication
  <2>3. page'.url = page.url
    BY <1>t, <2>2 DEF Fields, Blank
  <2> QED
    BY <1>1, <2>1, <2>3
<1>9. CASE PcKeyUp
  BY <1>2, <1>9 DEF PcKeyUp
<1> QED
  BY <1>3, <1>4, <1>5, <1>6, <1>7, <1>8, <1>9 DEF Next, Ui, Renderer, Person

\* A key that has ended was one of VDR's or a keyboard's.
LEMMA KeyStep == TypeOK /\ HeldInv /\ KeySeenOnce /\ [Next]_vars => KeySeenOnce'
<1> SUFFICES ASSUME TypeOK, HeldInv, KeySeenOnce, [Next]_vars PROVE KeySeenOnce'
  OBVIOUS
<1>1. CASE UNCHANGED vars
  BY <1>1, Zenon DEF KeySeenOnce, vars, Table
<1>2. CASE key' = Undefined
  BY <1>2, Zenon DEF KeySeenOnce
<1>3. CASE cefKeyPress
  <2> DEFINE name == Head(scripts).name
             next == findNextFocusableElement(Links[page.url], Arrows[name], page.active)
             moves == page.url \in Tagesschau /\ name \in DOMAIN Arrows
  <2>1. CASE ~page.ready
    BY <1>2, <1>3, <2>1 DEF cefKeyPress
  <2>2. CASE page.ready /\ moves /\ next # Undefined
    <3>1. key' = [name |-> name, code |-> Undefined, events |-> <<>>, clicked |-> next,
                  on |-> page.url, left |-> FALSE]
      BY <1>3, <2>2 DEF cefKeyPress
    <3>2. key'.clicked # Undefined /\ key'.name \in DOMAIN Arrows /\ key'.events = <<>>
      BY <2>2, <3>1
    <3> QED
      BY <3>2, Zenon DEF KeySeenOnce
  <2>3. CASE page.ready /\ ~(moves /\ next # Undefined)
    <3>1. key' = [name |-> name, code |-> Undefined, clicked |-> Undefined,
                  events |-> doKeyPress(Table(page.url), name),
                  on |-> page.url, left |-> FALSE]
      BY <1>3, <2>3 DEF cefKeyPress
    <3>2. /\ key'.clicked = Undefined /\ key'.code = Undefined /\ ~key'.left /\ key'.name = name
          /\ key'.events = Pressed(Code(Table(key'.on), key'.name))
      BY <3>1, PressedOnce
    <3>3. key'.name # Undefined
      <4>1. Head(scripts) \in Messages /\ Head(scripts).kind = "KEY"
        BY <1>3, TailSeq DEF cefKeyPress, Script, TypeOK
      <4>2. name \in KeyNames
        BY <4>1 DEF Messages
      <4> QED
        BY <3>2, <4>2, KeysAssumption
    <3> QED
      BY <3>2, <3>3, Zenon DEF KeySeenOnce
  <2> QED
    BY <2>1, <2>2, <2>3
<1>4. CASE PcKeyUp
  <2>1. PICK code \in PcCodes :
          \/ held = [code |-> code, seen |-> Listener(Table(page.url), code, FALSE), left |-> FALSE]
          \/ held = [code |-> code, seen |-> <<>>, left |-> TRUE]
    BY <1>4 DEF PcKeyUp, HeldInv
  <2>2. held.code = code
    <3>1. CASE held = [code |-> code, seen |-> <<>>, left |-> TRUE]
      BY <3>1
    <3>2. CASE held = [code |-> code, seen |-> Listener(Table(page.url), code, FALSE), left |-> FALSE]
      BY <3>2
    <3> QED
      BY <2>1, <3>1, <3>2
  <2>6. key' = [name |-> NameOf(held.code), code |-> held.code, clicked |-> Undefined,
                   events |-> held.seen \o Released(held.code), on |-> page.url, left |-> held.left]
    BY <1>4 DEF PcKeyUp
  <2>3. /\ key'.clicked = Undefined /\ key'.name = NameOf(code) /\ key'.on = page.url
        /\ key'.code = code /\ key'.left = held.left
        /\ key'.events = held.seen \o <<Event("keyup", code)>>
    BY <2>2, <2>6 DEF Released
  <2>4. held.seen = IF key'.name = Undefined \/ key'.left THEN <<>>
                    ELSE Pressed(Code(Table(key'.on), key'.name))
    <3>1. CASE held = [code |-> code, seen |-> <<>>, left |-> TRUE]
      BY <2>3, <3>1
    <3>2. CASE held = [code |-> code, seen |-> Listener(Table(page.url), code, FALSE), left |-> FALSE]
      <4>1. held.seen = Listener(Table(page.url), code, FALSE) /\ ~held.left
        BY <3>2
      <4> QED
        BY <2>3, <4>1, ListenerEvents
    <3> QED
      BY <2>1, <3>1, <3>2
  <2>5. code # Undefined
    BY KeysAssumption, UndefinedAssumption
  <2> QED
    BY <2>3, <2>4, <2>5, Zenon DEF KeySeenOnce
<1>5. UNCHANGED vars \/ key' = Undefined \/ cefKeyPress \/ PcKeyUp
  BY DEF Next, Control, Io, Ui, Renderer, Person, Command, Loading, HandleChannel, AddAppUrl,
    HandleAppUrl, sendKeyEvent, HandleUrl, GetResourceRequestHandler, ProcessRequest, Commit,
    OnLoadEnd, InjectAppUrl, LoadEndDone, OnQuery, NewDocument, HeadParsed, DOMContentLoaded,
    SetAppUrl, SetFont, PcKey, createApplication, destroyApplication
<1> QED
  BY <1>1, <1>2, <1>3, <1>4, <1>5

\* The page sees of each key the three events of one press, or the move of the
\* focus, and of a keyboard's its own keyup in addition, whatever table of keys it
\* has and whatever moves its focus.
THEOREM KeysOnce == Spec => []KeySeenOnce
<1>1. Init => HeldInv /\ KeySeenOnce
  BY DEF Init, HeldInv, KeySeenOnce
<1> QED
  BY <1>1, HeldStep, KeyStep, InitType, TypeStep, PTL DEF Spec

-----------------------------------------------------------------------------
(***************************************************************************)
(* The font.                                                               *)
(***************************************************************************)
\* The font, or the next page, is among the scripts on their way.
FontAhead(s) == \E i \in DOMAIN s : s[i].kind = "FONT" /\ \A j \in 1 .. i - 1 : s[j].kind # "PAGE"
PageAhead(s) == \E i \in DOMAIN s : s[i].kind = "PAGE"

\* Another page will come, even if it has not been asked for.
AnyComing == nav # Undefined \/ PageAhead(scripts)

\* As long as no font was stolen, the flag is up for a page that is coming and
\* for one that has not loaded; the one that has has the font, or it is ahead.
FontInv ==
  /\ (Coming \/ ~page.loaded) => inject \/ stolen
  /\ (page.loaded /\ ~missed /\ ~stolen /\ ~AnyComing) => page.font \/ FontAhead(scripts)

\* A script that is sent comes after the ones on their way.
LEMMA FontAppend ==
  ASSUME NEW s \in Seq(Messages), NEW x \in Messages
  PROVE  /\ FontAhead(s) => FontAhead(Append(s, x))
         /\ x.kind = "FONT" /\ ~PageAhead(s) => FontAhead(Append(s, x))
         /\ PageAhead(Append(s, x)) => PageAhead(s) \/ x.kind = "PAGE"
         /\ PageAhead(s) \/ x.kind = "PAGE" => PageAhead(Append(s, x))
<1> DEFINE t == Append(s, x)
<1>1. /\ \A i \in DOMAIN s : t[i] = s[i]
      /\ t[Len(s) + 1] = x
      /\ DOMAIN t = DOMAIN s \cup {Len(s) + 1} /\ DOMAIN s = 1 .. Len(s)
      /\ Len(s) \in Nat
  BY AppendSeq
<1> HIDE DEF t
<1>2. FontAhead(s) => FontAhead(t)
  <2>1. SUFFICES ASSUME NEW i \in DOMAIN s, s[i].kind = "FONT", \A j \in 1 .. i - 1 : s[j].kind # "PAGE"
                 PROVE  FontAhead(t)
    BY DEF FontAhead
  <2>2. i \in DOMAIN t /\ t[i].kind = "FONT" /\ \A j \in 1 .. i - 1 : t[j].kind # "PAGE"
    BY <1>1, <2>1
  <2> QED
    BY <2>2 DEF FontAhead
<1>3. x.kind = "FONT" /\ ~PageAhead(s) => FontAhead(t)
  <2>1. SUFFICES ASSUME x.kind = "FONT", ~PageAhead(s) PROVE FontAhead(t)
    OBVIOUS
  <2>2. \A j \in 1 .. (Len(s) + 1) - 1 : t[j].kind # "PAGE"
    BY <1>1, <2>1 DEF PageAhead
  <2> QED
    BY <1>1, <2>1, <2>2 DEF FontAhead
<1>4. PageAhead(t) => PageAhead(s) \/ x.kind = "PAGE"
  BY <1>1 DEF PageAhead
<1>5. PageAhead(s) \/ x.kind = "PAGE" => PageAhead(t)
  BY <1>1 DEF PageAhead
<1> QED
  BY <1>2, <1>3, <1>4, <1>5 DEF t

\* The script that is run comes before the others on their way.
LEMMA FontTail ==
  ASSUME NEW s \in Seq(Messages), s # <<>>
  PROVE  /\ Head(s).kind \notin {"FONT", "PAGE"} /\ FontAhead(s) => FontAhead(Tail(s))
         /\ PageAhead(Tail(s)) => PageAhead(s)
         /\ Head(s).kind # "PAGE" /\ PageAhead(s) => PageAhead(Tail(s))
         /\ Head(s).kind = "PAGE" => PageAhead(s)
<1> DEFINE t == Tail(s)
           h == Head(s)
<1>1. /\ h = s[1] /\ \A i \in DOMAIN t : t[i] = s[i + 1]
      /\ DOMAIN s = 1 .. Len(s) /\ DOMAIN t = 1 .. Len(s) - 1
      /\ Len(s) \in Nat \ {0}
  BY TailSeq
<1> HIDE DEF t, h
<1>2. h.kind \notin {"FONT", "PAGE"} /\ FontAhead(s) => FontAhead(t)
  <2>1. SUFFICES ASSUME h.kind \notin {"FONT", "PAGE"}, NEW i \in DOMAIN s, s[i].kind = "FONT",
                        \A j \in 1 .. i - 1 : s[j].kind # "PAGE"
                 PROVE  FontAhead(t)
    BY DEF FontAhead
  <2>2. i # 1 /\ i - 1 \in DOMAIN t /\ t[i - 1] = s[i]
    BY <1>1, <2>1
  <2>3. \A j \in 1 .. (i - 1) - 1 : t[j].kind # "PAGE"
    BY <1>1, <2>1, <2>2
  <2> QED
    BY <2>1, <2>2, <2>3 DEF FontAhead
<1>3. PageAhead(t) => PageAhead(s)
  BY <1>1 DEF PageAhead
<1>4. h.kind = "PAGE" => PageAhead(s)
  BY <1>1 DEF PageAhead
<1>5. h.kind # "PAGE" /\ PageAhead(s) => PageAhead(t)
  <2>1. SUFFICES ASSUME h.kind # "PAGE", NEW i \in DOMAIN s, s[i].kind = "PAGE"
                 PROVE  PageAhead(t)
    BY DEF PageAhead
  <2>2. i # 1 /\ i - 1 \in DOMAIN t /\ t[i - 1] = s[i]
    BY <1>1, <2>1
  <2> QED
    BY <2>1, <2>2 DEF PageAhead
<1> QED
  BY <1>2, <1>3, <1>4, <1>5 DEF t, h

\* The scripts make a page come, or a navigation that has been asked for does.
LEMMA ComingIs == Coming <=> (nav # Undefined /\ nav.asked) \/ PageAhead(scripts)
BY DEF Coming, PageAhead

\* A step that sends no font, ends no loading and does not bring a page nearer
\* changes nothing about it.
LEMMA FontQuiet ==
  ASSUME FontInv, Coming' => Coming, AnyComing => AnyComing', inject' = inject, stolen' = stolen,
         missed' = missed, page'.loaded = page.loaded, page'.font = page.font,
         FontAhead(scripts) => FontAhead(scripts')
  PROVE  FontInv'
BY DEF FontInv

\* What the messages that are sent are.
LEMMA Sendable ==
  /\ \A id \in Ids, url \in Urls : [kind |-> "APPURL", id |-> id, url |-> url] \in Messages
  /\ \A name \in KeyNames : [kind |-> "KEY", name |-> name] \in Messages
  /\ [kind |-> "FONT"] \in Messages
  /\ \A url \in Places, c \in Nat : [kind |-> "PAGE", url |-> url, channel |-> c] \in Messages
BY DEF Messages

\* A navigation that starts brings no page nearer, but there is one.
LEMMA NavigateComing ==
  ASSUME NEW url \in Places, channel \in Nat, Navigate(url)
  PROVE  /\ Coming' => \E i \in DOMAIN scripts' : scripts'[i].kind = "PAGE"
         /\ AnyComing'
<1>1. ~nav'.asked /\ nav' \in Navigations
  BY NavigateType DEF Navigate
<1>2. nav' # Undefined
  BY <1>1, UndefinedAssumption DEF Navigations, Places
<1> QED
  BY <1>1, <1>2 DEF Coming, AnyComing

\* A script that is neither a font nor a page leaves the font ahead.
LEMMA FontScript ==
  ASSUME TypeOK, FontInv, NEW kind \in {"APPURL", "KEY"}, Script(kind),
         nav' = nav \/ \E url \in Urls : Navigate(url),
         page'.loaded = page.loaded, page'.font = page.font
  PROVE  FontInv'
<1>1. /\ scripts \in Seq(Messages) /\ scripts # <<>> /\ Head(scripts).kind = kind
      /\ scripts' = Tail(scripts) /\ inject' = inject /\ stolen' = stolen
      /\ missed' = missed
  BY DEF Script, TypeOK
<1>2. FontAhead(scripts) => FontAhead(scripts')
  BY <1>1, FontTail
<1>3. PageAhead(scripts') <=> PageAhead(scripts)
  BY <1>1, FontTail
<1>4. (Coming' => Coming) /\ (AnyComing => AnyComing')
  <2>1. CASE nav' = nav
    BY <1>3, <2>1 DEF Coming, PageAhead, AnyComing
  <2>2. CASE \E url \in Urls : Navigate(url)
    <3>1. AnyComing' /\ (Coming' => PageAhead(scripts'))
      BY <2>2, NavigateComing DEF Places, TypeOK, PageAhead
    <3> QED
      BY <1>3, <3>1, ComingIs
  <2> QED
    BY <2>1, <2>2
<1> QED
  BY <1>1, <1>2, <1>4, FontQuiet

\* A message to the page leaves the font ahead, and is no page.
LEMMA SendQuiet ==
  ASSUME TypeOK, NEW x \in Messages, x.kind # "PAGE", scripts' = Append(scripts, x), nav' = nav
  PROVE  /\ Coming' => Coming
         /\ AnyComing => AnyComing'
         /\ FontAhead(scripts) => FontAhead(scripts')
<1>1. scripts \in Seq(Messages)
  BY DEF TypeOK
<1>2. PageAhead(scripts') => PageAhead(scripts)
  BY <1>1, FontAppend
<1>3. Coming' => Coming
  BY <1>2 DEF Coming, PageAhead
<1>4. AnyComing => AnyComing'
  BY <1>1, FontAppend DEF AnyComing
<1> QED
  BY <1>1, <1>3, <1>4, FontAppend

\* Each action keeps it.
LEMMA FontStep == TypeOK /\ FontInv /\ [Next]_vars => FontInv'
<1> SUFFICES ASSUME TypeOK, FontInv, [Next]_vars PROVE FontInv'
  OBVIOUS
<1>t. scripts \in Seq(Messages) /\ IsPage(page) /\ DOMAIN page = Fields
  BY DEF TypeOK, IsPage
<1>q. ASSUME inject' = inject, stolen' = stolen, missed' = missed, page' = page,
             scripts' = scripts, nav' = nav
      PROVE  FontInv'
  BY <1>q DEF FontInv, Coming, AnyComing
<1>n. ASSUME inject' = inject, stolen' = stolen, missed' = missed, page' = page,
             scripts' = scripts, NEW url \in Places, Navigate(url)
      PROVE  FontInv'
  <2>1. (Coming' => Coming) /\ AnyComing'
    BY <1>n, NavigateComing DEF TypeOK, Coming
  <2> QED
    BY <1>n, <2>1, FontQuiet
<1>u. CASE UNCHANGED vars
  BY <1>q, <1>u DEF vars
<1>1. CASE HandleChannel
  BY <1>1, <1>q DEF HandleChannel, Command
<1>2. CASE AddAppUrl
  BY <1>2, <1>q DEF AddAppUrl
<1>3. CASE \E app \in Apps : HandleAppUrl(app)
  <2>1. PICK app \in Apps : HandleAppUrl(app)
    BY <1>3
  <2> DEFINE x == [kind |-> "APPURL", id |-> app.id, url |-> app.url]
  <2>2. x \in Messages /\ x.kind # "PAGE"
    BY AppFacts, Sendable
  <2>3. /\ scripts' = Append(scripts, x) /\ nav' = nav /\ inject' = inject /\ page' = page
        /\ stolen' = stolen /\ missed' = missed
    BY <2>1 DEF HandleAppUrl, Command, ui
  <2> HIDE DEF x
  <2> QED
    BY <2>2, <2>3, SendQuiet, FontQuiet
<1>4. CASE \E name \in KeyNames : sendKeyEvent(name)
  <2>1. PICK name \in KeyNames : sendKeyEvent(name)
    BY <1>4
  <2> DEFINE x == [kind |-> "KEY", name |-> name]
  <2>2. x \in Messages /\ x.kind # "PAGE"
    BY Sendable
  <2>3. /\ scripts' = Append(scripts, x) /\ nav' = nav /\ inject' = inject /\ page' = page
        /\ stolen' = stolen /\ missed' = missed
    BY <2>1 DEF sendKeyEvent, Command, ui
  <2> HIDE DEF x
  <2> QED
    BY <2>2, <2>3, SendQuiet, FontQuiet
<1>5. CASE \E url \in Urls : HandleUrl(url)
  BY <1>5, <1>n DEF HandleUrl, Command, Places
<1>21. CASE GetResourceRequestHandler
  <2>1. inject' = TRUE /\ nav' \in Navigations
    BY <1>21 DEF GetResourceRequestHandler, TypeOK, Navigations
  <2>2. AnyComing'
    BY <2>1, UndefinedAssumption DEF AnyComing, Navigations, Places
  <2> QED
    BY <2>1, <2>2 DEF FontInv
<1>6. CASE ProcessRequest
  <2>1. /\ nav # Undefined /\ nav.asked /\ nav' \in Navigations
        /\ UNCHANGED <<scripts, page, inject, missed, stolen>>
    BY <1>6 DEF ProcessRequest, TypeOK, Navigations
  <2>2. nav' # Undefined
    BY <2>1, UndefinedAssumption DEF Navigations, Places
  <2> QED
    BY <2>1, <2>2, FontQuiet DEF Coming, AnyComing
<1>7. CASE Commit
  <2> DEFINE x == [kind |-> "PAGE", url |-> nav.url, channel |-> nav.channel]
  <2>1. x \in Messages
    BY <1>7, Sendable DEF Commit, TypeOK, Navigations
  <2>2. /\ nav # Undefined /\ nav.asked /\ scripts' = Append(scripts, x)
        /\ UNCHANGED <<page, inject, missed, stolen>>
    BY <1>7 DEF Commit
  <2>x. x.kind = "PAGE"
    OBVIOUS
  <2> HIDE DEF x
  <2>3. PageAhead(scripts')
    BY <1>t, <2>1, <2>2, <2>x, FontAppend
  <2>4. inject' \/ stolen'
    BY <2>2 DEF FontInv, Coming
  <2> QED
    BY <2>2, <2>3, <2>4 DEF FontInv, AnyComing
<1>8. CASE OnLoadEnd
  <2>1. /\ page' = [page EXCEPT !.loaded = TRUE] /\ nav' = nav
    BY <1>8 DEF OnLoadEnd
  <2>2. page'.loaded /\ page'.font = page.font
    BY <1>t, <2>1 DEF Fields, Blank
  <2>3. CASE ~page.loaded /\ missed' = TRUE /\ UNCHANGED <<inject, scripts, stolen>>
    BY <2>1, <2>2, <2>3 DEF FontInv, Coming, AnyComing
  <2>4. CASE /\ inject' = FALSE
             /\ scripts' = IF inject THEN Append(scripts, [kind |-> "FONT"]) ELSE scripts
             /\ missed' = (missed \/ adding # Undefined)
             /\ stolen' = (stolen \/ (inject /\ Coming))
    <3>1. CASE inject
      <4> DEFINE x == [kind |-> "FONT"]
      <4>1. x \in Messages /\ x.kind = "FONT" /\ scripts' = Append(scripts, x)
        BY <2>4, <3>1, Sendable
      <4> HIDE DEF x
      <4>2. Coming' => Coming
        BY <2>1, <4>1, SendQuiet
      <4>3. Coming => stolen'
        BY <2>4, <3>1
      <4>4. ~Coming => FontAhead(scripts')
        BY <1>t, <4>1, FontAppend, ComingIs
      <4> QED
        BY <2>2, <4>2, <4>3, <4>4 DEF FontInv
    <3>2. CASE ~inject
      <4>1. scripts' = scripts /\ (stolen => stolen') /\ (~missed' => ~missed)
        BY <2>4, <3>2
      <4>2. (Coming' => Coming) /\ (AnyComing => AnyComing')
        BY <2>1, <4>1 DEF Coming, AnyComing
      <4>3. Coming \/ ~page.loaded => stolen'
        BY <3>2, <4>1 DEF FontInv
      <4> QED
        BY <2>2, <2>4, <4>1, <4>2, <4>3 DEF FontInv, TypeOK
    <3> QED
      BY <3>1, <3>2
  <2> QED
    BY <1>8, <2>3, <2>4 DEF OnLoadEnd
<1>9. CASE InjectAppUrl
  <2>1. PICK id \in DOMAIN appUrls :
          scripts' = Append(scripts, [kind |-> "APPURL", id |-> id, url |-> appUrls[id]])
    BY <1>9 DEF InjectAppUrl
  <2> DEFINE x == [kind |-> "APPURL", id |-> id, url |-> appUrls[id]]
  <2>2. x \in Messages /\ x.kind # "PAGE"
    BY MapFacts, Sendable DEF TypeOK
  <2>3. /\ scripts' = Append(scripts, x) /\ nav' = nav /\ inject' = inject /\ page' = page
        /\ stolen' = stolen /\ missed' = missed
    BY <1>9, <2>1 DEF InjectAppUrl
  <2> HIDE DEF x
  <2> QED
    BY <2>2, <2>3, SendQuiet, FontQuiet
<1>10. CASE LoadEndDone
  BY <1>10, <1>q DEF LoadEndDone
<1>11. CASE OnQuery
  <2>1. /\ nav' = nav \/ (Head(queries).kind = "CHANGE_URL" /\ Navigate(Head(queries).url))
        /\ UNCHANGED <<inject, stolen, missed, page, scripts>>
    BY <1>11 DEF OnQuery, history
  <2>2. Head(queries) \in Requests
    BY <1>11, TailSeq DEF OnQuery, TypeOK
  <2>3. Head(queries).kind = "CHANGE_URL" => Head(queries).url \in Places
    BY <2>2 DEF Requests
  <2> QED
    BY <1>n, <1>q, <2>1, <2>3
<1>12. CASE NewDocument
  <2>1. /\ scripts # <<>> /\ Head(scripts).kind = "PAGE" /\ scripts' = Tail(scripts)
        /\ ~page'.loaded /\ nav' = nav /\ inject' = inject /\ stolen' = stolen
    BY <1>12 DEF NewDocument, Script, Blank
  <2>2. inject \/ stolen
    BY <1>t, <2>1, FontTail, ComingIs DEF FontInv
  <2> QED
    BY <2>1, <2>2 DEF FontInv
<1>13. CASE HeadParsed
  <2>1. page' = [page EXCEPT !.map = NoUrls] /\ UNCHANGED <<scripts, nav, inject, missed, stolen>>
    BY <1>13 DEF HeadParsed
  <2>2. page'.loaded = page.loaded /\ page'.font = page.font
    BY <1>t, <2>1 DEF Fields, Blank
  <2> QED
    BY <2>1, <2>2, FontQuiet DEF Coming, AnyComing
<1>14. CASE DOMContentLoaded
  <2>1. page' = [page EXCEPT !.ready = TRUE] /\ UNCHANGED <<scripts, nav, inject, missed, stolen>>
    BY <1>14 DEF DOMContentLoaded
  <2>2. page'.loaded = page.loaded /\ page'.font = page.font
    BY <1>t, <2>1 DEF Fields, Blank
  <2> QED
    BY <2>1, <2>2, FontQuiet DEF Coming, AnyComing
<1>15. CASE SetAppUrl
  <2>1. page'.loaded = page.loaded /\ page'.font = page.font
    BY <1>15, <1>t DEF SetAppUrl, Fields, Blank
  <2> QED
    BY <1>15, <2>1, FontScript DEF SetAppUrl
<1>16. CASE SetFont
  <2>1. /\ scripts # <<>> /\ Head(scripts).kind = "FONT" /\ scripts' = Tail(scripts)
        /\ UNCHANGED <<nav, inject, missed, stolen>>
        /\ page' = IF page.map = Undefined THEN page ELSE [page EXCEPT !.font = TRUE]
    BY <1>16 DEF SetFont, Script
  <2>2. page'.loaded = page.loaded /\ (page.loaded => page'.font)
    BY <1>t, <2>1 DEF IsPage, Fields, Blank
  <2>3. PageAhead(scripts') => PageAhead(scripts)
    BY <1>t, <2>1, FontTail
  <2>4. Coming' => Coming
    BY <2>1, <2>3 DEF Coming, PageAhead
  <2>5. AnyComing => AnyComing'
    BY <1>t, <2>1, FontTail DEF AnyComing
  <2> QED
    BY <2>1, <2>2, <2>4, <2>5 DEF FontInv
<1>17. CASE cefKeyPress
  <2>1. page' = page \/ \E n : page' = [page EXCEPT !.active = n]
    BY <1>17 DEF cefKeyPress
  <2>2. page'.loaded = page.loaded /\ page'.font = page.font
    BY <1>t, <2>1 DEF Fields, Blank
  <2> QED
    BY <1>17, <2>2, FontScript, KeyNavigates DEF cefKeyPress
<1>18. CASE \E code \in PcCodes : PcKey(code)
  <2>1. /\ nav' = nav \/ Navigate(page.url)
        /\ UNCHANGED <<inject, stolen, missed, page, scripts>>
    BY <1>18 DEF PcKey, InPage
  <2>2. page.url \in Places
    BY <1>t DEF IsPage
  <2> QED
    BY <1>n, <1>q, <2>1, <2>2
<1>22. CASE PcKeyUp
  BY <1>22, <1>q DEF PcKeyUp, ui
<1>19. CASE \E uri \in Uris : createApplication(uri)
  BY <1>19, <1>q DEF createApplication, InPage
<1>20. CASE destroyApplication
  <2>1. page' = [page EXCEPT !.alive = FALSE] /\ UNCHANGED <<scripts, nav, inject, missed, stolen>>
    BY <1>20 DEF destroyApplication, InPage
  <2>2. page'.loaded = page.loaded /\ page'.font = page.font
    BY <1>t, <2>1 DEF Fields, Blank
  <2> QED
    BY <2>1, <2>2, FontQuiet DEF Coming, AnyComing
<1> QED
  BY <1>u, <1>1, <1>2, <1>3, <1>4, <1>5, <1>6, <1>7, <1>8, <1>9, <1>10, <1>11, <1>12, <1>13,
    <1>14, <1>15, <1>16, <1>17, <1>18, <1>19, <1>20, <1>21, <1>22 DEF Next, Control, Io, Ui, Renderer, Person

\* Every page that has loaded has the font, unless it was stolen by a frame of
\* the page before, or a redirect kept OnLoadEnd from it.
THEOREM FontReaches == Spec => []FontSet
<1>1. Init => FontInv
  BY DEF Init, FontInv, Blank
<1>2. FontInv => FontSet
  BY DEF FontInv, FontSet, AtRest, FontAhead, AnyComing, PageAhead
<1> QED
  BY <1>1, <1>2, FontStep, InitType, TypeStep, PTL DEF Spec

-----------------------------------------------------------------------------
(***************************************************************************)
(* The numbers of applications.                                            *)
(***************************************************************************)
\* A set of naturals that is not empty has a least element: the finite sets
\* 1 .. n are well-founded.
LEMMA LeastNatural ==
  ASSUME NEW T, T \subseteq Nat, T # {}
  PROVE  \E n \in T : \A k \in T : n <= k
<1> DEFINE Ps == {1 .. n : n \in T}
           R == StrictSubsetOrdering(Nat)
           F == FiniteSubsetsOf(Nat)
<1>1. IsWellFoundedOn(R, F)
  BY FS_StrictSubsetOrderingWellFounded
<1>2. \A n \in Nat : 1 .. n \in SUBSET Nat /\ IsFiniteSet(1 .. n)
  BY FS_Interval
<1>3. Ps \subseteq F /\ Ps # {}
  BY <1>2 DEF FiniteSubsetsOf
<1>4. ASSUME NEW k \in Nat, NEW n \in Nat, k < n
      PROVE  <<1 .. k, 1 .. n>> \in R
  <2>1. 1 .. k \subseteq 1 .. n /\ n \in 1 .. n /\ n \notin 1 .. k
    BY <1>4
  <2> QED
    BY <1>2, <2>1 DEF StrictSubsetOrdering
<1>5. \E P \in Ps : \A Q \in Ps : ~(<<Q, P>> \in R)
  <2> HIDE DEF Ps, R, F
  <2> QED
    BY <1>1, <1>3, WFMin
<1>6. PICK n \in T : \A Q \in Ps : ~(<<Q, 1 .. n>> \in R)
  BY <1>5
<1>7. \A k \in T : ~(k < n)
  BY <1>4, <1>6
<1> QED
  BY <1>7

Capitals == Range(Digits)
Hex == Capitals \cup Range(Letters)

\* The recursive function that Number is made of, up to n digits.
Counts(f, digits, n) == f = [i \in 0 .. n |-> IF i = 0 THEN 0 ELSE 16 * f[i - 1] + Value(digits[i])]

\* There is such a function, for any number of digits.
LEMMA Counting ==
  ASSUME NEW digits, NEW N \in Nat
  PROVE  \E f : Counts(f, digits, N)
<1> DEFINE T == {n \in Nat : ~ \E f : Counts(f, digits, n)}
<1>1. SUFFICES ASSUME T # {}
               PROVE  FALSE
  OBVIOUS
<1>2. PICK n \in T : \A k \in T : n <= k
  BY <1>1, LeastNatural
<1>3. CASE n = 0
  <2> DEFINE f == [i \in 0 .. 0 |-> 0]
  <2>1. f = [i \in 0 .. 0 |-> IF i = 0 THEN 0 ELSE 16 * f[i - 1] + Value(digits[i])]
    OBVIOUS
  <2> QED
    BY <1>3, <2>1 DEF Counts
<1>4. CASE n # 0
  <2>1. n \in Nat /\ n - 1 \in Nat /\ n - 1 < n
    BY <1>4
  <2>2. n - 1 \notin T
    <3> HIDE DEF T
    <3> QED
      BY <1>2, <2>1
  <2>3. PICK f : Counts(f, digits, n - 1)
    BY <2>1, <2>2
  <2> DEFINE g == [i \in 0 .. n |-> IF i = 0 THEN 0 ELSE 16 * f[i - 1] + Value(digits[i])]
  <2>4. ASSUME NEW i \in 0 .. n - 1
        PROVE  g[i] = f[i]
    <3>1. i \in 0 .. n
      BY <2>1
    <3>2. f[i] = IF i = 0 THEN 0 ELSE 16 * f[i - 1] + Value(digits[i])
      BY <2>3 DEF Counts
    <3> QED
      BY <3>1, <3>2
  <2>5. ASSUME NEW i \in 0 .. n
        PROVE  (IF i = 0 THEN 0 ELSE 16 * f[i - 1] + Value(digits[i]))
               = (IF i = 0 THEN 0 ELSE 16 * g[i - 1] + Value(digits[i]))
    <3>1. CASE i = 0
      BY <3>1
    <3>2. CASE i # 0
      <4>1. i - 1 \in 0 .. n - 1
        BY <3>2
      <4>2. g[i - 1] = f[i - 1]
        BY <2>4, <4>1
      <4> QED
        BY <3>2, <4>2
    <3> QED
      BY <3>1, <3>2
  <2>6. Counts(g, digits, n)
    BY <2>5 DEF Counts
  <2> QED
    BY <2>6
<1> QED
  BY <1>3, <1>4

\* What a digit is worth, however it is written.
LEMMA ValueOf ==
  ASSUME NEW d \in Hex
  PROVE  /\ Upper(d) \in Capitals /\ Value(d) \in 0 .. 15 /\ Digits[Value(d) + 1] = Upper(d)
         /\ Upper(Upper(d)) = Upper(d) /\ (d \in Capitals => Upper(d) = d)
<1>1. DOMAIN Digits = 1 .. 16 /\ DOMAIN Letters = 1 .. 6
  BY DEF Digits, Letters
<1>2. \A e \in Capitals : e \notin Range(Letters)
  BY DEF Capitals, Range, Digits, Letters
<1>3. \A e \in Capitals : Upper(e) = e
  BY <1>2 DEF Upper
<1>4. Upper(d) \in Capitals
  <2>1. CASE d \in Range(Letters)
    <3> DEFINE i == CHOOSE k \in 1 .. 6 : Letters[k] = d
    <3>1. \E k \in 1 .. 6 : Letters[k] = d
      BY <1>1, <2>1 DEF Range
    <3>2. i \in 1 .. 6
      BY <3>1
    <3>3. Upper(d) = Digits[10 + i]
      BY <2>1 DEF Upper
    <3> HIDE DEF i
    <3>4. 10 + i \in DOMAIN Digits
      BY <1>1, <3>2
    <3> QED
      BY <3>3, <3>4 DEF Capitals, Range
  <2>2. CASE d \notin Range(Letters)
    BY <2>2 DEF Upper, Hex
  <2> QED
    BY <2>1, <2>2
<1>5. \E n \in 0 .. 15 : Digits[n + 1] = Upper(d)
  <2>1. PICK k \in 1 .. 16 : Digits[k] = Upper(d)
    BY <1>1, <1>4 DEF Capitals, Range
  <2>2. k - 1 \in 0 .. 15 /\ (k - 1) + 1 = k
    OBVIOUS
  <2> QED
    BY <2>1, <2>2
<1>6. Value(d) \in 0 .. 15 /\ Digits[Value(d) + 1] = Upper(d)
  BY <1>5 DEF Value
<1> QED
  BY <1>3, <1>4, <1>6

\* The number of an address is its last two digits and 256 times what is before
\* them; these are the digits AppId keeps, a 0 before a single one.
LEMMA NumberOf ==
  ASSUME NEW digits \in Seq(Hex), digits # <<>>
  PROVE  \E a, b \in Hex, k \in Nat :
           /\ Number(digits) = 256 * k + 16 * Value(a) + Value(b)
           /\ IF Len(digits) = 1 THEN k = 0 /\ a = "0" /\ b = digits[1]
              ELSE a = digits[Len(digits) - 1] /\ b = digits[Len(digits)]
           /\ Len(digits) = 2 => k = 0
<1> DEFINE L == Len(digits)
           f == CHOOSE g : Counts(g, digits, L)
<1>1. L \in Nat \ {0} /\ DOMAIN digits = 1 .. L /\ \A i \in 1 .. L : digits[i] \in Hex
  OBVIOUS
<1>2. Counts(f, digits, L)
  BY <1>1, Counting
<1>3. Number(digits) = f[L]
  BY DEF Number, Counts
<1> HIDE DEF f, L
<1>4. f[0] = 0 /\ \A i \in 1 .. L : f[i] = 16 * f[i - 1] + Value(digits[i])
  BY <1>1, <1>2 DEF Counts
<1>5. \A i \in 1 .. L : Value(digits[i]) \in Nat
  BY <1>1, ValueOf
<1>6. \A n \in 0 .. L : f[n] \in Nat
  <2> DEFINE T == {n \in 0 .. L : f[n] \notin Nat}
  <2>1. SUFFICES ASSUME T # {} PROVE FALSE
    OBVIOUS
  <2>0. T \subseteq Nat /\ \A n \in T : n \in 0 .. L /\ f[n] \notin Nat
    BY <1>1
  <2>9. \A n \in 0 .. L : n \notin T => f[n] \in Nat
    OBVIOUS
  <2> HIDE DEF T
  <2>2. PICK n \in T : \A k \in T : n <= k
    BY <2>0, <2>1, LeastNatural
  <2>3. n \in 1 .. L /\ n - 1 \in 0 .. L /\ n - 1 < n
    BY <1>1, <1>4, <2>0, <2>2
  <2>4. f[n - 1] \in Nat
    BY <2>0, <2>2, <2>3, <2>9
  <2> QED
    BY <1>4, <1>5, <2>0, <2>2, <2>3, <2>4
<1>7. "0" \in Hex /\ Value("0") = 0
  <2>1. "0" \in Capitals /\ "0" \in Hex
    <3>1. 1 \in DOMAIN Digits /\ Digits[1] = "0"
      BY DEF Digits
    <3> QED
      BY <3>1 DEF Hex, Capitals, Range
  <2>2. Digits[Value("0") + 1] = "0" /\ Value("0") \in 0 .. 15
    BY <2>1, ValueOf
  <2> DEFINE v == Value("0")
  <2>3. v = 0
    <3> HIDE DEF v
    <3>1. v \in 0 .. 15 /\ Digits[v + 1] = "0"
      BY <2>2 DEF v
    <3> QED
      BY <3>1 DEF Digits
  <2> QED
    BY <2>1, <2>3
<1>8. CASE L = 1
  <2>1. f[1] = 16 * f[0] + Value(digits[1])
    BY <1>4, <1>8
  <2>2. Number(digits) = 256 * 0 + 16 * Value("0") + Value(digits[1])
    BY <1>3, <1>4, <1>5, <1>7, <1>8, <2>1
  <2>3. digits[1] \in Hex
    BY <1>1, <1>8
  <2> QED
    BY <1>7, <1>8, <2>2, <2>3 DEF L
<1>9. CASE L # 1
  <2>1. L \in 1 .. L /\ L - 1 \in 1 .. L /\ (L - 1) - 1 \in 0 .. L /\ (L - 1) - 1 = L - 2
    BY <1>1, <1>9
  <2>2. f[L] = 16 * f[L - 1] + Value(digits[L]) /\ f[L - 1] = 16 * f[L - 2] + Value(digits[L - 1])
    BY <1>4, <2>1
  <2>3. f[L - 2] \in Nat /\ Value(digits[L]) \in Nat /\ Value(digits[L - 1]) \in Nat
    BY <1>5, <1>6, <2>1
  <2>4. Number(digits) = 256 * f[L - 2] + 16 * Value(digits[L - 1]) + Value(digits[L])
    BY <1>3, <2>2, <2>3
  <2>5. L = 2 => f[L - 2] = 0
    BY <1>4
  <2>6. digits[L - 1] \in Hex /\ digits[L] \in Hex
    BY <1>1, <2>1
  <2> QED
    BY <1>9, <2>3, <2>4, <2>5, <2>6 DEF L
<1> QED
  BY <1>8, <1>9

\* Two elements of a sequence that follow each other.
LEMMA TwoOf ==
  ASSUME NEW S, NEW s \in Seq(S), NEW n \in Nat \ {0}, n + 1 <= Len(s)
  PROVE  SubSeq(s, n, n + 1) = <<s[n], s[n + 1]>>
<1> DEFINE t == SubSeq(s, n, n + 1)
           u == <<s[n], s[n + 1]>>
<1>0. Len(s) \in Nat /\ DOMAIN s = 1 .. Len(s) /\ n \in 1 .. Len(s) /\ n + 1 \in 1 .. Len(s)
  OBVIOUS
<1>1. t \in Seq(S) /\ Len(t) = 2 /\ t[1] = s[n] /\ t[2] = s[n + 1]
  <2>1. t \in Seq(S)
    BY <1>0
  <2>2. Len(t) = 2
    BY <1>0
  <2>3. \A i \in 1 .. 2 : t[i] = s[n + i - 1]
    BY <1>0
  <2>4. n + 1 - 1 = n /\ n + 2 - 1 = n + 1 /\ 1 \in 1 .. 2 /\ 2 \in 1 .. 2
    OBVIOUS
  <2> HIDE DEF t
  <2> QED
    BY <2>1, <2>2, <2>3, <2>4
<1>2. u \in Seq(S) /\ Len(u) = 2 /\ u[1] = s[n] /\ u[2] = s[n + 1]
  OBVIOUS
<1> HIDE DEF t, u
<1>3. t = u
  BY <1>1, <1>2
<1> QED
  BY <1>3 DEF t, u

\* The digits of a number below 256 are its own.
LEMMA DigitsOf ==
  \A a, b, c, d \in 0 .. 15 : \A k \in Nat :
    /\ 16 * c + d = 256 * k + 16 * a + b => a = c /\ b = d
    /\ 256 * k + 16 * a + b < 256 => k = 0
OBVIOUS

\* What ('0' + id).slice(-2) is of capital digits: the last two, after a 0.
LEMMA LastTwo ==
  ASSUME NEW id \in Seq(Hex), id # <<>>
  PROVE  LET digits == <<"0">> \o [i \in DOMAIN id |-> Upper(id[i])]
         IN  SubSeq(digits, Len(digits) - 1, Len(digits)) =
               IF Len(id) = 1 THEN <<"0", Upper(id[1])>>
               ELSE <<Upper(id[Len(id) - 1]), Upper(id[Len(id)])>>
<1> DEFINE L == Len(id)
           up == [i \in DOMAIN id |-> Upper(id[i])]
           digits == <<"0">> \o up
           S == Capitals
<1>1. L \in Nat \ {0} /\ DOMAIN id = 1 .. L /\ \A i \in 1 .. L : id[i] \in Hex
  OBVIOUS
<1>2. up \in Seq(S) /\ Len(up) = L /\ \A i \in 1 .. L : up[i] = Upper(id[i])
  <2>1. \A i \in 1 .. L : Upper(id[i]) \in S
    BY <1>1, ValueOf
  <2>2. up \in [1 .. L -> S]
    BY <1>1, <2>1
  <2> HIDE DEF S
  <2> QED
    BY <1>1, <2>2
<1>3. "0" \in S
  <2>1. 1 \in DOMAIN Digits /\ Digits[1] = "0"
    BY DEF Digits
  <2> QED
    BY <2>1 DEF Capitals, Range
<1> HIDE DEF up, S, L
<1>5. /\ digits \in Seq(S) /\ Len(digits) = L + 1 /\ digits[1] = "0"
      /\ \A i \in 1 .. L : digits[i + 1] = up[i]
  <2>1. <<"0">> \in Seq(S) /\ Len(<<"0">>) = 1
    BY <1>3
  <2> QED
    BY <1>1, <1>2, <2>1
<1>4. digits = <<"0">> \o [i \in DOMAIN id |-> Upper(id[i])]
  BY DEF up
<1> HIDE DEF digits
<1>6. SubSeq(digits, L, L + 1) = <<digits[L], digits[L + 1]>>
  BY <1>1, <1>5, TwoOf
<1>7. digits[L + 1] = Upper(id[L])
  BY <1>1, <1>2, <1>5
<1>8. CASE L = 1
  BY <1>4, <1>5, <1>6, <1>7, <1>8 DEF L
<1>9. CASE L # 1
  <2>1. L - 1 \in 1 .. L /\ (L - 1) + 1 = L /\ (L + 1) - 1 = L
    BY <1>1, <1>9
  <2>2. digits[L] = Upper(id[L - 1])
    BY <1>2, <1>5, <2>1
  <2> QED
    BY <1>4, <1>5, <1>6, <1>7, <1>9, <2>1, <2>2 DEF L
<1> QED
  BY <1>8, <1>9

\* The id that createApplication looks for.
LEMMA AppIdOf ==
  ASSUME NEW uri, uri.id \in Seq(Hex), uri.id # <<>>, uri.rest # "dottedFragment"
  PROVE  AppId(uri) = IF Len(uri.id) = 1 THEN <<"0", Upper(uri.id[1])>>
                      ELSE <<Upper(uri.id[Len(uri.id) - 1]), Upper(uri.id[Len(uri.id)])>>
BY LastTwo DEF AppId

\* An address finds exactly the id that writes its number, if that has two digits.
LEMMA SameNumber ==
  ASSUME NEW uri, uri.id \in Seq(Hex), uri.id # <<>>, uri.rest # "dottedFragment",
         NEW id \in Capitals \X Capitals
  PROVE  /\ Number(id) = Number(uri.id) => AppId(uri) = id
         /\ Number(uri.id) < 256 /\ AppId(uri) = id => Number(id) = Number(uri.id)
<1>1. PICK a \in Hex, b \in Hex, k \in Nat :
        /\ Number(uri.id) = 256 * k + 16 * Value(a) + Value(b)
        /\ IF Len(uri.id) = 1 THEN k = 0 /\ a = "0" /\ b = uri.id[1]
           ELSE a = uri.id[Len(uri.id) - 1] /\ b = uri.id[Len(uri.id)]
  BY NumberOf
<1> DEFINE c == id[1]
           d == id[2]
<1>2. id = <<c, d>> /\ c \in Capitals /\ d \in Capitals
  OBVIOUS
<1> HIDE DEF c, d
<1>3. c \in Hex /\ d \in Hex
  BY <1>2 DEF Hex
<1>4. id \in Seq(Hex) /\ id # <<>> /\ Len(id) = 2 /\ id[1] = c /\ id[2] = d
  BY <1>2, <1>3
<1>5. Number(id) = 16 * Value(c) + Value(d)
  <2>1. PICK e \in Hex, g \in Hex, j \in Nat :
          /\ Number(id) = 256 * j + 16 * Value(e) + Value(g)
          /\ IF Len(id) = 1 THEN j = 0 /\ e = "0" /\ g = id[1]
             ELSE e = id[Len(id) - 1] /\ g = id[Len(id)]
          /\ Len(id) = 2 => j = 0
    BY <1>4, NumberOf
  <2>2. e = c /\ g = d /\ j = 0
    BY <1>4, <2>1
  <2> QED
    BY <1>3, <2>1, <2>2, ValueOf
<1>6. Upper("0") = "0"
  <2>1. 1 \in DOMAIN Digits /\ Digits[1] = "0"
    BY DEF Digits
  <2>2. "0" \in Capitals
    BY <2>1 DEF Capitals, Range
  <2> QED
    BY <2>2, ValueOf DEF Hex
<1>7. AppId(uri) = <<Upper(a), Upper(b)>>
  <2>1. CASE Len(uri.id) = 1
    BY <1>1, <1>6, <2>1, AppIdOf
  <2>2. CASE Len(uri.id) # 1
    BY <1>1, <2>2, AppIdOf
  <2> QED
    BY <2>1, <2>2
<1>8. /\ Value(a) \in 0 .. 15 /\ Digits[Value(a) + 1] = Upper(a)
      /\ Value(b) \in 0 .. 15 /\ Digits[Value(b) + 1] = Upper(b)
      /\ Value(c) \in 0 .. 15 /\ Digits[Value(c) + 1] = c
      /\ Value(d) \in 0 .. 15 /\ Digits[Value(d) + 1] = d
  BY <1>2, <1>3, ValueOf
<1>9. ASSUME Number(id) = Number(uri.id)
      PROVE  AppId(uri) = id
  <2> DEFINE A == Value(a)
             B == Value(b)
             C == Value(c)
             D == Value(d)
  <2>0. /\ A \in 0 .. 15 /\ B \in 0 .. 15 /\ C \in 0 .. 15 /\ D \in 0 .. 15
        /\ k \in Nat
        /\ 16 * C + D = 256 * k + 16 * A + B
    BY <1>1, <1>5, <1>8, <1>9
  <2> HIDE DEF A, B, C, D
  <2>9. A = C /\ B = D
    BY <2>0
  <2>1. Value(a) = Value(c) /\ Value(b) = Value(d)
    BY <2>9 DEF A, B, C, D
  <2> QED
    BY <1>2, <1>7, <1>8, <2>1
<1>10. ASSUME Number(uri.id) < 256, AppId(uri) = id
       PROVE  Number(id) = Number(uri.id)
  <2>1. Upper(a) = c /\ Upper(b) = d
    BY <1>2, <1>7, <1>10
  <2>2. Value(a) = Value(c) /\ Value(b) = Value(d)
    BY <2>1, ValueOf DEF Value
  <2>3. k = 0
    <3> DEFINE A == Value(a)
               B == Value(b)
    <3>1. k \in Nat /\ A \in 0 .. 15 /\ B \in 0 .. 15 /\ 256 * k + 16 * A + B < 256
      BY <1>1, <1>8, <1>10
    <3> HIDE DEF A, B
    <3> QED
      BY <3>1, DigitsOf
  <2> QED
    BY <1>1, <1>5, <1>8, <2>2, <2>3
<1> QED
  BY <1>9, <1>10

-----------------------------------------------------------------------------
(***************************************************************************)
(* What the page is told of the registry.                                  *)
(***************************************************************************)
\* The script x names the application id.
Names(x, id) == x.kind = "APPURL" /\ x.id = id

\* When the scripts s have been run, a page that had the map has url for id: the
\* last script that names it says so, or none does and it is there.
ToldIn(map, s, id, url) ==
  \/ \E i \in DOMAIN s : /\ Names(s[i], id) /\ s[i].url = url
                         /\ \A j \in i + 1 .. Len(s) : ~Names(s[j], id)
  \/ (\A i \in DOMAIN s : ~Names(s[i], id)) /\ id \in DOMAIN map /\ map[id] = url

\* A page that has loaded, and is not about to be replaced, will have what is in
\* the registry, but for what OnLoadEnd has still to tell it; and what is about to
\* be registered, which else would be there with another address.
Promised ==
  (page.loaded /\ ~PageAhead(scripts) /\ ~missed /\ ~twice) =>
    /\ \A id \in DOMAIN appUrls :
         \/ iter # Undefined /\ id \notin iter
         \/ ToldIn(page.map, scripts, id, appUrls[id])
         \/ adding # Undefined /\ adding.id = id /\ adding.url # appUrls[id]
    /\ (adding # Undefined /\ adding.id \notin DOMAIN appUrls) =>
         ToldIn(page.map, scripts, adding.id, adding.url)

\* A script that is sent overrides the ones before that name the same.
LEMMA ToldAppend ==
  ASSUME NEW map, NEW s \in Seq(Messages), NEW x \in Messages, NEW id, NEW url
  PROVE  /\ ToldIn(map, s, id, url) /\ ~Names(x, id) => ToldIn(map, Append(s, x), id, url)
         /\ Names(x, id) /\ x.url = url => ToldIn(map, Append(s, x), id, url)
         /\ PageAhead(s) => PageAhead(Append(s, x))
<1> DEFINE t == Append(s, x)
<1>1. /\ \A i \in DOMAIN s : t[i] = s[i]
      /\ t[Len(s) + 1] = x /\ Len(t) = Len(s) + 1
      /\ DOMAIN t = DOMAIN s \cup {Len(s) + 1} /\ DOMAIN s = 1 .. Len(s)
      /\ Len(s) \in Nat
  BY AppendSeq
<1> HIDE DEF t
<1>2. ASSUME ToldIn(map, s, id, url), ~Names(x, id)
      PROVE  ToldIn(map, t, id, url)
  <2>1. CASE \E i \in DOMAIN s : /\ Names(s[i], id) /\ s[i].url = url
                                 /\ \A j \in i + 1 .. Len(s) : ~Names(s[j], id)
    <3>1. PICK i \in DOMAIN s : /\ Names(s[i], id) /\ s[i].url = url
                                /\ \A j \in i + 1 .. Len(s) : ~Names(s[j], id)
      BY <2>1
    <3>2. i \in DOMAIN t /\ t[i] = s[i]
      BY <1>1
    <3>3. ASSUME NEW j \in i + 1 .. Len(t) PROVE ~Names(t[j], id)
      <4>1. CASE j = Len(s) + 1
        BY <1>1, <1>2, <4>1
      <4>2. CASE j # Len(s) + 1
        <5>1. j \in i + 1 .. Len(s) /\ j \in DOMAIN s
          BY <1>1, <4>2
        <5> QED
          BY <1>1, <3>1, <5>1
      <4> QED
        BY <4>1, <4>2
    <3> QED
      BY <3>1, <3>2, <3>3 DEF ToldIn
  <2>2. CASE (\A i \in DOMAIN s : ~Names(s[i], id)) /\ id \in DOMAIN map /\ map[id] = url
    <3>1. \A i \in DOMAIN t : ~Names(t[i], id)
      BY <1>1, <1>2, <2>2
    <3> QED
      BY <2>2, <3>1 DEF ToldIn
  <2> QED
    BY <1>2, <2>1, <2>2 DEF ToldIn
<1>3. ASSUME Names(x, id), x.url = url
      PROVE  ToldIn(map, t, id, url)
  <2> DEFINE n == Len(s) + 1
  <2>1. n \in DOMAIN t /\ t[n] = x
    BY <1>1
  <2>2. \A j \in n + 1 .. Len(t) : FALSE
    BY <1>1
  <2> HIDE DEF n
  <2> QED
    BY <1>3, <2>1, <2>2 DEF ToldIn
<1>4. PageAhead(s) => PageAhead(t)
  BY <1>1 DEF PageAhead
<1> QED
  BY <1>2, <1>3, <1>4 DEF t

\* Running the first script keeps what the page will have been told.
LEMMA ToldTail ==
  ASSUME NEW map, NEW s \in Seq(Messages), s # <<>>, NEW id, NEW url, ToldIn(map, s, id, url)
  PROVE  /\ Head(s).kind # "APPURL" => ToldIn(map, Tail(s), id, url)
         /\ Head(s).kind = "APPURL" /\ IsMap(map) =>
              ToldIn(With(map, Head(s).id, Head(s).url), Tail(s), id, url)
<1> DEFINE t == Tail(s)
           h == Head(s)
<1>1. /\ h = s[1] /\ h \in Messages /\ \A i \in DOMAIN t : t[i] = s[i + 1]
      /\ DOMAIN s = 1 .. Len(s) /\ DOMAIN t = 1 .. Len(s) - 1 /\ Len(t) = Len(s) - 1
      /\ Len(s) \in Nat \ {0}
  BY TailSeq
<1> HIDE DEF t, h
<1>2. ASSUME NEW i \in DOMAIN s, Names(s[i], id), s[i].url = url,
             \A j \in i + 1 .. Len(s) : ~Names(s[j], id), i # 1, NEW m
      PROVE  ToldIn(m, t, id, url)
  <2>1. i - 1 \in DOMAIN t /\ t[i - 1] = s[i]
    BY <1>1, <1>2
  <2>2. ASSUME NEW j \in (i - 1) + 1 .. Len(t) PROVE ~Names(t[j], id)
    <3>1. j \in DOMAIN t /\ j + 1 \in i + 1 .. Len(s)
      BY <1>1, <1>2
    <3> QED
      BY <1>1, <1>2, <3>1
  <2> QED
    BY <1>2, <2>1, <2>2 DEF ToldIn
<1>3. ASSUME \A i \in DOMAIN s : ~Names(s[i], id), id \in DOMAIN map, map[id] = url
      PROVE  /\ h.kind # "APPURL" => ToldIn(map, t, id, url)
             /\ h.kind = "APPURL" /\ IsMap(map) => ToldIn(With(map, h.id, h.url), t, id, url)
  <2>1. \A i \in DOMAIN t : ~Names(t[i], id)
    <3>1. \A i \in DOMAIN t : i + 1 \in DOMAIN s
      BY <1>1
    <3> QED
      BY <1>1, <1>3, <3>1
  <2>2. h.kind = "APPURL" => h.id # id
    BY <1>1, <1>3 DEF Names
  <2>3. h.kind = "APPURL" => h.id \in Ids /\ h.url \in Urls
    BY <1>1 DEF Messages
  <2>4. ASSUME h.kind = "APPURL", IsMap(map) PROVE ToldIn(With(map, h.id, h.url), t, id, url)
    <3> DEFINE w == With(map, h.id, h.url)
    <3>9. \A d \in Ids, u \in Urls :
            /\ DOMAIN With(map, d, u) = DOMAIN map \cup {d}
            /\ \A i \in DOMAIN map \ {d} : With(map, d, u)[i] = map[i]
      BY <2>4, WithMap
    <3>0. DOMAIN w = DOMAIN map \cup {h.id} /\ \A i \in DOMAIN map \ {h.id} : w[i] = map[i]
      BY <2>3, <2>4, <3>9
    <3> HIDE DEF w
    <3>2. id \in DOMAIN w /\ w[id] = url
      BY <1>3, <2>2, <2>4, <3>0
    <3>1. id \in DOMAIN With(map, h.id, h.url) /\ With(map, h.id, h.url)[id] = url
      BY <3>2 DEF w
    <3> QED
      BY <2>1, <3>1 DEF ToldIn
  <2> QED
    BY <1>3, <2>1, <2>4 DEF ToldIn
<1>4. ASSUME Names(s[1], id), s[1].url = url, \A j \in 1 + 1 .. Len(s) : ~Names(s[j], id)
      PROVE  h.kind = "APPURL" /\ (IsMap(map) => ToldIn(With(map, h.id, h.url), t, id, url))
  <2>1. h.kind = "APPURL" /\ h.id = id /\ h.url = url
    BY <1>1, <1>4 DEF Names
  <2>2. h.id \in Ids /\ h.url \in Urls
    BY <1>1, <2>1 DEF Messages
  <2>3. \A i \in DOMAIN t : ~Names(t[i], id)
    <3>1. \A i \in DOMAIN t : i + 1 \in 1 + 1 .. Len(s)
      BY <1>1
    <3> QED
      BY <1>1, <1>4, <3>1
  <2>4. ASSUME IsMap(map) PROVE ToldIn(With(map, h.id, h.url), t, id, url)
    <3> DEFINE w == With(map, h.id, h.url)
    <3>9. \A d \in Ids, u \in Urls :
            DOMAIN With(map, d, u) = DOMAIN map \cup {d} /\ With(map, d, u)[d] = u
      BY <2>4, WithMap
    <3>0. DOMAIN w = DOMAIN map \cup {h.id} /\ w[h.id] = h.url
      BY <2>2, <2>4, <3>9
    <3> HIDE DEF w
    <3>2. id \in DOMAIN w /\ w[id] = url
      BY <2>1, <3>0
    <3>1. id \in DOMAIN With(map, h.id, h.url) /\ With(map, h.id, h.url)[id] = url
      BY <3>2 DEF w
    <3> QED
      BY <2>3, <3>1 DEF ToldIn
  <2> QED
    BY <2>1, <2>4
<1>5. /\ h.kind # "APPURL" => ToldIn(map, t, id, url)
      /\ h.kind = "APPURL" /\ IsMap(map) => ToldIn(With(map, h.id, h.url), t, id, url)
  <2>1. CASE \E i \in DOMAIN s : /\ Names(s[i], id) /\ s[i].url = url
                                 /\ \A j \in i + 1 .. Len(s) : ~Names(s[j], id)
    <3>1. PICK i \in DOMAIN s : /\ Names(s[i], id) /\ s[i].url = url
                                /\ \A j \in i + 1 .. Len(s) : ~Names(s[j], id)
      BY <2>1
    <3>2. CASE i = 1
      BY <1>4, <3>1, <3>2
    <3>3. CASE i # 1
      BY <1>2, <3>1, <3>3
    <3> QED
      BY <3>2, <3>3
  <2>2. CASE (\A i \in DOMAIN s : ~Names(s[i], id)) /\ id \in DOMAIN map /\ map[id] = url
    BY <1>3, <2>2
  <2> QED
    BY <2>1, <2>2 DEF ToldIn
<1> QED
  BY <1>5 DEF t, h

\* A page that is on its way stays so until it is there.
LEMMA PageTail ==
  ASSUME NEW s \in Seq(Messages), s # <<>>, Head(s).kind # "PAGE", PageAhead(s)
  PROVE  PageAhead(Tail(s))
<1>1. PICK i \in DOMAIN s : s[i].kind = "PAGE"
  BY DEF PageAhead
<1>2. i - 1 \in DOMAIN Tail(s) /\ Tail(s)[i - 1] = s[i]
  <2>1. i # 1 /\ i \in 1 .. Len(s) /\ Len(s) \in Nat
    BY <1>1, TailSeq
  <2>2. i - 1 \in DOMAIN Tail(s) /\ (i - 1) + 1 = i
    BY <2>1, TailSeq
  <2> QED
    BY <2>2, TailSeq
<1> QED
  BY <1>1, <1>2 DEF PageAhead

\* A step that leaves the registry alone, and the page with what it was told.
LEMMA PromisedQuiet ==
  ASSUME Promised, page'.loaded = page.loaded, PageAhead(scripts) => PageAhead(scripts'),
         UNCHANGED <<appUrls, iter, adding, twice, missed>>,
         page.loaded => \A id, url : ToldIn(page.map, scripts, id, url) =>
                                       ToldIn(page'.map, scripts', id, url)
  PROVE  Promised'
BY DEF Promised

\* A message to the page that names no application.
LEMMA PromisedSend ==
  ASSUME TypeOK, Promised, NEW x \in Messages, x.kind # "APPURL", scripts' = Append(scripts, x),
         page' = page, UNCHANGED <<appUrls, iter, adding, twice, missed>>
  PROVE  Promised'
<1>1. scripts \in Seq(Messages)
  BY DEF TypeOK
<1>2. \A id : ~Names(x, id)
  BY DEF Names
<1>3. PageAhead(scripts) => PageAhead(scripts')
  BY <1>1, ToldAppend
<1>4. \A id, url : ToldIn(page.map, scripts, id, url) => ToldIn(page'.map, scripts', id, url)
  BY <1>1, <1>2, ToldAppend
<1> QED
  BY <1>3, <1>4, PromisedQuiet

\* A script of another kind is run in the page.
LEMMA PromisedScript ==
  ASSUME TypeOK, Promised, NEW kind \in {"KEY", "FONT"}, Script(kind),
         page'.loaded = page.loaded, page'.map = page.map
  PROVE  Promised'
<1>1. /\ scripts \in Seq(Messages) /\ scripts # <<>> /\ Head(scripts).kind = kind
      /\ scripts' = Tail(scripts) /\ UNCHANGED <<appUrls, iter, adding, twice, missed>>
  BY DEF Script, TypeOK
<1>2. PageAhead(scripts) => PageAhead(scripts')
  BY <1>1, PageTail
<1>3. \A id, url : ToldIn(page.map, scripts, id, url) => ToldIn(page'.map, scripts', id, url)
  BY <1>1, ToldTail
<1> QED
  BY <1>1, <1>2, <1>3, PromisedQuiet

\* A step that changes neither the scripts nor what the page holds.
LEMMA PromisedStays ==
  ASSUME Promised, scripts' = scripts, page'.loaded = page.loaded, page'.map = page.map,
         UNCHANGED <<appUrls, iter, adding, twice, missed>>
  PROVE  Promised'
BY DEF Promised

\* Each action keeps it.
LEMMA PromisedStep == TypeOK /\ Promised /\ [Next]_vars => Promised'
<1> SUFFICES ASSUME TypeOK, Promised, [Next]_vars PROVE Promised'
  OBVIOUS
<1>t. /\ scripts \in Seq(Messages) /\ IsPage(page) /\ DOMAIN page = Fields /\ IsMap(appUrls)
      /\ adding = Undefined \/ adding \in Apps
      /\ iter = Undefined \/ iter \in SUBSET Ids
      /\ page.loaded => IsMap(page.map)
  BY DEF TypeOK, IsPage
<1>a. \A app \in Apps : app # Undefined /\ app.id \in Ids /\ app.url \in Urls
  BY AppFacts, UndefinedAssumption
<1>i. \A ids \in SUBSET Ids : ids # Undefined
  BY UndefinedAssumption
<1>u. CASE UNCHANGED vars
  BY <1>u, PromisedStays DEF vars
<1>1. CASE HandleChannel
  <2>1. adding = Undefined /\ adding' = adding /\ appUrls' = NoUrls /\ DOMAIN appUrls' = {}
    BY <1>1 DEF HandleChannel, Command, NoUrls
  <2> QED
    BY <2>1 DEF Promised
<1>2. CASE AddAppUrl
  <2> DEFINE id == adding.id
             map == IF id \in DOMAIN appUrls THEN appUrls ELSE With(appUrls, id, adding.url)
  <2>1. /\ adding # Undefined /\ adding \in Apps
        /\ adding' = Undefined /\ appUrls' = map /\ twice' = (twice \/ map[id] # adding.url)
        /\ UNCHANGED <<scripts, page, iter, missed>>
    BY <1>2, <1>t DEF AddAppUrl
  <2>2. id \in Ids /\ adding.url \in Urls
    BY <1>a, <2>1
  <2>3. id \notin DOMAIN appUrls =>
          /\ DOMAIN map = DOMAIN appUrls \cup {id} /\ map[id] = adding.url
          /\ \A i \in DOMAIN appUrls \ {id} : map[i] = appUrls[i]
    <3>1. \A d \in Ids, u \in Urls :
            /\ DOMAIN With(appUrls, d, u) = DOMAIN appUrls \cup {d}
            /\ With(appUrls, d, u)[d] = u
            /\ \A i \in DOMAIN appUrls \ {d} : With(appUrls, d, u)[i] = appUrls[i]
      <4>1. IsMap(appUrls)
        BY <1>t
      <4> HIDE DEF map
      <4> QED
        BY <4>1, WithMap
    <3> QED
      BY <2>2, <3>1
  <2>4. id \in DOMAIN appUrls => map = appUrls
    OBVIOUS
  <2> HIDE DEF map
  <2>5. SUFFICES ASSUME page.loaded, ~PageAhead(scripts), ~missed, ~twice'
                 PROVE  \A i \in DOMAIN map : \/ iter # Undefined /\ i \notin iter
                                              \/ ToldIn(page.map, scripts, i, map[i])
    BY <2>1 DEF Promised
  <2>6. ~twice /\ map[id] = adding.url
    BY <2>1, <2>5 DEF TypeOK
  <2>7. CASE id \in DOMAIN appUrls
    BY <2>1, <2>4, <2>5, <2>6, <2>7 DEF Promised
  <2>8. CASE id \notin DOMAIN appUrls
    <3>1. ToldIn(page.map, scripts, id, adding.url)
      BY <2>1, <2>5, <2>6, <2>8 DEF Promised
    <3>2. ASSUME NEW i \in DOMAIN map, i # id
          PROVE  (iter # Undefined /\ i \notin iter) \/ ToldIn(page.map, scripts, i, map[i])
      <4>1. i \in DOMAIN appUrls /\ map[i] = appUrls[i]
        BY <2>3, <2>8, <3>2
      <4> QED
        BY <2>5, <2>6, <3>2, <4>1 DEF Promised
    <3> QED
      BY <2>6, <3>1, <3>2
  <2> QED
    BY <2>7, <2>8
<1>3. CASE \E app \in Apps : HandleAppUrl(app)
  <2>1. PICK app \in Apps : HandleAppUrl(app)
    BY <1>3
  <2> DEFINE x == [kind |-> "APPURL", id |-> app.id, url |-> app.url]
  <2>2. /\ x \in Messages /\ x.kind = "APPURL" /\ x.id = app.id /\ x.url = app.url
    BY AppFacts, Sendable
  <2>3. /\ adding = Undefined /\ adding' = app /\ scripts' = Append(scripts, x)
        /\ UNCHANGED <<page, appUrls, iter, twice, missed>>
    BY <2>1 DEF HandleAppUrl, Command, ui
  <2> HIDE DEF x
  <2>4. app # Undefined
    BY <1>a
  <2>5. PageAhead(scripts) => PageAhead(scripts')
    BY <1>t, <2>2, <2>3, ToldAppend
  <2>6. ToldIn(page.map, scripts', app.id, app.url)
    BY <1>t, <2>2, <2>3, ToldAppend DEF Names
  <2>7. \A id, url : id # app.id /\ ToldIn(page.map, scripts, id, url) =>
                       ToldIn(page.map, scripts', id, url)
    BY <1>t, <2>2, <2>3, ToldAppend DEF Names
  <2>8. SUFFICES ASSUME page.loaded, ~PageAhead(scripts'), ~missed, ~twice, NEW id \in DOMAIN appUrls
                 PROVE  \/ iter # Undefined /\ id \notin iter
                        \/ ToldIn(page.map, scripts', id, appUrls[id])
                        \/ app.id = id /\ app.url # appUrls[id]
    BY <2>3, <2>4, <2>6 DEF Promised
  <2>9. \/ iter # Undefined /\ id \notin iter
        \/ ToldIn(page.map, scripts, id, appUrls[id])
    BY <2>3, <2>5, <2>8 DEF Promised
  <2> QED
    BY <2>6, <2>7, <2>9
<1>4. CASE \E name \in KeyNames : sendKeyEvent(name)
  <2>1. PICK name \in KeyNames : sendKeyEvent(name)
    BY <1>4
  <2> DEFINE x == [kind |-> "KEY", name |-> name]
  <2>2. x \in Messages /\ x.kind # "APPURL"
    BY Sendable
  <2>3. /\ scripts' = Append(scripts, x) /\ page' = page
        /\ UNCHANGED <<appUrls, iter, adding, twice, missed>>
    BY <2>1 DEF sendKeyEvent, Command, ui
  <2> HIDE DEF x
  <2> QED
    BY <2>2, <2>3, PromisedSend
<1>5. CASE \E url \in Urls : HandleUrl(url)
  BY <1>5, PromisedStays DEF HandleUrl, Command
<1>21. CASE GetResourceRequestHandler
  BY <1>21, PromisedStays DEF GetResourceRequestHandler, Loading
<1>6. CASE ProcessRequest
  BY <1>6, PromisedStays DEF ProcessRequest, Loading
<1>7. CASE Commit
  <2> DEFINE x == [kind |-> "PAGE", url |-> nav.url, channel |-> nav.channel]
  <2>1. x \in Messages /\ x.kind # "APPURL"
    BY <1>7, Sendable DEF Commit, TypeOK, Navigations
  <2>2. /\ scripts' = Append(scripts, x)
        /\ UNCHANGED <<page, appUrls, iter, adding, twice, missed>>
    BY <1>7 DEF Commit, Loading
  <2> HIDE DEF x
  <2> QED
    BY <2>1, <2>2, PromisedSend
<1>8. CASE OnLoadEnd
  <2>1. \/ missed'
        \/ /\ iter' = {} /\ missed' = (missed \/ adding # Undefined)
    BY <1>8 DEF OnLoadEnd
  <2>2. adding' = adding
    BY <1>8 DEF OnLoadEnd, Loading
  <2>3. {} # Undefined
    BY <1>i
  <2> QED
    BY <2>1, <2>2, <2>3 DEF Promised
<1>9. CASE InjectAppUrl
  <2>1. PICK d \in DOMAIN appUrls \ iter :
          /\ iter' = iter \cup {d}
          /\ scripts' = Append(scripts, [kind |-> "APPURL", id |-> d, url |-> appUrls[d]])
    BY <1>9 DEF InjectAppUrl
  <2> DEFINE x == [kind |-> "APPURL", id |-> d, url |-> appUrls[d]]
  <2>2. x \in Messages /\ x.kind = "APPURL" /\ x.id = d /\ x.url = appUrls[d]
    BY <1>t, MapFacts, Sendable
  <2>3. /\ scripts' = Append(scripts, x) /\ iter # Undefined /\ iter' = iter \cup {d}
        /\ UNCHANGED <<page, appUrls, adding, twice, missed>>
    BY <1>9, <2>1 DEF InjectAppUrl, Loading
  <2> HIDE DEF x
  <2>4. iter' # Undefined
    <3>1. iter' \in SUBSET Ids
      BY <1>t, <2>3, MapFacts
    <3> QED
      BY <1>i, <3>1
  <2>5. PageAhead(scripts) => PageAhead(scripts')
    BY <1>t, <2>2, <2>3, ToldAppend
  <2>6. ToldIn(page.map, scripts', d, appUrls[d])
    BY <1>t, <2>2, <2>3, ToldAppend DEF Names
  <2>7. \A id, url : id # d /\ ToldIn(page.map, scripts, id, url) =>
                       ToldIn(page.map, scripts', id, url)
    BY <1>t, <2>2, <2>3, ToldAppend DEF Names
  <2>8. SUFFICES ASSUME page.loaded, ~PageAhead(scripts), ~missed, ~twice
                 PROVE  /\ \A id \in DOMAIN appUrls :
                             \/ id \notin iter'
                             \/ ToldIn(page.map, scripts', id, appUrls[id])
                             \/ adding # Undefined /\ adding.id = id /\ adding.url # appUrls[id]
                        /\ (adding # Undefined /\ adding.id \notin DOMAIN appUrls) =>
                             ToldIn(page.map, scripts', adding.id, adding.url)
    BY <2>3, <2>4, <2>5 DEF Promised
  <2>9. ASSUME NEW id \in DOMAIN appUrls
        PROVE  \/ id \notin iter'
               \/ ToldIn(page.map, scripts', id, appUrls[id])
               \/ adding # Undefined /\ adding.id = id /\ adding.url # appUrls[id]
    <3>1. CASE id = d
      BY <2>6, <3>1
    <3>2. CASE id # d
      <4>1. \/ id \notin iter
            \/ ToldIn(page.map, scripts, id, appUrls[id])
            \/ adding # Undefined /\ adding.id = id /\ adding.url # appUrls[id]
        BY <2>8, <2>9 DEF Promised
      <4> QED
        BY <2>3, <2>7, <3>2, <4>1
    <3> QED
      BY <3>1, <3>2
  <2>10. ASSUME adding # Undefined, adding.id \notin DOMAIN appUrls
         PROVE  ToldIn(page.map, scripts', adding.id, adding.url)
    <3>1. ToldIn(page.map, scripts, adding.id, adding.url)
      BY <2>8, <2>10 DEF Promised
    <3>2. adding.id # d
      BY <2>1, <2>10
    <3> QED
      BY <2>7, <3>1, <3>2
  <2> QED
    BY <2>9, <2>10
<1>10. CASE LoadEndDone
  <2>1. /\ iter # Undefined /\ DOMAIN appUrls \subseteq iter /\ iter' = Undefined
        /\ UNCHANGED <<scripts, page, appUrls, adding, twice, missed>>
    BY <1>10 DEF LoadEndDone, Loading
  <2> QED
    BY <2>1 DEF Promised
<1>11. CASE OnQuery
  BY <1>11, PromisedStays DEF OnQuery, history
<1>12. CASE NewDocument
  <2>1. ~page'.loaded
    BY <1>12 DEF NewDocument, Blank
  <2> QED
    BY <2>1 DEF Promised
<1>13. CASE HeadParsed
  <2>1. page' = [page EXCEPT !.map = NoUrls] /\ page.map = Undefined
    BY <1>13 DEF HeadParsed
  <2>2. ~page'.loaded
    BY <1>t, <2>1 DEF IsPage, Fields, Blank
  <2> QED
    BY <2>2 DEF Promised
<1>14. CASE DOMContentLoaded
  <2>1. page' = [page EXCEPT !.ready = TRUE]
    BY <1>14 DEF DOMContentLoaded
  <2>2. page'.loaded = page.loaded /\ page'.map = page.map
    BY <1>t, <2>1 DEF Fields, Blank
  <2> QED
    BY <1>14, <2>2, PromisedStays DEF DOMContentLoaded, Loading
<1>15. CASE SetAppUrl
  <2> DEFINE s == Head(scripts)
  <2>1. /\ scripts # <<>> /\ s.kind = "APPURL" /\ scripts' = Tail(scripts)
        /\ UNCHANGED <<appUrls, iter, adding, twice, missed>>
        /\ page' = IF page.map = Undefined THEN page
                   ELSE [page EXCEPT !.map = With(page.map, s.id, s.url)]
    BY <1>15 DEF SetAppUrl, Script
  <2>2. page'.loaded = page.loaded
    BY <1>t, <2>1 DEF Fields, Blank
  <2>3. page.loaded => page'.map = With(page.map, s.id, s.url)
    BY <1>t, <2>1 DEF IsPage, Fields, Blank
  <2>4. PageAhead(scripts) => PageAhead(scripts')
    BY <1>t, <2>1, PageTail
  <2>5. page.loaded => \A id, url : ToldIn(page.map, scripts, id, url) =>
                                      ToldIn(page'.map, scripts', id, url)
    <3>1. SUFFICES ASSUME page.loaded, NEW id, NEW url, ToldIn(page.map, scripts, id, url)
                   PROVE  ToldIn(With(page.map, s.id, s.url), Tail(scripts), id, url)
      BY <2>1, <2>3
    <3> QED
      BY <1>t, <2>1, <3>1, ToldTail
  <2> QED
    BY <2>1, <2>2, <2>4, <2>5, PromisedQuiet
<1>16. CASE SetFont
  <2>1. page'.loaded = page.loaded /\ page'.map = page.map
    BY <1>16, <1>t DEF SetFont, Fields, Blank
  <2> QED
    BY <1>16, <2>1, PromisedScript DEF SetFont
<1>17. CASE cefKeyPress
  <2>1. page' = page \/ \E n : page' = [page EXCEPT !.active = n]
    BY <1>17 DEF cefKeyPress
  <2>2. page'.loaded = page.loaded /\ page'.map = page.map
    BY <1>t, <2>1 DEF Fields, Blank
  <2> QED
    BY <1>17, <2>2, PromisedScript DEF cefKeyPress
<1>18. CASE \E code \in PcCodes : PcKey(code)
  BY <1>18, PromisedStays DEF PcKey, InPage
<1>22. CASE PcKeyUp
  BY <1>22, PromisedStays DEF PcKeyUp, ui
<1>19. CASE \E uri \in Uris : createApplication(uri)
  BY <1>19, PromisedStays DEF createApplication, InPage
<1>20. CASE destroyApplication
  <2>1. page' = [page EXCEPT !.alive = FALSE]
    BY <1>20 DEF destroyApplication
  <2>2. page'.loaded = page.loaded /\ page'.map = page.map
    BY <1>t, <2>1 DEF Fields, Blank
  <2> QED
    BY <1>20, <2>2, PromisedStays DEF destroyApplication, InPage
<1> QED
  BY <1>u, <1>1, <1>2, <1>3, <1>4, <1>5, <1>6, <1>7, <1>8, <1>9, <1>10, <1>11, <1>12, <1>13,
    <1>14, <1>15, <1>16, <1>17, <1>18, <1>19, <1>20, <1>21, <1>22 DEF Next, Control, Io, Ui, Renderer, Person

-----------------------------------------------------------------------------
(***************************************************************************)
(* A page knows applications of its own channel only.                      *)
(***************************************************************************)
\* The applications of the channel, with the one that is about to be registered.
Known == DOMAIN appUrls \cup (IF adding = Undefined THEN {} ELSE {adding.id})

\* The scripts of s from number n name applications in K only.
Follows(s, n, K) == \A j \in DOMAIN s : j >= n /\ s[j].kind = "APPURL" => s[j].id \in K

\* A page p of channel c knows applications in K only, with the scripts s ahead of
\* it, and a page among these will know such only; none is of a later channel.
Sound(p, s, c, K) ==
  /\ p.channel <= c
  /\ p.channel = c => (p.map # Undefined => DOMAIN p.map \subseteq K) /\ Follows(s, 1, K)
  /\ \A i \in DOMAIN s : s[i].kind = "PAGE" =>
       s[i].channel <= c /\ (s[i].channel = c => Follows(s, i, K))

\* The page that is there, and the ones that come, know applications of their
\* channel only.
SoundInv == (nav # Undefined => nav.channel <= channel) /\ Sound(page, scripts, channel, Known)

\* More may be known, and a script sent that names what is known, or a page of a
\* channel there has been.
LEMMA SoundAppend ==
  ASSUME NEW p, NEW s \in Seq(Messages), NEW c \in Nat, NEW K, Sound(p, s, c, K),
         NEW L, K \subseteq L, NEW x \in Messages,
         x.kind = "APPURL" => x.id \in L, x.kind = "PAGE" => x.channel <= c
  PROVE  Sound(p, Append(s, x), c, L)
<1> DEFINE t == Append(s, x)
           n == Len(s) + 1
<1>1. /\ \A i \in DOMAIN s : t[i] = s[i]
      /\ t[n] = x /\ DOMAIN t = DOMAIN s \cup {n} /\ DOMAIN s = 1 .. Len(s) /\ Len(s) \in Nat
      /\ n \notin DOMAIN s
  BY AppendSeq
<1> HIDE DEF t, n
<1>2. ASSUME NEW i \in DOMAIN t, i \in DOMAIN s => Follows(s, i, K)
      PROVE  Follows(t, i, L)
  <2>1. SUFFICES ASSUME NEW j \in DOMAIN t, j >= i, t[j].kind = "APPURL"
                 PROVE  t[j].id \in L
    BY DEF Follows
  <2>2. CASE j = n
    BY <1>1, <2>1, <2>2
  <2>3. CASE j # n
    <3>1. j \in DOMAIN s /\ i \in DOMAIN s /\ t[j] = s[j]
      BY <1>1, <2>1, <2>3 DEF n
    <3> QED
      BY <1>2, <2>1, <3>1 DEF Follows
  <2> QED
    BY <2>2, <2>3
<1>3. Follows(s, 1, K) => Follows(t, 1, L)
  <2>1. SUFFICES ASSUME Follows(s, 1, K), NEW j \in DOMAIN t, t[j].kind = "APPURL"
                 PROVE  t[j].id \in L
    BY DEF Follows
  <2>2. CASE j = n
    BY <1>1, <2>1, <2>2
  <2>3. CASE j # n
    <3>1. j \in DOMAIN s /\ j >= 1 /\ t[j] = s[j]
      BY <1>1, <2>3
    <3> QED
      BY <2>1, <3>1 DEF Follows
  <2> QED
    BY <2>2, <2>3
<1>4. p.channel <= c /\ (p.channel = c => (p.map # Undefined => DOMAIN p.map \subseteq L) /\ Follows(t, 1, L))
  BY <1>3 DEF Sound
<1>5. ASSUME NEW i \in DOMAIN t, t[i].kind = "PAGE"
      PROVE  t[i].channel <= c /\ (t[i].channel = c => Follows(t, i, L))
  <2>1. CASE i = n
    <3>1. i \notin DOMAIN s /\ t[i] = x
      BY <1>1, <2>1
    <3>2. Follows(t, i, L)
      BY <1>2, <3>1
    <3> QED
      BY <1>5, <3>1, <3>2
  <2>2. CASE i # n
    <3>1. i \in DOMAIN s /\ t[i] = s[i]
      BY <1>1, <2>2
    <3>2. s[i].channel <= c /\ (s[i].channel = c => Follows(s, i, K))
      BY <1>5, <3>1 DEF Sound
    <3>3. t[i].channel = c => Follows(t, i, L)
      BY <1>2, <3>1, <3>2
    <3> QED
      BY <3>1, <3>2, <3>3
  <2> QED
    BY <2>1, <2>2
<1>6. Sound(p, t, c, L)
  BY <1>4, <1>5 DEF Sound
<1> QED
  BY <1>6 DEF t

\* More may be known than before, and the page may hold less.
LEMMA SoundGrow ==
  ASSUME NEW p, NEW q, NEW s, NEW c, NEW K, NEW L, Sound(p, s, c, K), K \subseteq L,
         q.channel = p.channel,
         q.map = p.map \/ (q.map # Undefined => DOMAIN q.map \subseteq L)
  PROVE  Sound(q, s, c, L)
<1>1. \A i : Follows(s, i, K) => Follows(s, i, L)
  BY DEF Follows
<1> QED
  BY <1>1 DEF Sound

\* On the next channel no page is of the channel yet, whatever is known.
LEMMA SoundNext ==
  ASSUME NEW p, NEW s \in Seq(Messages), NEW c \in Nat, NEW K, NEW L, Sound(p, s, c, K),
         p.channel \in Nat
  PROVE  Sound(p, s, c + 1, L)
<1>1. p.channel <= c + 1 /\ p.channel # c + 1
  BY DEF Sound
<1>2. ASSUME NEW i \in DOMAIN s, s[i].kind = "PAGE"
      PROVE  s[i].channel <= c + 1 /\ s[i].channel # c + 1
  <2>1. s[i] \in Messages
    OBVIOUS
  <2>2. s[i].channel \in Nat
    BY <1>2, <2>1 DEF Messages
  <2>3. s[i].channel <= c
    BY <1>2 DEF Sound
  <2> QED
    BY <2>2, <2>3
<1> QED
  BY <1>1, <1>2 DEF Sound

\* A script is run: what it names is known, and what a page it brings knows.
LEMMA SoundTail ==
  ASSUME NEW p, NEW s \in Seq(Messages), s # <<>>, NEW c, NEW K, Sound(p, s, c, K)
  PROVE  /\ Sound(p, Tail(s), c, K)
         /\ p.channel = c /\ Head(s).kind = "APPURL" => Head(s).id \in K
         /\ \A q : Head(s).kind = "PAGE" /\ q.channel = Head(s).channel /\ q.map = Undefined =>
                     Sound(q, Tail(s), c, K)
<1> DEFINE t == Tail(s)
           h == Head(s)
<1>1. /\ h = s[1] /\ \A i \in DOMAIN t : t[i] = s[i + 1]
      /\ DOMAIN s = 1 .. Len(s) /\ DOMAIN t = 1 .. Len(s) - 1
      /\ Len(s) \in Nat \ {0}
  BY TailSeq
<1> HIDE DEF t, h
<1>2. 1 \in DOMAIN s /\ \A j \in DOMAIN t : j + 1 \in DOMAIN s /\ t[j] = s[j + 1] /\ j >= 1 /\ j \in Nat
  BY <1>1
<1>3. ASSUME NEW i \in Nat, Follows(s, i + 1, K)
      PROVE  Follows(t, i, K)
  BY <1>2, <1>3 DEF Follows
<1>4. Follows(s, 1, K) => Follows(t, 1, K)
  BY <1>2 DEF Follows
<1>5. ASSUME NEW i \in DOMAIN t, t[i].kind = "PAGE"
      PROVE  t[i].channel <= c /\ (t[i].channel = c => Follows(t, i, K))
  <2>1. s[i + 1].channel <= c /\ (s[i + 1].channel = c => Follows(s, i + 1, K))
    BY <1>2, <1>5 DEF Sound
  <2> QED
    BY <1>2, <1>3, <1>5, <2>1
<1>6. Sound(p, t, c, K)
  BY <1>4, <1>5 DEF Sound
<1>7. p.channel = c /\ h.kind = "APPURL" => h.id \in K
  BY <1>1, <1>2 DEF Sound, Follows
<1>8. ASSUME NEW q, h.kind = "PAGE", q.channel = h.channel, q.map = Undefined
      PROVE  Sound(q, t, c, K)
  <2>1. h.channel <= c /\ (h.channel = c => Follows(s, 1, K))
    BY <1>1, <1>2, <1>8 DEF Sound
  <2>2. q.channel <= c /\ (q.channel = c => (q.map # Undefined => DOMAIN q.map \subseteq K) /\ Follows(t, 1, K))
    BY <1>4, <1>8, <2>1
  <2> QED
    BY <1>5, <2>2 DEF Sound
<1> QED
  BY <1>6, <1>7, <1>8 DEF t, h

\* A message to the page: what it names is known, a page is of a channel there was.
LEMMA SoundSend ==
  ASSUME TypeOK, SoundInv, NEW x \in Messages, scripts' = Append(scripts, x), page' = page,
         channel' = channel, nav' # Undefined => nav'.channel <= channel,
         Known \subseteq Known', x.kind = "APPURL" => x.id \in Known',
         x.kind = "PAGE" => x.channel <= channel
  PROVE  SoundInv'
<1>1. scripts \in Seq(Messages) /\ channel \in Nat
  BY DEF TypeOK
<1>2. Sound(page, scripts, channel, Known)
  BY DEF SoundInv
<1>3. Sound(page, Append(scripts, x), channel, Known')
  BY <1>1, <1>2, SoundAppend
<1> QED
  BY <1>3 DEF SoundInv

\* A step that sends and runs no script: the page holds what it held, or what is
\* known.
LEMMA SoundQuiet ==
  ASSUME SoundInv, scripts' = scripts, channel' = channel,
         nav' # Undefined => nav'.channel <= channel,
         page'.channel = page.channel,
         page'.map = page.map \/ (page'.map # Undefined => DOMAIN page'.map \subseteq Known'),
         Known \subseteq Known'
  PROVE  SoundInv'
<1>1. Sound(page, scripts, channel, Known)
  BY DEF SoundInv
<1>2. Sound(page', scripts, channel, Known')
  BY <1>1, SoundGrow
<1> QED
  BY <1>2 DEF SoundInv

\* What LoadURL starts is of the channel there is.
LEMMA NavigateChannel ==
  ASSUME channel \in Nat, NEW url, Navigate(url)
  PROVE  nav'.channel <= channel
BY DEF Navigate

\* A script of another kind is run in the page.
LEMMA SoundScript ==
  ASSUME TypeOK, SoundInv, NEW kind, Script(kind), page'.channel = page.channel,
         page'.map = page.map, nav' = nav \/ \E url \in Urls : Navigate(url)
  PROVE  SoundInv'
<1>1. /\ scripts \in Seq(Messages) /\ scripts # <<>> /\ scripts' = Tail(scripts)
      /\ UNCHANGED <<channel, adding, appUrls>>
  BY DEF Script, TypeOK
<1>5. nav' # Undefined => nav'.channel <= channel
  BY NavigateChannel DEF SoundInv, TypeOK
<1>2. Known' = Known
  BY <1>1 DEF Known
<1>3. Sound(page, Tail(scripts), channel, Known)
  BY <1>1, SoundTail DEF SoundInv
<1>4. Sound(page', Tail(scripts), channel, Known)
  BY <1>3, SoundGrow
<1> QED
  BY <1>1, <1>2, <1>4, <1>5 DEF SoundInv

\* The initial states satisfy it.
LEMMA SoundInit == Init => SoundInv
<1> SUFFICES ASSUME Init PROVE SoundInv
  OBVIOUS
<1>1. nav # Undefined => nav.channel <= channel
  BY DEF Init
<1>2. page.channel = 0 /\ page.map = Undefined /\ scripts = <<>> /\ channel = 0
  BY DEF Init, Blank
<1>3. Sound(page, scripts, channel, Known)
  BY <1>2 DEF Sound, Follows
<1> QED
  BY <1>1, <1>3 DEF SoundInv

\* Each action keeps it.
LEMMA SoundStep == TypeOK /\ SoundInv /\ [Next]_vars => SoundInv'
<1> SUFFICES ASSUME TypeOK, SoundInv, [Next]_vars PROVE SoundInv'
  OBVIOUS
<1>t. /\ scripts \in Seq(Messages) /\ IsPage(page) /\ DOMAIN page = Fields /\ IsMap(appUrls)
      /\ adding = Undefined \/ adding \in Apps
      /\ channel \in Nat /\ page.channel \in Nat
      /\ page.map # Undefined => IsMap(page.map)
  BY DEF TypeOK, IsPage
<1>n. nav # Undefined => nav.channel <= channel
  BY DEF SoundInv
<1>s. Sound(page, scripts, channel, Known)
  BY DEF SoundInv
<1>a. \A app \in Apps : app # Undefined /\ app.id \in Ids /\ app.url \in Urls
  BY AppFacts, UndefinedAssumption
<1>u. CASE UNCHANGED vars
  <2>1. Known' = Known
    BY <1>u DEF vars, Known
  <2> QED
    BY <1>u, <1>n, <2>1, SoundQuiet DEF vars
<1>1. CASE HandleChannel
  <2>1. channel' = channel + 1 /\ UNCHANGED <<scripts, nav, page>>
    BY <1>1 DEF HandleChannel
  <2>2. Sound(page, scripts, channel + 1, Known')
    BY <1>s, <1>t, SoundNext
  <2>3. nav' # Undefined => nav'.channel <= channel'
    <3>1. nav # Undefined => nav.channel \in Nat
      BY DEF TypeOK, Navigations
    <3> QED
      BY <1>n, <1>t, <2>1, <3>1
  <2> QED
    BY <2>1, <2>2, <2>3 DEF SoundInv
<1>2. CASE AddAppUrl
  <2> DEFINE id == adding.id
             map == IF id \in DOMAIN appUrls THEN appUrls ELSE With(appUrls, id, adding.url)
  <2>1. /\ adding # Undefined /\ adding \in Apps /\ adding' = Undefined /\ appUrls' = map
        /\ UNCHANGED <<channel, scripts, nav, page>>
    BY <1>2, <1>t DEF AddAppUrl
  <2>2. DOMAIN map = DOMAIN appUrls \cup {id}
    <3>1. \A d \in Ids, u \in Urls : DOMAIN With(appUrls, d, u) = DOMAIN appUrls \cup {d}
      <4>1. IsMap(appUrls)
        BY <1>t
      <4> HIDE DEF map
      <4> QED
        BY <4>1, WithMap
    <3>2. id \in Ids /\ adding.url \in Urls
      BY <1>a, <2>1
    <3> QED
      BY <3>1, <3>2
  <2> HIDE DEF map
  <2>3. Known \subseteq Known'
    BY <2>1, <2>2 DEF Known
  <2> QED
    BY <1>n, <2>1, <2>3, SoundQuiet
<1>3. CASE \E app \in Apps : HandleAppUrl(app)
  <2>1. PICK app \in Apps : HandleAppUrl(app)
    BY <1>3
  <2> DEFINE x == [kind |-> "APPURL", id |-> app.id, url |-> app.url]
  <2>2. x \in Messages /\ x.kind = "APPURL" /\ x.id = app.id
    BY AppFacts, Sendable
  <2>3. /\ adding = Undefined /\ adding' = app /\ scripts' = Append(scripts, x)
        /\ UNCHANGED <<page, appUrls, nav, channel>>
    BY <2>1 DEF HandleAppUrl, Command, ui
  <2> HIDE DEF x
  <2>4. Known \subseteq Known' /\ app.id \in Known'
    BY <1>a, <2>3 DEF Known
  <2> QED
    BY <1>n, <2>2, <2>3, <2>4, SoundSend
<1>4. CASE \E name \in KeyNames : sendKeyEvent(name)
  <2>1. PICK name \in KeyNames : sendKeyEvent(name)
    BY <1>4
  <2> DEFINE x == [kind |-> "KEY", name |-> name]
  <2>2. x \in Messages /\ x.kind = "KEY"
    BY Sendable
  <2>3. /\ scripts' = Append(scripts, x)
        /\ UNCHANGED <<page, appUrls, nav, channel, adding>>
    BY <2>1 DEF sendKeyEvent, Command, ui
  <2> HIDE DEF x
  <2>4. Known' = Known
    BY <2>3 DEF Known
  <2> QED
    BY <1>n, <2>2, <2>3, <2>4, SoundSend
<1>5. CASE \E url \in Urls : HandleUrl(url)
  <2>1. PICK url \in Urls : HandleUrl(url)
    BY <1>5
  <2>2. Navigate(url) /\ UNCHANGED <<adding, channel, appUrls, scripts, page>>
    BY <2>1 DEF HandleUrl
  <2>3. Known' = Known
    BY <2>2 DEF Known
  <2>4. nav'.channel <= channel
    BY <1>t, <2>2, NavigateChannel
  <2> QED
    BY <2>2, <2>3, <2>4, SoundQuiet
<1>21. CASE GetResourceRequestHandler
  <2>1. /\ nav' = [nav EXCEPT !.asked = TRUE] /\ nav # Undefined
        /\ UNCHANGED <<adding, channel, appUrls, scripts, page>>
    BY <1>21 DEF GetResourceRequestHandler, Loading
  <2>2. Known' = Known
    BY <2>1 DEF Known
  <2>3. nav'.channel <= channel
    BY <1>n, <2>1 DEF TypeOK, Navigations
  <2> QED
    BY <2>1, <2>2, <2>3, SoundQuiet
<1>6. CASE ProcessRequest
  <2>1. /\ nav' = [nav EXCEPT !.read = TRUE, !.channel = channel] /\ nav # Undefined
        /\ UNCHANGED <<adding, channel, appUrls, scripts, page>>
    BY <1>6 DEF ProcessRequest, Loading
  <2>2. Known' = Known
    BY <2>1 DEF Known
  <2>3. nav'.channel <= channel
    BY <1>t, <2>1 DEF TypeOK, Navigations
  <2> QED
    BY <2>1, <2>2, <2>3, SoundQuiet
<1>7. CASE Commit
  <2> DEFINE x == [kind |-> "PAGE", url |-> nav.url, channel |-> nav.channel]
  <2>1. /\ scripts' = Append(scripts, x) /\ nav # Undefined /\ nav' = Undefined
        /\ UNCHANGED <<page, appUrls, adding, channel>>
    BY <1>7 DEF Commit, Loading
  <2>2. x \in Messages /\ x.kind = "PAGE" /\ x.channel <= channel
    BY <1>n, <2>1, Sendable DEF TypeOK, Navigations
  <2> HIDE DEF x
  <2>3. Known' = Known
    BY <2>1 DEF Known
  <2> QED
    BY <2>1, <2>2, <2>3, SoundSend
<1>8. CASE OnLoadEnd
  <2>1. /\ page' = [page EXCEPT !.loaded = TRUE]
        /\ scripts' = scripts \/ scripts' = Append(scripts, [kind |-> "FONT"])
        /\ UNCHANGED <<adding, channel, appUrls, nav>>
    BY <1>8 DEF OnLoadEnd, Loading
  <2>2. page'.channel = page.channel /\ page'.map = page.map
    BY <1>t, <2>1 DEF Fields, Blank
  <2>3. Known' = Known
    BY <2>1 DEF Known
  <2>4. Sound(page, scripts', channel, Known)
    <3> DEFINE x == [kind |-> "FONT"]
    <3>1. x \in Messages /\ x.kind = "FONT"
      BY Sendable
    <3>2. scripts' = scripts \/ scripts' = Append(scripts, x)
      BY <2>1
    <3> HIDE DEF x
    <3>3. Sound(page, Append(scripts, x), channel, Known)
      BY <1>s, <1>t, <3>1, SoundAppend
    <3> QED
      BY <1>s, <3>2, <3>3
  <2>5. Sound(page', scripts', channel, Known)
    BY <2>2, <2>4, SoundGrow
  <2> QED
    BY <1>n, <2>1, <2>3, <2>5 DEF SoundInv
<1>9. CASE InjectAppUrl
  <2>1. PICK d \in DOMAIN appUrls \ iter :
          scripts' = Append(scripts, [kind |-> "APPURL", id |-> d, url |-> appUrls[d]])
    BY <1>9 DEF InjectAppUrl
  <2> DEFINE x == [kind |-> "APPURL", id |-> d, url |-> appUrls[d]]
  <2>2. x \in Messages /\ x.kind = "APPURL" /\ x.id = d
    BY <1>t, MapFacts, Sendable
  <2>3. scripts' = Append(scripts, x) /\ UNCHANGED <<page, appUrls, adding, nav, channel>>
    BY <1>9, <2>1 DEF InjectAppUrl, Loading
  <2> HIDE DEF x
  <2>4. Known' = Known /\ d \in Known
    BY <2>1, <2>3 DEF Known
  <2> QED
    BY <1>n, <2>2, <2>3, <2>4, SoundSend
<1>10. CASE LoadEndDone
  <2>1. UNCHANGED <<adding, channel, appUrls, scripts, nav, page>>
    BY <1>10 DEF LoadEndDone, Loading
  <2>2. Known' = Known
    BY <2>1 DEF Known
  <2> QED
    BY <1>n, <2>1, <2>2, SoundQuiet
<1>11. CASE OnQuery
  <2>1. /\ nav' = nav \/ \E url : Navigate(url)
        /\ UNCHANGED <<adding, channel, appUrls, scripts, page>>
    BY <1>11 DEF OnQuery
  <2>2. nav' # Undefined => nav'.channel <= channel
    BY <1>n, <1>t, <2>1, NavigateChannel
  <2>3. Known' = Known
    BY <2>1 DEF Known
  <2> QED
    BY <2>1, <2>2, <2>3, SoundQuiet
<1>12. CASE NewDocument
  <2>1. /\ scripts # <<>> /\ Head(scripts).kind = "PAGE" /\ scripts' = Tail(scripts)
        /\ page' = Blank(Head(scripts).url, Head(scripts).channel)
        /\ UNCHANGED <<adding, channel, appUrls, nav>>
    BY <1>12 DEF NewDocument, Script
  <2>2. page'.channel = Head(scripts).channel /\ page'.map = Undefined
    BY <2>1 DEF Blank
  <2>3. Sound(page', Tail(scripts), channel, Known)
    BY <1>s, <1>t, <2>1, <2>2, SoundTail
  <2>4. Known' = Known
    BY <2>1 DEF Known
  <2> QED
    BY <1>n, <2>1, <2>3, <2>4 DEF SoundInv
<1>13. CASE HeadParsed
  <2>1. /\ page' = [page EXCEPT !.map = NoUrls]
        /\ UNCHANGED <<adding, channel, appUrls, scripts, nav>>
    BY <1>13 DEF HeadParsed, Loading
  <2>2. page'.channel = page.channel /\ page'.map = NoUrls
    BY <1>t, <2>1 DEF Fields, Blank
  <2>3. DOMAIN NoUrls = {}
    BY DEF NoUrls
  <2>4. Known' = Known
    BY <2>1 DEF Known
  <2> QED
    BY <1>n, <2>1, <2>2, <2>3, <2>4, SoundQuiet
<1>14. CASE DOMContentLoaded
  <2>1. /\ page' = [page EXCEPT !.ready = TRUE]
        /\ UNCHANGED <<adding, channel, appUrls, scripts, nav>>
    BY <1>14 DEF DOMContentLoaded, Loading
  <2>2. page'.channel = page.channel /\ page'.map = page.map
    BY <1>t, <2>1 DEF Fields, Blank
  <2>3. Known' = Known
    BY <2>1 DEF Known
  <2> QED
    BY <1>n, <2>1, <2>2, <2>3, SoundQuiet
<1>15. CASE SetAppUrl
  <2> DEFINE s == Head(scripts)
  <2>1. /\ scripts # <<>> /\ s.kind = "APPURL" /\ scripts' = Tail(scripts)
        /\ UNCHANGED <<adding, channel, appUrls, nav>>
        /\ page' = IF page.map = Undefined THEN page
                   ELSE [page EXCEPT !.map = With(page.map, s.id, s.url)]
    BY <1>15 DEF SetAppUrl, Script
  <2>2. s \in Messages
    BY <1>t, <2>1, TailSeq
  <2>3. s.id \in Ids /\ s.url \in Urls
    BY <2>1, <2>2 DEF Messages
  <2>4. page'.channel = page.channel
    BY <1>t, <2>1 DEF Fields, Blank
  <2>5. page.map # Undefined => page'.map = With(page.map, s.id, s.url)
    BY <1>t, <2>1 DEF Fields, Blank
  <2>6. page.map = Undefined => page'.map = page.map
    BY <2>1
  <2> HIDE DEF s
  <2>7. page.map # Undefined => DOMAIN page'.map = DOMAIN page.map \cup {s.id}
    <3>1. SUFFICES ASSUME page.map # Undefined
                   PROVE  DOMAIN page'.map = DOMAIN page.map \cup {s.id}
      OBVIOUS
    <3>2. IsMap(page.map)
      BY <1>t, <3>1
    <3>3. \A d \in Ids, u \in Urls : DOMAIN With(page.map, d, u) = DOMAIN page.map \cup {d}
      BY <3>2, WithMap
    <3> QED
      BY <2>3, <2>5, <3>1, <3>3
  <2>8. Sound(page, Tail(scripts), channel, Known) /\ (page.channel = channel => s.id \in Known)
    BY <1>s, <1>t, <2>1, SoundTail DEF s
  <2>9. CASE page.map = Undefined \/ page.channel # channel
    <3>1. Sound(page', Tail(scripts), channel, Known)
      BY <2>4, <2>6, <2>8, <2>9 DEF Sound
    <3> QED
      BY <1>n, <2>1, <3>1 DEF SoundInv, Known
  <2>10. CASE page.map # Undefined /\ page.channel = channel
    <3>1. DOMAIN page'.map \subseteq Known
      BY <1>s, <2>7, <2>8, <2>10 DEF Sound
    <3>2. Sound(page', Tail(scripts), channel, Known)
      BY <2>4, <2>8, <3>1, SoundGrow
    <3> QED
      BY <1>n, <2>1, <3>2 DEF SoundInv, Known
  <2> QED
    BY <2>9, <2>10
<1>16. CASE SetFont
  <2>1. page'.channel = page.channel /\ page'.map = page.map
    BY <1>16, <1>t DEF SetFont, Fields, Blank
  <2> QED
    BY <1>16, <2>1, SoundScript DEF SetFont
<1>17. CASE cefKeyPress
  <2>1. page' = page \/ \E n : page' = [page EXCEPT !.active = n]
    BY <1>17 DEF cefKeyPress
  <2>2. page'.channel = page.channel /\ page'.map = page.map
    BY <1>t, <2>1 DEF Fields, Blank
  <2> QED
    BY <1>17, <2>2, SoundScript, KeyNavigates DEF cefKeyPress
<1>18. CASE \E code \in PcCodes : PcKey(code)
  <2>1. /\ nav' = nav \/ \E url : Navigate(url)
        /\ UNCHANGED <<adding, channel, appUrls, scripts, page>>
    BY <1>18 DEF PcKey, InPage
  <2>2. nav' # Undefined => nav'.channel <= channel
    BY <1>n, <1>t, <2>1, NavigateChannel
  <2>3. Known' = Known
    BY <2>1 DEF Known
  <2> QED
    BY <2>1, <2>2, <2>3, SoundQuiet
<1>22. CASE PcKeyUp
  <2>1. UNCHANGED <<adding, channel, appUrls, scripts, nav, page>>
    BY <1>22 DEF PcKeyUp, ui
  <2>2. Known' = Known
    BY <2>1 DEF Known
  <2> QED
    BY <1>n, <2>1, <2>2, SoundQuiet
<1>19. CASE \E uri \in Uris : createApplication(uri)
  <2>1. UNCHANGED <<adding, channel, appUrls, scripts, nav, page>>
    BY <1>19 DEF createApplication, InPage
  <2>2. Known' = Known
    BY <2>1 DEF Known
  <2> QED
    BY <1>n, <2>1, <2>2, SoundQuiet
<1>20. CASE destroyApplication
  <2>1. /\ page' = [page EXCEPT !.alive = FALSE]
        /\ UNCHANGED <<adding, channel, appUrls, scripts, nav>>
    BY <1>20 DEF destroyApplication, InPage
  <2>2. page'.channel = page.channel /\ page'.map = page.map
    BY <1>t, <2>1 DEF Fields, Blank
  <2>3. Known' = Known
    BY <2>1 DEF Known
  <2> QED
    BY <1>n, <2>1, <2>2, <2>3, SoundQuiet
<1> QED
  BY <1>u, <1>1, <1>2, <1>3, <1>4, <1>5, <1>6, <1>7, <1>8, <1>9, <1>10, <1>11, <1>12, <1>13,
    <1>14, <1>15, <1>16, <1>17, <1>18, <1>19, <1>20, <1>21, <1>22 DEF Next, Control, Io, Ui, Renderer, Person

-----------------------------------------------------------------------------
\* At rest the page's map is what Promised and SoundInv say of it.
LEMMA MapAtRest ==
  ASSUME TypeOK, Promised, SoundInv, AtRest, ~twice, ~missed
  PROVE  /\ \A id \in DOMAIN appUrls : id \in DOMAIN page.map /\ page.map[id] = appUrls[id]
         /\ page.channel = channel => DOMAIN page.map \subseteq DOMAIN appUrls
<1>1. /\ adding = Undefined /\ scripts = <<>> /\ iter = Undefined /\ page.loaded
      /\ page.map # Undefined
  BY DEF AtRest, TypeOK, IsPage
<1>2. DOMAIN scripts = {} /\ ~PageAhead(scripts)
  BY <1>1 DEF PageAhead
<1>3. \A id \in DOMAIN appUrls : ToldIn(page.map, scripts, id, appUrls[id])
  BY <1>1, <1>2 DEF Promised
<1>4. page.channel = channel => DOMAIN page.map \subseteq DOMAIN appUrls
  BY <1>1 DEF SoundInv, Sound, Known
<1> QED
  BY <1>2, <1>3, <1>4 DEF ToldIn

\* An application that VDR registered starts from an address that writes its
\* number, and from a page of the channel an address of two digits starts no
\* other.
LEMMA StartsFrom ==
  ASSUME TypeOK, Promised, SoundInv, AtRest, ~twice, ~missed,
         NEW uri \in Uris, uri.rest # "dottedFragment"
  PROVE  LET to == newLocation(uri, page.map)
             ids == {id \in DOMAIN appUrls : Number(id) = Number(uri.id)}
         IN /\ \A id \in ids : to = [url |-> appUrls[id], rest |-> uri.rest]
            /\ (page.channel = channel /\ ids = {} /\ Number(uri.id) < 256) => to.url = Undefined
<1> DEFINE map == page.map
           to == newLocation(uri, map)
           ids == {id \in DOMAIN appUrls : Number(id) = Number(uri.id)}
<1>1. uri.id \in Seq(Hex) /\ uri.id # <<>>
  BY UrisAssumption DEF Hex, Capitals
<1>2. Ids \subseteq Capitals \X Capitals
  BY AppsAssumption DEF Ids, Capitals
<1>3. DOMAIN appUrls \subseteq Ids
  BY MapFacts DEF TypeOK
<1>4. ASSUME NEW id \in Ids
      PROVE  /\ Number(id) = Number(uri.id) => AppId(uri) = id
             /\ Number(uri.id) < 256 /\ AppId(uri) = id => Number(id) = Number(uri.id)
  BY <1>1, <1>2, SameNumber
<1>5. ASSUME NEW id \in ids
      PROVE  to = [url |-> appUrls[id], rest |-> uri.rest]
  <2>1. id \in DOMAIN appUrls /\ AppId(uri) = id
    BY <1>3, <1>4
  <2>2. id \in DOMAIN map /\ map[id] = appUrls[id]
    BY <2>1, MapAtRest
  <2> HIDE DEF map, ids
  <2> QED
    BY <2>1, <2>2 DEF newLocation
<1>6. ASSUME page.channel = channel, ids = {}, Number(uri.id) < 256
      PROVE  to.url = Undefined
  <2>1. AppId(uri) \notin DOMAIN map
    <3>1. SUFFICES ASSUME AppId(uri) \in DOMAIN map PROVE FALSE
      OBVIOUS
    <3>2. AppId(uri) \in DOMAIN appUrls
      BY <1>6, <3>1, MapAtRest
    <3>3. AppId(uri) \in Ids
      BY <1>3, <3>2
    <3>4. Number(AppId(uri)) = Number(uri.id)
      BY <1>4, <1>6, <3>3
    <3> QED
      BY <1>6, <3>2, <3>4
  <2> HIDE DEF map
  <2> QED
    BY <2>1 DEF newLocation
<1> QED
  BY <1>5, <1>6

\* Every application VDR registered for the channel can be started from the page
\* by its number, and from a page of this channel no other.
THEOREM ApplicationsStart == Spec => []AppsStart
<1>1. Init => Promised
  BY DEF Init, Promised, Blank
<1>2. TypeOK /\ Promised /\ SoundInv => AppsStart
  BY StartsFrom DEF AppsStart
<1> QED
  BY <1>1, <1>2, InitType, TypeStep, PromisedStep, SoundInit, SoundStep, PTL DEF Spec

-----------------------------------------------------------------------------
(***************************************************************************)
(* The focus.                                                              *)
(***************************************************************************)
Elements == Seq([tabIndex : Int, shown : BOOLEAN, takes : BOOLEAN])

Shown(links) == {i \in DOMAIN links : links[i].shown}

\* The place of an element in the order of the tabulator, and that order.
Rank(links, i) == 1 + Cardinality({j \in Shown(links) : Before(links, j, i)})
Order(links) == [n \in 1 .. Cardinality(Shown(links)) |-> CHOOSE i \in Shown(links) : Rank(links, i) = n]

\* The order of the tabulator is one: of two elements one comes first.
LEMMA BeforeOrder ==
  ASSUME NEW links \in Elements
  PROVE  /\ \A i \in DOMAIN links : ~Before(links, i, i)
         /\ \A i, j \in DOMAIN links : i # j => Before(links, i, j) \/ Before(links, j, i)
         /\ \A i, j, k \in DOMAIN links :
              Before(links, i, j) /\ Before(links, j, k) => Before(links, i, k)
<1>1. DOMAIN links = 1 .. Len(links) /\ Len(links) \in Nat
      /\ \A i \in DOMAIN links : links[i].tabIndex \in Int
  <2> DEFINE R == [tabIndex : Int, shown : BOOLEAN, takes : BOOLEAN]
  <2>1. links \in Seq(R)
    BY DEF Elements
  <2>2. \A r \in R : r.tabIndex \in Int
    OBVIOUS
  <2> HIDE DEF R
  <2> QED
    BY <2>1, <2>2
<1>2. \A i \in DOMAIN links : i \in Int
  BY <1>1
<1> QED
  BY <1>1, <1>2 DEF Before

\* The ranks are the numbers from 1 to that of the elements that are shown, each
\* of one element.
LEMMA OrderOf ==
  ASSUME NEW links \in Elements
  PROVE  /\ Cardinality(Shown(links)) \in Nat /\ Cardinality(Shown(links)) <= Len(links)
         /\ Order(links) \in [1 .. Cardinality(Shown(links)) -> Shown(links)]
         /\ \A i \in Shown(links) :
              Rank(links, i) \in 1 .. Cardinality(Shown(links)) /\ Order(links)[Rank(links, i)] = i
         /\ \A n \in 1 .. Cardinality(Shown(links)) : Rank(links, Order(links)[n]) = n
<1> DEFINE S == Shown(links)
           k == Cardinality(S)
           Ahead(i) == {j \in S : Before(links, j, i)}
           rank == [i \in S |-> Rank(links, i)]
<1>1. S \in SUBSET (1 .. Len(links)) /\ Len(links) \in Nat /\ S \subseteq DOMAIN links
  BY DEF Elements, Shown
<1>2. IsFiniteSet(S) /\ k <= Len(links)
  <2>1. IsFiniteSet(1 .. Len(links)) /\ Cardinality(1 .. Len(links)) = Len(links)
    <3>1. \A n \in Nat : IsFiniteSet(1 .. n) /\ Cardinality(1 .. n) = n
      BY FS_Interval
    <3> QED
      BY <1>1, <3>1
  <2> HIDE DEF S
  <2> QED
    BY <1>1, <2>1, FS_Subset
<1>3. k \in Nat
  BY <1>2, FS_CardinalityType
<1> HIDE DEF S
<1>4. ASSUME NEW i \in S
      PROVE  Ahead(i) \in SUBSET S /\ IsFiniteSet(Ahead(i)) /\ Cardinality(Ahead(i)) \in Nat
             /\ Cardinality(Ahead(i)) < k /\ Rank(links, i) = 1 + Cardinality(Ahead(i))
  <2>1. Ahead(i) \in SUBSET S /\ i \notin Ahead(i)
    BY <1>1, BeforeOrder
  <2>2. Rank(links, i) = 1 + Cardinality(Ahead(i))
    BY DEF Rank, S
  <2> HIDE DEF Ahead
  <2>3. /\ IsFiniteSet(Ahead(i)) /\ Cardinality(Ahead(i)) <= k
        /\ k = Cardinality(Ahead(i)) => S = Ahead(i)
    BY <1>2, <2>1, FS_Subset
  <2>4. Cardinality(Ahead(i)) \in Nat
    BY <2>3, FS_CardinalityType
  <2> QED
    BY <1>3, <2>1, <2>2, <2>3, <2>4
<1>5. ASSUME NEW i \in S, NEW j \in S, Before(links, i, j)
      PROVE  Cardinality(Ahead(i)) < Cardinality(Ahead(j))
  <2>1. Ahead(i) \subseteq Ahead(j) /\ i \in Ahead(j) /\ i \notin Ahead(i)
    BY <1>1, <1>5, BeforeOrder
  <2>2. IsFiniteSet(Ahead(j)) /\ Cardinality(Ahead(i)) \in Nat /\ Cardinality(Ahead(j)) \in Nat
    BY <1>4
  <2> HIDE DEF Ahead
  <2>3. /\ Cardinality(Ahead(i)) <= Cardinality(Ahead(j))
        /\ Cardinality(Ahead(j)) = Cardinality(Ahead(i)) => Ahead(j) = Ahead(i)
    BY <2>1, <2>2, FS_Subset
  <2> QED
    BY <2>1, <2>2, <2>3
<1> HIDE DEF Ahead
<1>6. ASSUME NEW i \in S, NEW j \in S, Rank(links, i) = Rank(links, j)
      PROVE  i = j
  <2>1. Cardinality(Ahead(i)) = Cardinality(Ahead(j))
    BY <1>4, <1>6
  <2>2. ~Before(links, i, j) /\ ~Before(links, j, i)
    BY <1>4, <1>5, <2>1
  <2> QED
    BY <1>1, <2>2, BeforeOrder
<1>7. \A i \in S : Rank(links, i) \in 1 .. k
  BY <1>3, <1>4
<1> HIDE DEF k
<1>8. rank \in Injection(S, 1 .. k)
  <2>1. rank \in [S -> 1 .. k] /\ \A i \in S : rank[i] = Rank(links, i)
    BY <1>7
  <2> HIDE DEF rank
  <2>2. \A i, j \in S : rank[i] = rank[j] => i = j
    BY <1>6, <2>1
  <2> QED
    BY <2>1, <2>2 DEF Injection, IsInjective
<1>9. IsFiniteSet(1 .. k) /\ Cardinality(1 .. k) = k
  BY <1>3, FS_Interval
<1>10. rank \in Surjection(S, 1 .. k)
  <2> HIDE DEF rank
  <2>1. Cardinality(S) = Cardinality(1 .. k)
    BY <1>9 DEF k
  <2> QED
    BY <1>8, <1>9, <2>1, FS_Injection
<1>11. \A n \in 1 .. k : \E i \in S : Rank(links, i) = n
  BY <1>10 DEF Surjection
<1>12. Order(links) = [n \in 1 .. k |-> CHOOSE i \in S : Rank(links, i) = n]
  BY DEF Order, k, S
<1>13. \A n \in 1 .. k : Order(links)[n] \in S /\ Rank(links, Order(links)[n]) = n
  BY <1>11, <1>12
<1>14. Order(links) \in [1 .. k -> S]
  BY <1>12, <1>13
<1>15. \A i \in S : Order(links)[Rank(links, i)] = i
  BY <1>6, <1>7, <1>13
<1> QED
  BY <1>2, <1>3, <1>7, <1>13, <1>14, <1>15 DEF k, S

\* The element that has the focus is one that is shown, or none has.
Focus(links) == {0} \cup Shown(links)

\* Wherever the focus is, what findNextFocusableElement looks at is that order.
LEMMA FocusableIs ==
  ASSUME NEW links \in Elements, NEW a \in Focus(links)
  PROVE  Focusable(links, a) = Order(links)
<1>1. QueryResult(links, a) = Shown(links)
  BY DEF QueryResult, Focus, Shown, Elements
<1> QED
  BY <1>1 DEF Focusable, Order, Rank

\* The place of the focus in it, 0 when no element has it.
At(links, a) == IF a = 0 THEN 0 ELSE Rank(links, a)

\* The element an arrow goes to: the next or the one before, and the way round.
LEMMA NextIs ==
  ASSUME NEW links \in Elements, NEW a \in Focus(links), NEW reverse
  PROVE  LET k == Cardinality(Shown(links))
             to == IF reverse THEN At(links, a) - 1 ELSE At(links, a) + 1
             next == findNextFocusableElement(links, reverse, a)
         IN  /\ k = 0 => next = Undefined
             /\ k # 0 /\ to \in 1 .. k => next = Order(links)[to]
             /\ k # 0 /\ to \notin 1 .. k => next = Order(links)[IF reverse THEN k ELSE 1]
<1> DEFINE S == Shown(links)
           k == Cardinality(S)
           F == Focusable(links, a)
           at == CHOOSE i \in 0 .. Len(F) : IF a \in Range(F) THEN i > 0 /\ F[i] = a ELSE i = 0
           to == IF reverse THEN at - 1 ELSE at + 1
<1>1. /\ k \in Nat /\ F \in [1 .. k -> S]
      /\ \A i \in S : Rank(links, i) \in 1 .. k /\ F[Rank(links, i)] = i
      /\ \A n \in 1 .. k : Rank(links, F[n]) = n
  <2>1. F = Order(links)
    BY FocusableIs
  <2> HIDE DEF F
  <2> QED
    BY <2>1, OrderOf
<1>2. 0 \notin S
  BY DEF Shown, Elements
<1>3. findNextFocusableElement(links, reverse, a) =
        CASE F = <<>> -> Undefined
          [] to \in DOMAIN F -> F[to]
          [] OTHER -> IF reverse THEN Last(F) ELSE Head(F)
  BY DEF findNextFocusableElement
<1> HIDE DEF S, k, F, at
<1>4. F \in Seq(S) /\ Len(F) = k /\ DOMAIN F = 1 .. k
  BY <1>1
<1>5. Range(F) = S
  BY <1>1, <1>4 DEF Range
<1>6. at = At(links, a)
  <2>1. CASE a = 0
    <3>1. a \notin Range(F)
      BY <1>2, <1>5, <2>1
    <3>2. 0 \in 0 .. Len(F)
      BY <1>1, <1>4
    <3> QED
      BY <2>1, <3>1, <3>2 DEF at, At
  <2>2. CASE a # 0
    <3>1. a \in S /\ a \in Range(F)
      BY <1>5, <2>2 DEF Focus, S
    <3>2. Rank(links, a) \in 1 .. k /\ F[Rank(links, a)] = a
      BY <1>1, <3>1
    <3>3. Rank(links, a) \in 0 .. Len(F) /\ Rank(links, a) > 0
      BY <1>1, <1>4, <3>2
    <3>4. \A i \in 0 .. Len(F) : i > 0 /\ F[i] = a => i = Rank(links, a)
      BY <1>1, <1>4
    <3>5. at \in 0 .. Len(F) /\ at > 0 /\ F[at] = a
      BY <3>1, <3>2, <3>3 DEF at
    <3> QED
      BY <2>2, <3>4, <3>5 DEF At
  <2> QED
    BY <2>1, <2>2
<1>7. k = 0 => F = <<>>
  BY <1>4
<1>8. k # 0 => F # <<>> /\ Head(F) = F[1] /\ Last(F) = F[k]
  <2>1. SUFFICES ASSUME k # 0
                 PROVE  F # <<>> /\ Head(F) = F[1] /\ Last(F) = F[k]
    OBVIOUS
  <2>2. F # <<>>
    BY <1>1, <1>4, <2>1
  <2> QED
    BY <1>4, <2>2 DEF Last
<1>9. /\ k = 0 => findNextFocusableElement(links, reverse, a) = Undefined
      /\ k # 0 /\ to \in 1 .. k => findNextFocusableElement(links, reverse, a) = F[to]
      /\ k # 0 /\ to \notin 1 .. k =>
           findNextFocusableElement(links, reverse, a) = F[IF reverse THEN k ELSE 1]
  <2> HIDE DEF to
  <2> QED
    BY <1>3, <1>4, <1>7, <1>8
<1> QED
  BY <1>6, <1>9, FocusableIs DEF k, S, F

\* An arrow goes to an element that is shown.
LEMMA NextShown ==
  ASSUME NEW links \in Elements, NEW a \in Focus(links), NEW reverse,
         findNextFocusableElement(links, reverse, a) # Undefined
  PROVE  findNextFocusableElement(links, reverse, a) \in Shown(links)
<1> DEFINE k == Cardinality(Shown(links))
<1>1. k \in Nat /\ Order(links) \in [1 .. k -> Shown(links)]
  BY OrderOf
<1>2. k # 0 => 1 \in 1 .. k /\ k \in 1 .. k
  BY <1>1
<1>3. \A n \in 1 .. k : Order(links)[n] \in Shown(links)
  BY <1>1
<1>4. LET to == IF reverse THEN At(links, a) - 1 ELSE At(links, a) + 1
          next == findNextFocusableElement(links, reverse, a)
      IN  /\ k = 0 => next = Undefined
          /\ k # 0 /\ to \in 1 .. k => next = Order(links)[to]
          /\ k # 0 /\ to \notin 1 .. k => next = Order(links)[IF reverse THEN k ELSE 1]
  BY NextIs
<1> HIDE DEF k
<1> QED
  BY <1>2, <1>3, <1>4

\* DOWN goes one place on, and from the last element to the first; UP goes back.
LEMMA DownUp ==
  ASSUME NEW links \in Elements, NEW m \in 1 .. Cardinality(Shown(links))
  PROVE  LET k == Cardinality(Shown(links))
             next == findNextFocusableElement(links, FALSE, Order(links)[m])
         IN  /\ next = Order(links)[IF m = k THEN 1 ELSE m + 1]
             /\ findNextFocusableElement(links, TRUE, next) = Order(links)[m]
<1> DEFINE k == Cardinality(Shown(links))
           F == Order(links)
<1>1. /\ k \in Nat /\ \A n \in 1 .. k : F[n] \in Shown(links) /\ Rank(links, F[n]) = n
      /\ 0 \notin Shown(links)
  BY OrderOf DEF Shown, Elements
<1>2. ASSUME NEW n \in 1 .. k
      PROVE  F[n] \in Focus(links) /\ At(links, F[n]) = n
  BY <1>1 DEF Focus, At
<1>3. ASSUME NEW n \in 1 .. k
      PROVE  /\ findNextFocusableElement(links, FALSE, F[n]) = F[IF n = k THEN 1 ELSE n + 1]
             /\ findNextFocusableElement(links, TRUE, F[n]) = F[IF n = 1 THEN k ELSE n - 1]
  <2>1. n \in 1 .. k /\ k # 0
    BY <1>1
  <2>2. /\ n + 1 \in 1 .. k => findNextFocusableElement(links, FALSE, F[n]) = F[n + 1]
        /\ n + 1 \notin 1 .. k => findNextFocusableElement(links, FALSE, F[n]) = F[1]
    BY <1>2, <2>1, NextIs
  <2>3. /\ n - 1 \in 1 .. k => findNextFocusableElement(links, TRUE, F[n]) = F[n - 1]
        /\ n - 1 \notin 1 .. k => findNextFocusableElement(links, TRUE, F[n]) = F[k]
    BY <1>2, <2>1, NextIs
  <2> HIDE DEF k, F
  <2>4. CASE n = k
    <3>1. n + 1 \notin 1 .. k /\ (n # 1 => n - 1 \in 1 .. k) /\ (n = 1 => n - 1 \notin 1 .. k)
      BY <1>1, <2>1, <2>4
    <3> QED
      BY <2>2, <2>3, <2>4, <3>1
  <2>5. CASE n # k
    <3>1. n + 1 \in 1 .. k /\ (n # 1 => n - 1 \in 1 .. k) /\ (n = 1 => n - 1 \notin 1 .. k)
      BY <1>1, <2>1, <2>5
    <3> QED
      BY <2>2, <2>3, <2>5, <3>1
  <2> QED
    BY <2>4, <2>5
<1>4. m \in 1 .. k
  OBVIOUS
<1> HIDE DEF k, F
<1>5. findNextFocusableElement(links, FALSE, F[m]) = F[IF m = k THEN 1 ELSE m + 1]
  BY <1>3, <1>4
<1>6. findNextFocusableElement(links, TRUE, F[IF m = k THEN 1 ELSE m + 1]) = F[m]
  <2>1. CASE m = k
    <3>1. 1 \in 1 .. k
      BY <1>1, <1>4
    <3> QED
      BY <1>3, <2>1, <3>1
  <2>2. CASE m # k
    <3>1. m + 1 \in 1 .. k /\ m + 1 # 1 /\ (m + 1) - 1 = m
      BY <1>1, <1>4, <2>2
    <3> QED
      BY <1>3, <2>2, <3>1
  <2> QED
    BY <2>1, <2>2
<1> QED
  BY <1>5, <1>6 DEF k, F

\* The focus after n presses of DOWN, as FocusReaches counts them.
Presses(f, links, a, N) ==
  f = [n \in 0 .. N |-> IF n = 0 THEN a ELSE findNextFocusableElement(links, FALSE, f[n - 1])]

\* There is such a function, for any number of presses.
LEMMA Pressing ==
  ASSUME NEW links, NEW a, NEW N \in Nat
  PROVE  \E f : Presses(f, links, a, N)
<1> DEFINE Next1(i) == findNextFocusableElement(links, FALSE, i)
           T == {n \in Nat : ~ \E f : Presses(f, links, a, n)}
<1>0. \A f, n : Presses(f, links, a, n) <=> f = [i \in 0 .. n |-> IF i = 0 THEN a ELSE Next1(f[i - 1])]
  BY DEF Presses
<1> HIDE DEF Next1
<1>1. SUFFICES ASSUME T # {}
               PROVE  FALSE
  OBVIOUS
<1>2. PICK n \in T : \A k \in T : n <= k
  BY <1>1, LeastNatural
<1>3. CASE n = 0
  <2> DEFINE f == [i \in 0 .. 0 |-> a]
  <2>1. f = [i \in 0 .. 0 |-> IF i = 0 THEN a ELSE Next1(f[i - 1])]
    OBVIOUS
  <2> QED
    BY <1>0, <1>3, <2>1
<1>4. CASE n # 0
  <2>1. n \in Nat /\ n - 1 \in Nat /\ n - 1 < n
    BY <1>4
  <2>2. n - 1 \notin T
    <3> HIDE DEF T
    <3> QED
      BY <1>2, <2>1
  <2>3. PICK f : Presses(f, links, a, n - 1)
    BY <2>1, <2>2
  <2> DEFINE g == [i \in 0 .. n |-> IF i = 0 THEN a ELSE Next1(f[i - 1])]
  <2>4. ASSUME NEW i \in 0 .. n - 1
        PROVE  g[i] = f[i]
    <3>1. i \in 0 .. n
      BY <2>1
    <3>2. f[i] = IF i = 0 THEN a ELSE Next1(f[i - 1])
      BY <1>0, <2>3
    <3> QED
      BY <3>1, <3>2
  <2>5. ASSUME NEW i \in 0 .. n
        PROVE  (IF i = 0 THEN a ELSE Next1(f[i - 1])) = (IF i = 0 THEN a ELSE Next1(g[i - 1]))
    <3>1. CASE i = 0
      BY <3>1
    <3>2. CASE i # 0
      <4>1. i - 1 \in 0 .. n - 1
        BY <3>2
      <4>2. g[i - 1] = f[i - 1]
        BY <2>4, <4>1
      <4> QED
        BY <3>2, <4>2
    <3> QED
      BY <3>1, <3>2
  <2>6. Presses(g, links, a, n)
    BY <1>0, <2>5
  <2> QED
    BY <2>6
<1> QED
  BY <1>3, <1>4

\* As many presses as there are links reach every element that is shown.
LEMMA AllReached ==
  ASSUME NEW links \in Elements, NEW a \in Focus(links), NEW f, Presses(f, links, a, Len(links))
  PROVE  Shown(links) \subseteq {f[n] : n \in 0 .. Len(links)}
<1> DEFINE k == Cardinality(Shown(links))
           F == Order(links)
           L == Len(links)
           m == At(links, a)
           Spot(n) == IF m + n > k THEN m + n - k ELSE m + n
<1>1. /\ k \in Nat /\ k <= L /\ L \in Nat
      /\ \A i \in Shown(links) : Rank(links, i) \in 1 .. k /\ F[Rank(links, i)] = i
  BY OrderOf DEF Elements
<1>2. m \in 0 .. k /\ (m # 0 => a = F[m]) /\ (m = 0 => a = 0)
  <2>1. CASE a = 0
    BY <1>1, <2>1 DEF At
  <2>2. CASE a # 0
    <3>1. a \in Shown(links)
      BY <2>2 DEF Focus
    <3> QED
      BY <1>1, <2>2, <3>1 DEF At
  <2> QED
    BY <2>1, <2>2
<1>3. /\ f[0] = a
      /\ \A n \in 1 .. L : f[n] = findNextFocusableElement(links, FALSE, f[n - 1])
  BY <1>1 DEF Presses
<1>4. \A n \in 1 .. k : findNextFocusableElement(links, FALSE, F[n]) = F[IF n = k THEN 1 ELSE n + 1]
  BY DownUp
<1>5. a = 0 /\ k # 0 => findNextFocusableElement(links, FALSE, a) = F[1]
  <2>1. /\ k # 0 /\ m + 1 \in 1 .. k => findNextFocusableElement(links, FALSE, a) = F[m + 1]
        /\ k # 0 /\ m + 1 \notin 1 .. k => findNextFocusableElement(links, FALSE, a) = F[1]
    BY NextIs
  <2>2. a = 0 => m + 1 = 1
    BY DEF At
  <2> HIDE DEF m
  <2> QED
    BY <2>1, <2>2
<1> HIDE DEF k, F, L, m
<1>6. \A n \in 0 .. k : (n = 0 /\ m = 0) \/ f[n] = F[Spot(n)]
  <2> DEFINE T == {n \in 0 .. k : ~((n = 0 /\ m = 0) \/ f[n] = F[Spot(n)])}
  <2>1. SUFFICES ASSUME T # {} PROVE FALSE
    OBVIOUS
  <2>2. T \subseteq Nat /\ \A n \in 0 .. k : n \notin T => (n = 0 /\ m = 0) \/ f[n] = F[Spot(n)]
    BY <1>1
  <2>3. \A n \in T : n \in 0 .. k /\ ~(n = 0 /\ m = 0) /\ f[n] # F[Spot(n)]
    OBVIOUS
  <2> HIDE DEF T
  <2>4. PICK n \in T : \A j \in T : n <= j
    BY <2>1, <2>2, LeastNatural
  <2>5. n \in 0 .. k /\ ~(n = 0 /\ m = 0) /\ f[n] # F[Spot(n)]
    BY <2>3, <2>4
  <2>6. n # 0
    <3>1. SUFFICES ASSUME n = 0 PROVE FALSE
      OBVIOUS
    <3>2. m # 0 /\ Spot(0) = m
      BY <1>1, <1>2, <2>5, <3>1
    <3> QED
      BY <1>2, <1>3, <2>5, <3>1, <3>2
  <2>7. n \in 1 .. L /\ n \in 1 .. k /\ n - 1 \in 0 .. k /\ n - 1 < n
    BY <1>1, <2>5, <2>6
  <2>8. n - 1 \notin T
    BY <2>4, <2>7
  <2>9. (n - 1 = 0 /\ m = 0) \/ f[n - 1] = F[Spot(n - 1)]
    BY <2>2, <2>7, <2>8
  <2>10. CASE n - 1 = 0 /\ m = 0
    <3>1. f[n] = F[1]
      <4>1. n = 1 /\ k # 0 /\ a = 0
        BY <1>1, <1>2, <2>7, <2>10
      <4> QED
        BY <1>3, <1>5, <2>7, <2>10, <4>1
    <3>2. Spot(n) = 1
      BY <1>1, <2>7, <2>10
    <3> QED
      BY <2>5, <3>1, <3>2
  <2>11. CASE ~(n - 1 = 0 /\ m = 0)
    <3>1. Spot(n - 1) \in 1 .. k
      BY <1>1, <1>2, <2>7, <2>11
    <3>2. Spot(n) = IF Spot(n - 1) = k THEN 1 ELSE Spot(n - 1) + 1
      BY <1>1, <1>2, <2>7, <2>11
    <3>3. f[n] = findNextFocusableElement(links, FALSE, F[Spot(n - 1)])
      BY <1>3, <2>7, <2>9, <2>11
    <3> HIDE DEF Spot
    <3>4. f[n] = F[Spot(n)]
      BY <1>4, <3>1, <3>2, <3>3
    <3> QED
      BY <2>5, <3>4
  <2> QED
    BY <2>10, <2>11
<1>7. ASSUME NEW i \in Shown(links)
      PROVE  \E n \in 0 .. L : f[n] = i
  <2> DEFINE p == Rank(links, i)
             n == IF p >= m /\ ~(p = m /\ m = 0) THEN p - m ELSE p - m + k
  <2>1. p \in 1 .. k /\ F[p] = i
    BY <1>1
  <2> HIDE DEF p
  <2>2. n \in 0 .. k /\ n \in 0 .. L /\ ~(n = 0 /\ m = 0) /\ Spot(n) = p
    BY <1>1, <1>2, <2>1
  <2> HIDE DEF n, Spot
  <2>3. f[n] = F[Spot(n)]
    BY <1>6, <2>2
  <2> QED
    BY <2>1, <2>2, <2>3
<1> QED
  BY <1>7 DEF L

\* The focus of a page is on an element of it that is shown, or on none.
FocusInv == page.url \in Urls => page.active \in Focus(Links[page.url])

\* A page that is still there, with the focus where it was, and a new one.
LEMMA FocusQuiet ==
  ASSUME FocusInv, page'.url = page.url, page'.active = page.active \/ page'.active = 0
  PROVE  FocusInv'
BY DEF FocusInv, Focus

\* The initial states satisfy it.
LEMMA FocusInit == Init => FocusInv
BY DEF Init, FocusInv, Focus, Blank

\* Each action keeps it.
LEMMA FocusStep == TypeOK /\ FocusInv /\ [Next]_vars => FocusInv'
<1> SUFFICES ASSUME TypeOK, FocusInv, [Next]_vars PROVE FocusInv'
  OBVIOUS
<1>t. DOMAIN page = Fields
  BY DEF TypeOK, IsPage
<1>1. CASE page' = page
  BY <1>1, FocusQuiet
<1>2. CASE NewDocument
  <2>1. page'.active = 0
    BY <1>2 DEF NewDocument, Blank
  <2> QED
    BY <2>1 DEF FocusInv, Focus
<1>3. CASE cefKeyPress
  <2> DEFINE name == Head(scripts).name
             next == findNextFocusableElement(Links[page.url], Arrows[name], page.active)
  <2>1. \/ page' = page
        \/ /\ page' = [page EXCEPT !.active = next] /\ next # Undefined
           /\ page.url \in Tagesschau /\ name \in DOMAIN Arrows
    BY <1>3 DEF cefKeyPress
  <2>2. CASE page' = page
    BY <2>2, FocusQuiet
  <2>3. CASE page' # page
    <3>1. page.url \in Urls /\ Links[page.url] \in Elements
      BY <2>1, <2>3, PagesAssumption DEF Elements
    <3>3. page.active \in Focus(Links[page.url])
      BY <3>1 DEF FocusInv
    <3>4. next \in Shown(Links[page.url])
      BY <2>1, <2>3, <3>1, <3>3, NextShown
    <3> HIDE DEF next
    <3>5. page'.url = page.url /\ page'.active = next
      BY <1>t, <2>1, <2>3 DEF Fields, Blank
    <3> QED
      BY <3>4, <3>5 DEF FocusInv, Focus
  <2> QED
    BY <2>2, <2>3
<1>4. ASSUME page'.url = page.url, page'.active = page.active
      PROVE  FocusInv'
  BY <1>4, FocusQuiet
<1>5. CASE HeadParsed
  <2>1. page'.url = page.url /\ page'.active = page.active
    BY <1>5, <1>t DEF HeadParsed, Fields, Blank
  <2> QED
    BY <2>1, <1>4
<1>6. CASE DOMContentLoaded
  <2>1. page'.url = page.url /\ page'.active = page.active
    BY <1>6, <1>t DEF DOMContentLoaded, Fields, Blank
  <2> QED
    BY <2>1, <1>4
<1>7. CASE OnLoadEnd
  <2>1. page'.url = page.url /\ page'.active = page.active
    BY <1>7, <1>t DEF OnLoadEnd, Fields, Blank
  <2> QED
    BY <2>1, <1>4
<1>8. CASE SetAppUrl
  <2>1. page' = page \/ \E map : page' = [page EXCEPT !.map = map]
    BY <1>8 DEF SetAppUrl
  <2>2. page'.url = page.url /\ page'.active = page.active
    BY <2>1, <1>t DEF Fields, Blank
  <2> QED
    BY <2>2, <1>4
<1>9. CASE SetFont
  <2>1. page'.url = page.url /\ page'.active = page.active
    BY <1>9, <1>t DEF SetFont, Fields, Blank
  <2> QED
    BY <2>1, <1>4
<1>10. CASE destroyApplication
  <2>1. page'.url = page.url /\ page'.active = page.active
    BY <1>10, <1>t DEF destroyApplication, Fields, Blank
  <2> QED
    BY <2>1, <1>4
<1>11. CASE \/ Control \/ Io \/ PcKeyUp \/ Commit \/ InjectAppUrl \/ LoadEndDone \/ OnQuery
            \/ \E code \in PcCodes : PcKey(code)
            \/ \E uri \in Uris : createApplication(uri)
            \/ UNCHANGED vars
  <2>1. page' = page
    BY <1>11 DEF Control, Io, PcKeyUp, HandleChannel, AddAppUrl, HandleAppUrl, sendKeyEvent, HandleUrl, ui,
         GetResourceRequestHandler, ProcessRequest, Commit, InjectAppUrl, LoadEndDone, OnQuery,
         PcKey, createApplication, vars
  <2> QED
    BY <1>1, <2>1
<1> QED
  BY <1>2, <1>3, <1>5, <1>6, <1>7, <1>8, <1>9, <1>10, <1>11 DEF Next, Ui, Renderer, Person

\* Every link that is shown is reached, and a step taken back.
LEMMA Reaches ==
  ASSUME NEW links \in Elements, NEW a \in Focus(links)
  PROVE  LET Next1(i) == findNextFocusableElement(links, FALSE, i)
             after[n \in 0 .. Len(links)] == IF n = 0 THEN a ELSE Next1(after[n - 1])
             shown == {i \in DOMAIN links : links[i].shown}
         IN /\ shown \subseteq {after[n] : n \in DOMAIN after}
            /\ \A i \in shown : findNextFocusableElement(links, TRUE, Next1(i)) = i
<1> DEFINE f == CHOOSE g : Presses(g, links, a, Len(links))
<1>1. Len(links) \in Nat
  BY DEF Elements
<1>2. Presses(f, links, a, Len(links))
  BY <1>1, Pressing
<1>3. Shown(links) \subseteq {f[n] : n \in DOMAIN f}
  <2> HIDE DEF f
  <2>1. DOMAIN f = 0 .. Len(links)
    BY <1>2 DEF Presses
  <2> QED
    BY <1>2, <2>1, AllReached
<1>4. ASSUME NEW i \in Shown(links)
      PROVE  findNextFocusableElement(links, TRUE, findNextFocusableElement(links, FALSE, i)) = i
  <2>1. Rank(links, i) \in 1 .. Cardinality(Shown(links)) /\ Order(links)[Rank(links, i)] = i
    BY OrderOf
  <2> QED
    BY <2>1, DownUp
<1> QED
  BY <1>3, <1>4 DEF Presses, Shown

\* On a page whose focus is moved for it DOWN reaches every link that is shown, in
\* as many presses as there are links, and UP takes each step back.
THEOREM FocusMoves == Spec => []FocusReaches
<1>1. TypeOK /\ FocusInv => FocusReaches
  <2>1. SUFFICES ASSUME FocusInv, page.url \in Tagesschau PROVE FocusReaches
    BY DEF FocusReaches
  <2>2. Links[page.url] \in Elements /\ page.active \in Focus(Links[page.url])
    BY <2>1, PagesAssumption DEF FocusInv, Elements
  <2> QED
    BY <2>2, Reaches DEF FocusReaches
<1> QED
  BY <1>1, InitType, TypeStep, FocusInit, FocusStep, PTL DEF Spec
=============================================================================
