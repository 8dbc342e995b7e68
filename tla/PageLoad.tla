------------------------------ MODULE PageLoad ------------------------------
(***************************************************************************)
(* How a navigation is answered (browserclient.cpp).  CEF's IO thread asks *)
(* BrowserClient whether a URL is blocked, whether it is an HbbTV page,    *)
(* and, if it is, for the page itself, which BrowserClient has fetched     *)
(* with curl and provided with scripts.  The callbacks of several requests *)
(* (main page, frames, the next page) interleave on the one IO thread.  Two*)
(* of them wait for a transfer, which has no time limit; the thread serves *)
(* nobody meanwhile.  The requests share                                   *)
(*   - what the last transfer left in HbbtvCurl (curl), and                *)
(*   - the one response of BrowserClient (client) and its one offset.      *)
(* The test whether a page is an HbbTV page is itself a transfer.          *)
(***************************************************************************)
EXTENDS Naturals, Sequences, FiniteSets, SequencesExt

CONSTANTS
  Urls,         \* the URLs the page, its frames or VDR navigate to
  NoUrl,        \* no content, no redirect: the empty string
  Redirects,    \* the redirects the servers answer: a function on some of Urls
  HbbtvPages,   \* those whose page has HbbTV objects (the three expressions)
  TypedUrls,    \* those judged by a response header as well (pro7.gofresh.tv)
  KnownTypes,   \* those that end in .js, .css, .jpg, ...
  Blocked,      \* those that contain a pattern of block_url.config
  Size,         \* a page is this many pieces long
  Requests,     \* requests CEF has open at a time
  MaxLoads,     \* bound: navigations
  MaxFailures   \* bound: transfers that fail

ASSUME UrlAssumption ==
  /\ NoUrl \notin Urls
  /\ HbbtvPages \subseteq Urls /\ TypedUrls \subseteq Urls
  /\ KnownTypes \subseteq Urls /\ Blocked \subseteq Urls
ASSUME FiniteAssumption == IsFiniteSet(Urls)
ASSUME SizeAssumption == Size \in Nat \ {0}
ASSUME BoundAssumption == MaxLoads \in Nat /\ MaxFailures \in Nat

\* curl gives up on a chain of redirects that does not end.
ASSUME RedirectAssumption ==
  /\ DOMAIN Redirects \subseteq Urls
  /\ \E rank \in [Urls -> 0 .. Cardinality(Urls)] :
       \A u \in DOMAIN Redirects : Redirects[u] \in Urls /\ rank[Redirects[u]] < rank[u]

VARIABLES
  mode,      \* BrowserClient::mode: "html" or "hbbtv"
  curl,      \* HbbtvCurl: response_content and redirect_url
  client,    \* BrowserClient: responseContent and redirectUrl
  offset,    \* BrowserClient: the pieces of responseContent given away
  cache,     \* cacheContentType: its keys; only HbbTV types are entered
  pc, url,   \* each request: the callback due or, "typing" and "fetching", the
             \* one whose transfer goes on; and its current URL
  got,       \* the pieces CEF has got for it, as long as it is not spoiled
  spoiled,   \* history: requests whose response met another one, or failed
  loads, failures

reqVars == <<pc, url, got>>
vars == <<mode, curl, client, offset, cache, reqVars, spoiled, loads, failures>>

Closed   == {"idle", "loaded", "loadedByCef"}
Response == [content : Urls \cup {NoUrl}, redirect : Urls \cup {NoUrl}]

\* The page at a URL, and the one at the end of its redirects.
Text(u) == IF u = NoUrl THEN <<>> ELSE [i \in 1 .. Size |-> <<u, i>>]
Target(u) == IF u \in DOMAIN Redirects THEN Redirects[u] ELSE NoUrl
Final[u \in Urls] == IF Target(u) = NoUrl THEN u ELSE Final[Target(u)]

\* curl_easy_perform does not hold the IO thread.
IoFree == \A r \in Requests : pc[r] \notin {"typing", "fetching"}

\* The requests the one response of BrowserClient belongs to.
Sharing == {r \in Requests : pc[r] \in {"processed", "reading"}}

Init ==
  /\ mode = "html"
  /\ curl = [content |-> NoUrl, redirect |-> NoUrl]
  /\ client = [content |-> NoUrl, redirect |-> NoUrl]
  /\ offset = 0
  /\ cache = {}
  /\ pc = [r \in Requests |-> "idle"]
  /\ url = [r \in Requests |-> NoUrl]
  /\ got = [r \in Requests |-> <<>>]
  /\ spoiled = {} /\ loads = 0 /\ failures = 0

Goto(r, p) == pc' = [pc EXCEPT ![r] = p]

\* CEF forgets a request that was cancelled.
Drop(r) == /\ Goto(r, "idle")
           /\ url' = [url EXCEPT ![r] = NoUrl]
           /\ got' = [got EXCEPT ![r] = <<>>]
           /\ spoiled' = spoiled \ {r}

-----------------------------------------------------------------------------
(***************************************************************************)
(* HbbtvCurl.                                                              *)
(***************************************************************************)
\* Mutant of LoadUrl: redirect_url is not reset when there is none.
KeepRedirect(u, follow, ok) ==
  CASE ~ok                   -> curl
    [] ok /\ follow          -> [curl EXCEPT !.content = Final[u]]
    [] Target(u) = NoUrl      -> [curl EXCEPT !.content = u]
    [] OTHER                 -> [content |-> u, redirect |-> Target(u)]

\* What LoadUrl leaves: a transfer that fails changes nothing.
LoadUrl(u, follow, ok) ==
  CASE ~ok          -> curl
    [] ok /\ follow -> [content |-> Final[u], redirect |-> NoUrl]
    [] OTHER        -> [content |-> u, redirect |-> Target(u)]

\* ReadContentType follows redirects, forgets the redirect, and judges what
\* response_content holds, whichever transfer that is from.
ReadContentType(u, ok) == [LoadUrl(u, TRUE, ok) EXCEPT !.redirect = NoUrl]

Transfer(ok) == /\ ok \/ failures < MaxFailures
                /\ failures' = IF ok THEN failures ELSE failures + 1

-----------------------------------------------------------------------------
(***************************************************************************)
(* The callbacks, in the order CEF makes them for a request.               *)
(***************************************************************************)
\* A navigation begins; GetResourceRequestHandler answers with "this".
GetResourceRequestHandler(r, u) ==
  /\ IoFree /\ pc[r] \in Closed /\ loads < MaxLoads
  /\ Goto(r, "asked")
  /\ url' = [url EXCEPT ![r] = u]
  /\ got' = [got EXCEPT ![r] = <<>>]
  /\ spoiled' = spoiled \ {r}
  /\ loads' = loads + 1
  /\ UNCHANGED <<mode, curl, client, offset, cache, failures>>

\* Mutant of OnBeforeResourceLoad: the block list is not looked at.
AllowAll(r) ==
  /\ IoFree /\ pc[r] = "asked"
  /\ Goto(r, "checked")
  /\ UNCHANGED <<mode, curl, client, offset, cache, url, got, spoiled, loads, failures>>

OnBeforeResourceLoad(r) ==
  /\ IoFree /\ pc[r] = "asked"
  /\ \/ /\ url[r] \notin Blocked
        /\ Goto(r, "checked")
        /\ UNCHANGED <<url, got, spoiled>>
     \/ /\ url[r] \in Blocked
        /\ Drop(r)
  /\ UNCHANGED <<mode, curl, client, offset, cache, loads, failures>>

\* GetResourceHandler without a look at the page: CEF loads it, or it is
\* known to be an HbbTV page.
GetResourceHandlerKnown(r) ==
  /\ IoFree /\ pc[r] = "checked"
  /\ \/ /\ mode # "hbbtv" \/ url[r] \in KnownTypes
        /\ Goto(r, "default")
     \/ /\ mode = "hbbtv" /\ url[r] \notin KnownTypes /\ url[r] \in cache
        /\ Goto(r, "special")
  /\ UNCHANGED <<mode, curl, client, offset, cache, url, got, spoiled, loads, failures>>

\* GetResourceHandler that fetches the page to see what it is.
GetResourceHandler(r) ==
  /\ IoFree /\ pc[r] = "checked"
  /\ mode = "hbbtv" /\ url[r] \notin KnownTypes /\ url[r] \notin cache
  /\ Goto(r, "typing")
  /\ UNCHANGED <<mode, curl, client, offset, cache, url, got, spoiled, loads, failures>>

\* Mutant of ContentTypeRead: the type is cached before it is judged.
CacheAny(r, ok, typed) ==
  /\ pc[r] = "typing"
  /\ typed => url[r] \in TypedUrls
  /\ Transfer(ok)
  /\ curl' = ReadContentType(url[r], ok)
  /\ cache' = cache \cup {url[r]}
  /\ Goto(r, IF curl'.content \in HbbtvPages \/ typed THEN "special" ELSE "default")
  /\ UNCHANGED <<mode, client, offset, url, got, spoiled, loads>>

\* ReadContentType returns, and GetResourceHandler goes on.  The header of
\* TypedUrls is the first of all responses' and is not kept track of.
ContentTypeRead(r, ok, typed) ==
  /\ pc[r] = "typing"
  /\ typed => url[r] \in TypedUrls
  /\ Transfer(ok)
  /\ curl' = ReadContentType(url[r], ok)
  /\ \/ /\ curl'.content \in HbbtvPages \/ typed
        /\ cache' = cache \cup {url[r]}
        /\ Goto(r, "special")
     \/ /\ curl'.content \notin HbbtvPages /\ ~typed
        /\ cache' = cache
        /\ Goto(r, "default")
  /\ UNCHANGED <<mode, client, offset, url, got, spoiled, loads>>

\* ProcessRequest fetches the page again, without following a redirect, ...
ProcessRequest(r) ==
  /\ IoFree /\ pc[r] = "special"
  /\ Goto(r, "fetching")
  /\ UNCHANGED <<mode, curl, client, offset, cache, url, got, spoiled, loads, failures>>

\* ... and takes over what curl holds then.
PageFetched(r, ok) ==
  /\ pc[r] = "fetching"
  /\ Transfer(ok)
  /\ curl' = LoadUrl(url[r], FALSE, ok)
  /\ client' = curl'
  /\ Goto(r, "processed")
  /\ spoiled' = spoiled \cup Sharing \cup (IF ok /\ Sharing = {} THEN {} ELSE {r})
  /\ got' = [s \in Requests |-> IF s \in spoiled' THEN <<>> ELSE got[s]]
  /\ UNCHANGED <<mode, offset, cache, url, loads>>

\* GetResponseHeaders; CEF follows a redirect and asks again.
GetResponseHeaders(r) ==
  /\ IoFree /\ pc[r] = "processed"
  /\ offset' = 0
  /\ \/ /\ client.redirect # NoUrl
        /\ Goto(r, "asked")
        /\ url' = [url EXCEPT ![r] = client.redirect]
     \/ /\ client.redirect = NoUrl
        /\ Goto(r, "reading")
        /\ url' = url
  /\ UNCHANGED <<mode, curl, client, cache, got, spoiled, loads, failures>>

\* The next n pieces of the content c; what a spoiled request gets is not
\* written down.
Pieces(r, c, n) == IF r \in spoiled THEN <<>> ELSE SubSeq(Text(c), offset + 1, offset + n)

\* Mutant of ReadResponse: it reads what curl fetched last.
ReadCurl(r, n) ==
  /\ IoFree /\ pc[r] = "reading"
  /\ n \in 1 .. Len(Text(client.content)) - offset
  /\ got' = [got EXCEPT ![r] = @ \o Pieces(r, curl.content, n)]
  /\ offset' = offset + n
  /\ UNCHANGED <<mode, curl, client, cache, pc, url, spoiled, loads, failures>>

\* ReadResponse hands out as much as is asked for, until nothing is left.
ReadResponse(r, n) ==
  /\ IoFree /\ pc[r] = "reading"
  /\ n \in 1 .. Len(Text(client.content)) - offset
  /\ got' = [got EXCEPT ![r] = @ \o Pieces(r, client.content, n)]
  /\ offset' = offset + n
  /\ UNCHANGED <<mode, curl, client, cache, pc, url, spoiled, loads, failures>>

ReadResponseEnds(r) ==
  /\ IoFree /\ pc[r] = "reading"
  /\ offset >= Len(Text(client.content))
  /\ Goto(r, "loaded")
  /\ UNCHANGED <<mode, curl, client, offset, cache, url, got, spoiled, loads, failures>>

\* Cancel: CEF drops the request (StopLoad, the next page); BrowserClient
\* keeps everything as it is.
Cancel(r) ==
  /\ IoFree /\ pc[r] \notin Closed
  /\ Drop(r)
  /\ UNCHANGED <<mode, curl, client, offset, cache, loads, failures>>

\* CEF (external) loads a page of its own; it, too, asks before it follows a
\* redirect.
CefLoads(r) ==
  /\ IoFree /\ pc[r] = "default"
  /\ \/ /\ Target(url[r]) = NoUrl
        /\ Goto(r, "loadedByCef")
        /\ url' = url
     \/ /\ Target(url[r]) # NoUrl
        /\ Goto(r, "asked")
        /\ url' = [url EXCEPT ![r] = Target(@)]
  /\ UNCHANGED <<mode, curl, client, offset, cache, got, spoiled, loads, failures>>

\* The command MODE, on the control thread.
SetMode(m) ==
  /\ mode # m
  /\ mode' = m
  /\ UNCHANGED <<curl, client, offset, cache, reqVars, spoiled, loads, failures>>

\* What the IO thread does for an open request when it comes to it.
Serve(r) ==
  \/ OnBeforeResourceLoad(r)
  \/ GetResourceHandlerKnown(r)
  \/ GetResourceHandler(r)
  \/ ProcessRequest(r)
  \/ GetResponseHeaders(r)
  \/ \E n \in 1 .. Size : ReadResponse(r, n)
  \/ ReadResponseEnds(r)
  \/ CefLoads(r)

\* The transfer ends the IO thread is waiting for.
TransferEnds(r) ==
  \/ \E ok, typed \in BOOLEAN : ContentTypeRead(r, ok, typed)
  \/ \E ok \in BOOLEAN : PageFetched(r, ok)

Next ==
  \/ \E r \in Requests :
       \/ \E u \in Urls : GetResourceRequestHandler(r, u)
       \/ Serve(r)
       \/ TransferEnds(r)
       \/ Cancel(r)
  \/ \E m \in {"html", "hbbtv"} : SetMode(m)

Spec == Init /\ [][Next]_vars

\* The tasks of CEF's IO thread are a queue: a callback that is due is made
\* when the thread comes to it again and again, between the transfers of
\* other requests.  That a transfer ends is nobody's promise: LoadUrl sets no
\* time limit, and a server may keep the connection open.
FairSpec == Spec /\ \A r \in Requests : SF_vars(Serve(r))

-----------------------------------------------------------------------------
(***************************************************************************)
(* Properties.                                                             *)
(***************************************************************************)
\* Every variable has its type; no callback reads behind the end of the
\* response (ReadResponse, min(bytes_to_read, rest)), and pieces are pieces
\* of pages.
TypeOK ==
  /\ mode \in {"html", "hbbtv"}
  /\ curl \in Response /\ client \in Response
  /\ offset \in 0 .. Size
  /\ cache \subseteq Urls
  /\ pc \in [Requests -> Closed \cup {"asked", "checked", "typing", "special", "fetching",
                                     "processed", "reading", "default"}]
  /\ url \in [Requests -> Urls \cup {NoUrl}]
  /\ \A r \in Requests : got[r] \in Seq(Urls \X (1 .. Size))
  /\ spoiled \subseteq Requests
  /\ loads \in 0 .. MaxLoads /\ failures \in 0 .. MaxFailures

\* ProcessRequest, GetResponseHeaders and ReadResponse: a request whose
\* response shared its time with no other gets its own page, in order, and
\* nothing else; when it is through it has got all of it, and it is the page
\* at the end of the redirects.  What other requests do before their own
\* ProcessRequest, the transfer in GetResourceHandler included, is no harm.
OwnPage ==
  \A r \in Requests \ spoiled :
    /\ pc[r] = "reading" => IsPrefix(got[r], Text(url[r]))
    /\ pc[r] = "loaded" => /\ got[r] = Text(url[r])
                           /\ Target(url[r]) = NoUrl

\* GetResourceHandler: as long as no transfer has failed, a URL whose content
\* type is cached leads to an HbbTV page, so nothing else ever gets the
\* scripts.  (After a failure the page of another URL is judged, and the
\* judgement is cached for good.)
CacheSound ==
  failures = 0 => \A u \in cache : Final[u] \in HbbtvPages \/ u \in TypedUrls

\* OnBeforeResourceLoad: no request gets as far as BrowserClient's handler,
\* or CEF's, with a blocked URL, by a redirect neither.
BlockedNotServed ==
  \A r \in Requests : pc[r] \in {"typing", "special", "fetching", "processed", "reading",
                               "default", "loaded", "loadedByCef"} => url[r] \notin Blocked

\* LoadUrl, GetResourceHandler and ProcessRequest: if no transfer holds the IO
\* thread for ever, the callbacks of every request come to an end: its page
\* is loaded, or the request is cancelled, whatever the others do to the
\* redirect and the content it shares with them.  Without the premise one
\* server that does not answer keeps every page from loading.
RequestsEnd ==
  []<>IoFree => \A r \in Requests : pc[r] \notin Closed ~> pc[r] \in Closed
=============================================================================
