--------------------------- MODULE PageLoadProofs ---------------------------
(***************************************************************************)
(* Proofs about PageLoad for every set of URLs, redirects, block list,     *)
(* page length, number of requests and bounds.                             *)
(***************************************************************************)
EXTENDS PageLoad, FiniteSetTheorems, SequenceTheorems, WellFoundedInduction, TLAPS

-----------------------------------------------------------------------------
(***************************************************************************)
(* The inductive invariant.                                                *)
(***************************************************************************)
Callbacks ==
  Closed \cup {"asked", "checked", "typing", "special", "fetching", "processed", "reading", "default"}

\* The types the argument needs; what a judged page's content is, is not among them.
Shape ==
  /\ curl.redirect \in Urls \cup {NoUrl}
  /\ client.redirect \in Urls \cup {NoUrl}
  /\ offset \in Nat
  /\ pc \in [Requests -> Callbacks]
  /\ url \in [Requests -> Urls \cup {NoUrl}]
  /\ got \in [Requests -> Seq(Urls \X Nat)]
  /\ spoiled \subseteq Requests
  /\ failures \in Nat

\* An open request has a URL; a request has got nothing before it reads.
Opened ==
  \A r \in Requests :
    /\ pc[r] # "idle" => url[r] \in Urls
    /\ pc[r] \notin {"reading", "loaded", "loadedByCef", "idle"} => got[r] = <<>>

\* Who shares the response with no other is alone with it, and it is his.
OwnResponse ==
  \A r \in Requests \ spoiled :
    /\ r \in Sharing => /\ Sharing = {r}
                        /\ client.content = url[r]
                        /\ client.redirect = Target(url[r])
    /\ pc[r] = "reading" => /\ offset <= Size
                            /\ Target(url[r]) = NoUrl
                            /\ got[r] = SubSeq(Text(url[r]), 1, offset)
    /\ pc[r] = "loaded" => Target(url[r]) = NoUrl /\ got[r] = Text(url[r])

\* Past OnBeforeResourceLoad there is no blocked URL.
Allowed ==
  \A r \in Requests : pc[r] \notin {"idle", "asked"} => url[r] \notin Blocked

PageInv == Shape /\ Opened /\ OwnResponse

-----------------------------------------------------------------------------
(***************************************************************************)
(* Pages.                                                                  *)
(***************************************************************************)
LEMMA TargetType == \A u \in Urls : Target(u) \in Urls \cup {NoUrl}
  BY RedirectAssumption DEF Target

LEMMA TextFacts ==
  ASSUME NEW u \in Urls
  PROVE  Text(u) \in Seq(Urls \X Nat) /\ Len(Text(u)) = Size /\ Size \in Nat
  BY UrlAssumption, SizeAssumption DEF Text

\* A piece of a page continues what was read of it before.
LEMMA NextPieces ==
  ASSUME NEW u \in Urls, NEW o \in Nat, NEW n \in Nat, o + n <= Size
  PROVE  SubSeq(Text(u), 1, o) \o SubSeq(Text(u), o + 1, o + n) = SubSeq(Text(u), 1, o + n)
  BY TextFacts, ConcatAdjacentSubSeq

\* What was read of a page is a prefix of it, and all of it at its end.
LEMMA ReadPrefix ==
  ASSUME NEW u \in Urls, NEW o \in Nat, o <= Size
  PROVE  /\ IsPrefix(SubSeq(Text(u), 1, o), Text(u))
         /\ SubSeq(Text(u), 1, Size) = Text(u)
         /\ SubSeq(Text(u), 1, o) \in Seq(Urls \X Nat)
         /\ SubSeq(Text(u), 1, 0) = <<>>
<1>1. Text(u) \in Seq(Urls \X Nat) /\ Len(Text(u)) = Size /\ Size \in Nat
  BY TextFacts
<1>2. SubSeq(Text(u), 1, Size) = Text(u)
  BY <1>1, SubSeqFull
<1>3. /\ SubSeq(Text(u), 1, o) \in Seq(Urls \X Nat)
      /\ Len(SubSeq(Text(u), 1, o)) = o
  BY <1>1
<1>4. SubSeq(SubSeq(Text(u), 1, o), 1, o) = SubSeq(Text(u), 1, o)
  BY <1>3, SubSeqFull
<1>5. IsPrefix(SubSeq(Text(u), 1, o), Text(u))
  BY <1>1, <1>3, <1>4 DEF IsPrefix
<1>6. SubSeq(Text(u), 1, 0) = <<>>
  BY <1>1
<1> QED
  BY <1>2, <1>3, <1>5, <1>6

-----------------------------------------------------------------------------
(***************************************************************************)
(* Shape and Opened.                                                       *)
(***************************************************************************)
LEMMA ShapeStep == PageInv /\ [Next]_vars => Shape' /\ Opened'
<1> SUFFICES ASSUME PageInv, [Next]_vars
             PROVE  Shape' /\ Opened'
  OBVIOUS
<1> USE DEF PageInv, Shape, Opened, reqVars, Goto, Callbacks, Closed
<1>1. ASSUME NEW r \in Requests, NEW u \in Urls, GetResourceRequestHandler(r, u)
      PROVE  Shape' /\ Opened'
  BY <1>1 DEF GetResourceRequestHandler
<1>2. ASSUME NEW r \in Requests, OnBeforeResourceLoad(r)
      PROVE  Shape' /\ Opened'
  BY <1>2 DEF OnBeforeResourceLoad, Drop
<1>3. ASSUME NEW r \in Requests, GetResourceHandlerKnown(r)
      PROVE  Shape' /\ Opened'
  BY <1>3 DEF GetResourceHandlerKnown
<1>4. ASSUME NEW r \in Requests, NEW ok \in BOOLEAN, NEW typed \in BOOLEAN,
             ContentTypeRead(r, ok, typed)
      PROVE  Shape' /\ Opened'
  <2>1. curl'.redirect \in Urls \cup {NoUrl} /\ failures' \in Nat
    BY <1>4 DEF ContentTypeRead, ReadContentType, LoadUrl, Transfer
  <2> QED
    BY <1>4, <2>1 DEF ContentTypeRead
<1>5. ASSUME NEW r \in Requests, NEW ok \in BOOLEAN, PageFetched(r, ok)
      PROVE  Shape' /\ Opened'
  <2>1. url[r] \in Urls
    BY <1>5 DEF PageFetched
  <2>2. curl'.redirect \in Urls \cup {NoUrl} /\ client' = curl' /\ failures' \in Nat
    BY <1>5, <2>1, TargetType DEF PageFetched, LoadUrl, Transfer
  <2>3. spoiled' \subseteq Requests /\ got' \in [Requests -> Seq(Urls \X Nat)]
    BY <1>5 DEF PageFetched, Sharing
  <2>4. \A s \in Requests : got[s] = <<>> => got'[s] = <<>>
    BY <1>5 DEF PageFetched
  <2> QED
    BY <1>5, <2>1, <2>2, <2>3, <2>4 DEF PageFetched
<1>6. ASSUME NEW r \in Requests, GetResponseHeaders(r)
      PROVE  Shape' /\ Opened'
  BY <1>6 DEF GetResponseHeaders
<1>7. ASSUME NEW r \in Requests, NEW n \in 1 .. Size, ReadResponse(r, n)
      PROVE  Shape' /\ Opened'
  <2>1. Pieces(r, client.content, n) \in Seq(Urls \X Nat)
    <3>1. CASE r \in spoiled
      BY <3>1 DEF Pieces
    <3>2. CASE r \notin spoiled
      <4>1. client.content = url[r] /\ url[r] \in Urls
        BY <1>7, <3>2 DEF ReadResponse, OwnResponse, Sharing
      <4>2. SubSeq(Text(url[r]), offset + 1, offset + n) \in Seq(Urls \X Nat)
        BY <1>7, <4>1, TextFacts DEF ReadResponse
      <4> QED
        BY <3>2, <4>1, <4>2 DEF Pieces
    <3> QED
      BY <3>1, <3>2
  <2>2. got'[r] \in Seq(Urls \X Nat) /\ got' = [got EXCEPT ![r] = got'[r]]
    BY <1>7, <2>1 DEF ReadResponse
  <2> QED
    BY <1>7, <2>2, SizeAssumption DEF ReadResponse
<1>8. ASSUME NEW r \in Requests, ReadResponseEnds(r)
      PROVE  Shape' /\ Opened'
  BY <1>8 DEF ReadResponseEnds
<1>9. ASSUME NEW r \in Requests, CefLoads(r)
      PROVE  Shape' /\ Opened'
  BY <1>9, TargetType DEF CefLoads
<1>10. ASSUME NEW r \in Requests, Cancel(r)
       PROVE  Shape' /\ Opened'
  BY <1>10 DEF Cancel, Drop
<1>11. ASSUME NEW m \in {"html", "hbbtv"}, SetMode(m)
       PROVE  Shape' /\ Opened'
  BY <1>11 DEF SetMode
<1>13. ASSUME NEW r \in Requests, GetResourceHandler(r) \/ ProcessRequest(r)
        PROVE  Shape' /\ Opened'
  BY <1>13 DEF GetResourceHandler, ProcessRequest
<1>12. CASE UNCHANGED vars
  BY <1>12 DEF vars
<1> QED
  BY <1>1, <1>2, <1>3, <1>4, <1>5, <1>6, <1>7, <1>8, <1>9, <1>10, <1>11, <1>12, <1>13
  DEF Next, Serve, TransferEnds

-----------------------------------------------------------------------------
(***************************************************************************)
(* OwnResponse.                                                            *)
(***************************************************************************)
\* A step of r that neither touches the response nor begins to share it
\* leaves everybody's own response as it is.
LEMMA QuietRequest ==
  ASSUME PageInv, NEW r \in Requests,
         UNCHANGED <<client, offset>>,
         pc' = [pc EXCEPT ![r] = pc'[r]],
         pc'[r] \notin {"processed", "reading", "loaded"},
         \A s \in Requests \ {r} : url'[s] = url[s] /\ got'[s] = got[s],
         spoiled' \in {spoiled, spoiled \ {r}}
  PROVE  OwnResponse'
  BY DEF PageInv, Shape, OwnResponse, Sharing

LEMMA OwnResponseStep == PageInv /\ [Next]_vars => OwnResponse'
<1> SUFFICES ASSUME PageInv, [Next]_vars
             PROVE  OwnResponse'
  OBVIOUS
<1> USE DEF PageInv, Shape, Goto
<1>1. ASSUME NEW r \in Requests, NEW u \in Urls, GetResourceRequestHandler(r, u)
      PROVE  OwnResponse'
  BY <1>1, QuietRequest DEF GetResourceRequestHandler
<1>2. ASSUME NEW r \in Requests, OnBeforeResourceLoad(r)
      PROVE  OwnResponse'
  BY <1>2, QuietRequest DEF OnBeforeResourceLoad, Drop
<1>3. ASSUME NEW r \in Requests, GetResourceHandlerKnown(r)
      PROVE  OwnResponse'
  BY <1>3, QuietRequest DEF GetResourceHandlerKnown
<1>4. ASSUME NEW r \in Requests, NEW ok \in BOOLEAN, NEW typed \in BOOLEAN,
             ContentTypeRead(r, ok, typed)
      PROVE  OwnResponse'
  BY <1>4, QuietRequest DEF ContentTypeRead
<1>5. ASSUME NEW r \in Requests, NEW ok \in BOOLEAN, PageFetched(r, ok)
      PROVE  OwnResponse'
  <2> SUFFICES ASSUME NEW s \in Requests \ spoiled'
               PROVE  OwnResponse!(s)'
    BY DEF OwnResponse
  <2>1. s \notin spoiled /\ s \notin Sharing /\ got'[s] = got[s] /\ url'[s] = url[s]
    BY <1>5 DEF PageFetched
  <2>2. CASE s = r
    <3>1. ok /\ Sharing = {} /\ url[r] \in Urls
      BY <1>5, <2>2 DEF PageFetched, Opened
    <3>2. client'.content = url[r] /\ client'.redirect = Target(url[r])
      BY <1>5, <3>1 DEF PageFetched, LoadUrl
    <3>3. Sharing' = {r}
      BY <1>5, <3>1 DEF PageFetched, Sharing
    <3> QED
      BY <1>5, <2>1, <2>2, <3>2, <3>3 DEF PageFetched
  <2>3. CASE s # r
    BY <1>5, <2>1, <2>3 DEF PageFetched, OwnResponse, Sharing
  <2> QED
    BY <2>2, <2>3
<1>6. ASSUME NEW r \in Requests, GetResponseHeaders(r)
      PROVE  OwnResponse'
  <2> SUFFICES ASSUME NEW s \in Requests \ spoiled'
               PROVE  OwnResponse!(s)'
    BY DEF OwnResponse
  <2>1. s \in Requests \ spoiled /\ r \in Sharing /\ got'[s] = got[s]
    BY <1>6 DEF GetResponseHeaders, Sharing
  <2>2. CASE s = r
    <3>1. got[r] = <<>> /\ url[r] \in Urls
      BY <1>6 DEF GetResponseHeaders, Opened
    <3>2. Sharing = {r} /\ client.content = url[r] /\ client.redirect = Target(url[r])
      BY <2>1, <2>2 DEF OwnResponse
    <3>3. SubSeq(Text(url[r]), 1, 0) = <<>> /\ 0 <= Size
      BY <3>1, ReadPrefix, SizeAssumption
    <3> QED
      BY <1>6, <2>1, <2>2, <3>1, <3>2, <3>3 DEF GetResponseHeaders, Sharing
  <2>3. CASE s # r
    BY <1>6, <2>1, <2>3 DEF GetResponseHeaders, OwnResponse, Sharing
  <2> QED
    BY <2>2, <2>3
<1>7. ASSUME NEW r \in Requests, NEW n \in 1 .. Size, ReadResponse(r, n)
      PROVE  OwnResponse'
  <2> SUFFICES ASSUME NEW s \in Requests \ spoiled'
               PROVE  OwnResponse!(s)'
    BY DEF OwnResponse
  <2>1. s \in Requests \ spoiled /\ r \in Sharing /\ pc' = pc /\ url' = url /\ Sharing' = Sharing
    BY <1>7 DEF ReadResponse, Sharing, reqVars
  <2>2. CASE s = r
    <3>1. /\ url[r] \in Urls /\ client.content = url[r] /\ Sharing = {r}
          /\ got[r] = SubSeq(Text(url[r]), 1, offset)
      BY <1>7, <2>1, <2>2 DEF ReadResponse, OwnResponse, Opened
    <3>2. offset + n <= Size /\ offset' = offset + n
      BY <1>7, <3>1, TextFacts, SizeAssumption DEF ReadResponse
    <3>3. got'[r] = SubSeq(Text(url[r]), 1, offset) \o SubSeq(Text(url[r]), offset + 1, offset + n)
      BY <1>7, <2>1, <2>2, <3>1 DEF ReadResponse, Pieces
    <3>4. got'[r] = SubSeq(Text(url[r]), 1, offset')
      <4>1. offset \in Nat /\ n \in Nat
        BY SizeAssumption
      <4> QED
        BY <3>1, <3>2, <3>3, <4>1, NextPieces
    <3> QED
      BY <1>7, <2>1, <2>2, <3>1, <3>2, <3>4 DEF ReadResponse, OwnResponse
  <2>3. CASE s # r
    BY <1>7, <2>1, <2>3 DEF ReadResponse, OwnResponse, Sharing
  <2> QED
    BY <2>2, <2>3
<1>8. ASSUME NEW r \in Requests, ReadResponseEnds(r)
      PROVE  OwnResponse'
  <2> SUFFICES ASSUME NEW s \in Requests \ spoiled'
               PROVE  OwnResponse!(s)'
    BY DEF OwnResponse
  <2>1. s \in Requests \ spoiled /\ r \in Sharing /\ url' = url /\ got' = got
    BY <1>8 DEF ReadResponseEnds, Sharing
  <2>2. CASE s = r
    <3>1. /\ url[r] \in Urls /\ client.content = url[r] /\ Target(url[r]) = NoUrl
          /\ got[r] = SubSeq(Text(url[r]), 1, offset) /\ offset <= Size
      BY <1>8, <2>1, <2>2 DEF ReadResponseEnds, OwnResponse, Opened
    <3>2. offset = Size
      BY <1>8, <3>1, TextFacts DEF ReadResponseEnds
    <3> QED
      BY <1>8, <2>1, <2>2, <3>1, <3>2, ReadPrefix DEF ReadResponseEnds, Sharing
  <2>3. CASE s # r
    BY <1>8, <2>1, <2>3 DEF ReadResponseEnds, OwnResponse, Sharing
  <2> QED
    BY <2>2, <2>3
<1>9. ASSUME NEW r \in Requests, CefLoads(r)
      PROVE  OwnResponse'
  BY <1>9, QuietRequest DEF CefLoads
<1>10. ASSUME NEW r \in Requests, Cancel(r)
       PROVE  OwnResponse'
  BY <1>10, QuietRequest DEF Cancel, Drop
<1>11. ASSUME NEW m \in {"html", "hbbtv"}, SetMode(m)
       PROVE  OwnResponse'
  BY <1>11 DEF SetMode, OwnResponse, Sharing, reqVars
<1>13. ASSUME NEW r \in Requests, GetResourceHandler(r) \/ ProcessRequest(r)
        PROVE  OwnResponse'
  BY <1>13, QuietRequest DEF GetResourceHandler, ProcessRequest
<1>12. CASE UNCHANGED vars
  BY <1>12 DEF vars, OwnResponse, Sharing, reqVars
<1> QED
  BY <1>1, <1>2, <1>3, <1>4, <1>5, <1>6, <1>7, <1>8, <1>9, <1>10, <1>11, <1>12, <1>13
  DEF Next, Serve, TransferEnds

-----------------------------------------------------------------------------
(***************************************************************************)
(* The theorems.                                                           *)
(***************************************************************************)
LEMMA PageInvHolds == Spec => []PageInv
<1>1. Init => PageInv
  BY DEF Init, PageInv, Shape, Opened, OwnResponse, Sharing, Callbacks, Closed
<1>2. PageInv /\ [Next]_vars => PageInv'
  BY ShapeStep, OwnResponseStep DEF PageInv
<1> QED
  BY <1>1, <1>2, PTL DEF Spec

\* A request whose response meets no other gets its own page, in order,
\* completely, and at the end of the redirects: the one response and the one
\* offset of BrowserClient do for any number of requests that do not overlap
\* between ProcessRequest and the last ReadResponse.
THEOREM EachItsOwnPage == Spec => []OwnPage
<1>1. PageInv => OwnPage
  <2> SUFFICES ASSUME PageInv, NEW r \in Requests \ spoiled
               PROVE  /\ pc[r] = "reading" => IsPrefix(got[r], Text(url[r]))
                      /\ pc[r] = "loaded" => got[r] = Text(url[r]) /\ Target(url[r]) = NoUrl
    BY DEF OwnPage
  <2>1. ASSUME pc[r] = "reading"
        PROVE  IsPrefix(got[r], Text(url[r]))
    <3>1. got[r] = SubSeq(Text(url[r]), 1, offset) /\ offset <= Size
      BY <2>1 DEF PageInv, OwnResponse
    <3>2. url[r] \in Urls /\ offset \in Nat
      BY <2>1 DEF PageInv, Opened, Shape
    <3> QED
      BY <3>1, <3>2, ReadPrefix
  <2> QED
    BY <2>1 DEF PageInv, OwnResponse
<1> QED
  BY <1>1, PageInvHolds, PTL

\* No request reaches a handler with a blocked URL, however it got the URL.
THEOREM BlockListHolds == Spec => []BlockedNotServed
<1>1. Init => Allowed
  BY DEF Init, Allowed
<1>2. PageInv /\ Allowed /\ [Next]_vars => Allowed'
  <2> SUFFICES ASSUME PageInv, Allowed, [Next]_vars
               PROVE  Allowed'
    OBVIOUS
  <2> USE DEF PageInv, Shape, Allowed, Goto, reqVars
  <2>1. ASSUME NEW r \in Requests, NEW u \in Urls, GetResourceRequestHandler(r, u)
        PROVE  Allowed'
    BY <2>1 DEF GetResourceRequestHandler
  <2>2. ASSUME NEW r \in Requests, OnBeforeResourceLoad(r)
        PROVE  Allowed'
    BY <2>2 DEF OnBeforeResourceLoad, Drop
  <2>3. ASSUME NEW r \in Requests, GetResourceHandlerKnown(r)
        PROVE  Allowed'
    BY <2>3 DEF GetResourceHandlerKnown
  <2>4. ASSUME NEW r \in Requests, NEW ok \in BOOLEAN, NEW typed \in BOOLEAN,
               ContentTypeRead(r, ok, typed)
        PROVE  Allowed'
    BY <2>4 DEF ContentTypeRead
  <2>5. ASSUME NEW r \in Requests, NEW ok \in BOOLEAN, PageFetched(r, ok)
        PROVE  Allowed'
    BY <2>5 DEF PageFetched
  <2>6. ASSUME NEW r \in Requests, GetResponseHeaders(r)
        PROVE  Allowed'
    BY <2>6 DEF GetResponseHeaders
  <2>7. ASSUME NEW r \in Requests, NEW n \in 1 .. Size, ReadResponse(r, n)
        PROVE  Allowed'
    BY <2>7 DEF ReadResponse
  <2>8. ASSUME NEW r \in Requests, ReadResponseEnds(r)
        PROVE  Allowed'
    BY <2>8 DEF ReadResponseEnds
  <2>9. ASSUME NEW r \in Requests, CefLoads(r)
        PROVE  Allowed'
    BY <2>9 DEF CefLoads
  <2>10. ASSUME NEW r \in Requests, Cancel(r)
         PROVE  Allowed'
    BY <2>10 DEF Cancel, Drop
  <2>12. ASSUME NEW r \in Requests, GetResourceHandler(r) \/ ProcessRequest(r)
          PROVE  Allowed'
    BY <2>12 DEF GetResourceHandler, ProcessRequest
  <2>11. CASE UNCHANGED vars \/ \E m \in {"html", "hbbtv"} : SetMode(m)
    BY <2>11 DEF vars, SetMode
  <2> QED
    BY <2>1, <2>2, <2>3, <2>4, <2>5, <2>6, <2>7, <2>8, <2>9, <2>10, <2>11, <2>12
    DEF Next, Serve, TransferEnds
<1>3. Allowed => BlockedNotServed
  BY DEF Allowed, BlockedNotServed
<1> QED
  BY <1>1, <1>2, <1>3, PageInvHolds, PTL DEF Spec

\* Unless a transfer has failed, only URLs that lead to an HbbTV page are
\* cached: the cache never turns a plain page into one that gets the scripts.
THEOREM CacheNeverLies == Spec => []CacheSound
<1> DEFINE Sound == failures \in Nat /\ CacheSound
<1>1. Init => Sound
  BY DEF Init, CacheSound
<1>2. Sound /\ [Next]_vars => Sound'
  <2> SUFFICES ASSUME Sound, [Next]_vars
               PROVE  Sound'
    OBVIOUS
  <2>1. ASSUME NEW r \in Requests, NEW ok \in BOOLEAN, NEW typed \in BOOLEAN,
               ContentTypeRead(r, ok, typed)
        PROVE  Sound'
    <3>1. failures' \in Nat /\ (failures' = 0 => ok /\ failures = 0)
      BY <2>1 DEF ContentTypeRead, Transfer
    <3>2. ok => curl'.content = Final[url[r]]
      BY <2>1 DEF ContentTypeRead, ReadContentType, LoadUrl
    <3> QED
      BY <2>1, <3>1, <3>2 DEF ContentTypeRead, CacheSound
  <2>2. ASSUME NEW r \in Requests, NEW ok \in BOOLEAN, PageFetched(r, ok)
        PROVE  Sound'
    BY <2>2 DEF PageFetched, Transfer, CacheSound
  <2>3. CASE UNCHANGED <<cache, failures>>
    BY <2>3 DEF CacheSound
  <2> QED
    BY <2>1, <2>2, <2>3
    DEF Next, Serve, TransferEnds, vars, GetResourceRequestHandler, OnBeforeResourceLoad,
        GetResourceHandlerKnown, GetResourceHandler, ProcessRequest, GetResponseHeaders, ReadResponse, ReadResponseEnds, CefLoads, Cancel, SetMode
<1> QED
  BY <1>1, <1>2, PTL DEF Spec

-----------------------------------------------------------------------------
(***************************************************************************)
(* Types.                                                                  *)
(***************************************************************************)
\* A set of naturals that is not empty has a least element: the finite sets
\* 1 .. n are well-founded.
LEMMA LeastNatural ==
  ASSUME NEW T, T \subseteq Nat, T # {}
  PROVE  \E n \in T : \A k \in T : n <= k
<1> DEFINE Ps == {1 .. n : n \in T}
           R == StrictSubsetOrdering(Nat)
           F == FiniteSubsetsOf(Nat)
<1>1. IsWellFoundedOn(R, F)
  BY FS_StrictSubsetOrderingWellFounded
<1>2. \A n \in Nat : 1 .. n \in SUBSET Nat /\ IsFiniteSet(1 .. n)
  BY FS_Interval
<1>3. Ps \subseteq F /\ Ps # {}
  BY <1>2 DEF FiniteSubsetsOf
<1>4. ASSUME NEW k \in Nat, NEW n \in Nat, k < n
      PROVE  <<1 .. k, 1 .. n>> \in R
  <2>1. 1 .. k \subseteq 1 .. n /\ n \in 1 .. n /\ n \notin 1 .. k
    BY <1>4
  <2> QED
    BY <1>2, <2>1 DEF StrictSubsetOrdering
<1>5. \E P \in Ps : \A Q \in Ps : ~(<<Q, P>> \in R)
  <2> HIDE DEF Ps, R, F
  <2> QED
    BY <1>1, <1>3, WFMin
<1>6. PICK n \in T : \A Q \in Ps : ~(<<Q, 1 .. n>> \in R)
  BY <1>5
<1>7. \A k \in T : ~(k < n)
  BY <1>4, <1>6
<1> QED
  BY <1>7

\* The recursive function Final, on the URLs of a rank below n.
Ends(f, D) == f = [u \in D |-> IF Target(u) = NoUrl THEN u ELSE f[Target(u)]]

\* There is such a function, and it goes from URLs to URLs.
LEMMA Ending ==
  ASSUME NEW rank \in [Urls -> Nat],
         \A u \in DOMAIN Redirects : Redirects[u] \in Urls /\ rank[Redirects[u]] < rank[u],
         NEW N \in Nat
  PROVE  \E f : /\ Ends(f, {v \in Urls : rank[v] < N})
                /\ \A u \in {v \in Urls : rank[v] < N} : f[u] \in Urls
<1> DEFINE D(n) == {v \in Urls : rank[v] < n}
           Good(f, n) == Ends(f, D(n)) /\ \A u \in D(n) : f[u] \in Urls
           T == {n \in Nat : ~ \E f : Good(f, n)}
<1>1. \A u \in Urls : Target(u) # NoUrl => Target(u) \in Urls /\ rank[Target(u)] < rank[u]
  BY DEF Target
<1>2. \A n \in T : n \in Nat /\ ~ \E f : Good(f, n)
  OBVIOUS
<1>3. \A n \in Nat : n \notin T => \E f : Good(f, n)
  OBVIOUS
<1>4. T \subseteq Nat
  OBVIOUS
<1>5. D(0) = {}
  OBVIOUS
<1>6. ASSUME NEW n \in Nat, n # 0, NEW f, Good(f, n - 1)
      PROVE  \E g : Good(g, n)
  <2> DEFINE g == [u \in D(n) |-> IF Target(u) = NoUrl THEN u ELSE f[Target(u)]]
  <2>1. ASSUME NEW u \in D(n), Target(u) # NoUrl
        PROVE  Target(u) \in D(n - 1)
    <3>1. u \in Urls /\ rank[u] < n
      BY <2>1
    <3>2. Target(u) \in Urls /\ rank[Target(u)] < rank[u] /\ rank[u] \in Nat /\ rank[Target(u)] \in Nat
      BY <1>1, <2>1, <3>1
    <3>3. rank[Target(u)] < n - 1
      BY <3>1, <3>2
    <3> QED
      BY <3>2, <3>3
  <2>2. ASSUME NEW u \in D(n - 1)
        PROVE  u \in D(n) /\ g[u] = f[u] /\ f[u] \in Urls
    <3>1. u \in D(n)
      BY <2>2
    <3>2. f[u] = IF Target(u) = NoUrl THEN u ELSE f[Target(u)]
      BY <1>6, <2>2 DEF Ends
    <3>3. f[u] \in Urls
      BY <1>6, <2>2
    <3> QED
      BY <3>1, <3>2, <3>3
  <2>3. ASSUME NEW u \in D(n), Target(u) # NoUrl
        PROVE  f[Target(u)] = g[Target(u)] /\ f[Target(u)] \in Urls
    BY <2>1, <2>2, <2>3
  <2>4. \A u \in D(n) : u \in Urls
    OBVIOUS
  <2> HIDE DEF D
  <2>5. Ends(g, D(n))
    BY <2>3 DEF Ends
  <2>6. \A u \in D(n) : g[u] \in Urls
    BY <2>3, <2>4
  <2> QED
    BY <2>5, <2>6
<1>7. \E f : Good(f, 0)
  <2> DEFINE g == [u \in {} |-> NoUrl]
  <2>1. g = [u \in {} |-> IF Target(u) = NoUrl THEN u ELSE g[Target(u)]]
    OBVIOUS
  <2> QED
    BY <1>5, <2>1 DEF Ends
<1>8. T = {}
  <2> SUFFICES ASSUME T # {}
               PROVE  FALSE
    OBVIOUS
  <2> HIDE DEF T, Good
  <2>1. PICK n \in T : \A k \in T : n <= k
    BY <1>4, LeastNatural
  <2>2. n \in Nat /\ ~ \E f : Good(f, n)
    BY <1>2, <2>1
  <2>3. n # 0
    BY <1>7, <2>2
  <2>4. n - 1 \in Nat /\ n - 1 \notin T
    BY <2>1, <2>2, <2>3
  <2>5. PICK f : Good(f, n - 1)
    BY <1>3, <2>4
  <2> QED
    BY <1>6, <2>2, <2>3, <2>5
<1> HIDE DEF T
<1> QED
  BY <1>3, <1>8

\* The end of a chain of redirects is a URL.
LEMMA FinalType == \A u \in Urls : Final[u] \in Urls
<1> DEFINE N == Cardinality(Urls) + 1
<1>1. N \in Nat /\ Cardinality(Urls) \in Nat
  BY FiniteAssumption, FS_CardinalityType
<1>2. PICK rank \in [Urls -> 0 .. Cardinality(Urls)] :
        \A u \in DOMAIN Redirects : Redirects[u] \in Urls /\ rank[Redirects[u]] < rank[u]
  BY RedirectAssumption
<1>3. rank \in [Urls -> Nat]
  BY <1>1
<1>4. {v \in Urls : rank[v] < N} = Urls
  BY <1>1
<1> HIDE DEF N
<1>5. PICK f : Ends(f, Urls) /\ \A u \in Urls : f[u] \in Urls
  BY <1>1, <1>2, <1>3, <1>4, Ending
<1>6. Final = CHOOSE g : Ends(g, Urls)
  BY DEF Final, Ends
<1>7. Ends(Final, Urls)
  BY <1>5, <1>6
<1>8. ASSUME NEW g, Ends(g, Urls)
      PROVE  \A u \in Urls : g[u] \in Urls
  <2> DEFINE T == {n \in Nat : \E u \in Urls : rank[u] = n /\ g[u] \notin Urls}
  <2>1. SUFFICES ASSUME T # {}
                 PROVE  FALSE
    BY <1>3
  <2>2. T \subseteq Nat /\ \A n \in T : \E u \in Urls : rank[u] = n /\ g[u] \notin Urls
    OBVIOUS
  <2>3. \A u \in Urls : g[u] \notin Urls => rank[u] \in T
    BY <1>3
  <2> HIDE DEF T
  <2>4. PICK n \in T : \A k \in T : n <= k
    BY <2>1, <2>2, LeastNatural
  <2>5. PICK u \in Urls : rank[u] = n /\ g[u] \notin Urls
    BY <2>2, <2>4
  <2>6. g[u] = IF Target(u) = NoUrl THEN u ELSE g[Target(u)]
    BY <1>8 DEF Ends
  <2>7. Target(u) \in Urls /\ rank[Target(u)] < rank[u] /\ g[Target(u)] \notin Urls
    BY <1>2, <2>5, <2>6 DEF Target
  <2>8. rank[Target(u)] \in Nat /\ rank[u] \in Nat /\ n <= rank[Target(u)]
    BY <1>3, <2>3, <2>4, <2>7
  <2> QED
    BY <2>5, <2>7, <2>8
<1> QED
  BY <1>7, <1>8

\* What a transfer leaves is what HbbtvCurl can hold.
LEMMA LoadUrlType ==
  ASSUME curl \in Response, NEW u \in Urls, NEW follow \in BOOLEAN, NEW ok \in BOOLEAN
  PROVE  LoadUrl(u, follow, ok) \in Response /\ ReadContentType(u, ok) \in Response
<1>1. /\ Final[u] \in Urls /\ Target(u) \in Urls \cup {NoUrl}
      /\ \A f \in BOOLEAN : LoadUrl(u, f, ok) \in Response
  BY FinalType, TargetType DEF LoadUrl, Response
<1> QED
  BY <1>1 DEF ReadContentType, Response

\* A piece of a page is made of its pieces.
LEMMA PieceType ==
  ASSUME NEW c \in Urls \cup {NoUrl}, NEW o \in Nat, NEW n \in 1 .. Len(Text(c)) - o
  PROVE  /\ SubSeq(Text(c), o + 1, o + n) \in Seq(Urls \X (1 .. Size))
         /\ o + n <= Size
<1>1. c # NoUrl
  BY DEF Text
<1>2. Text(c) \in Seq(Urls \X (1 .. Size)) /\ Len(Text(c)) = Size
  BY <1>1, SizeAssumption DEF Text
<1> QED
  BY <1>2, SizeAssumption

\* Every variable keeps its type: no callback reads behind the end of a response,
\* and what curl judges, or CEF gets, is of pages there are, however many redirects
\* lead to them.
THEOREM TypeCorrect == Spec => []TypeOK
<1>1. Init => TypeOK
  BY SizeAssumption, BoundAssumption DEF Init, TypeOK, Response, Closed
<1>2. ASSUME PageInv, TypeOK, [Next]_vars
      PROVE  TypeOK'
  <2> USE <1>2 DEF TypeOK, reqVars, Goto, Closed
  <2>1. ASSUME NEW r \in Requests, NEW u \in Urls, GetResourceRequestHandler(r, u)
        PROVE  TypeOK'
    BY <2>1, BoundAssumption DEF GetResourceRequestHandler, PageInv, Shape
  <2>2. ASSUME NEW r \in Requests, OnBeforeResourceLoad(r)
        PROVE  TypeOK'
    <3>1. \/ UNCHANGED <<url, got, spoiled>> /\ Goto(r, "checked")
          \/ Drop(r)
      BY <2>2 DEF OnBeforeResourceLoad
    <3>2. /\ url' \in [Requests -> Urls \cup {NoUrl}] /\ spoiled' \subseteq Requests
          /\ \A s \in Requests : got'[s] \in Seq(Urls \X (1 .. Size))
      <4>1. CASE UNCHANGED <<url, got, spoiled>>
        BY <4>1
      <4>2. CASE Drop(r)
        BY <4>2 DEF Drop, PageInv, Shape
      <4> QED
        BY <3>1, <4>1, <4>2
    <3>3. pc' \in [Requests -> Closed \cup {"asked", "checked", "typing", "special", "fetching",
                                          "processed", "reading", "default"}]
      BY <3>1 DEF Drop
    <3> QED
      BY <2>2, <3>2, <3>3 DEF OnBeforeResourceLoad
  <2>3. ASSUME NEW r \in Requests, GetResourceHandlerKnown(r)
        PROVE  TypeOK'
    BY <2>3 DEF GetResourceHandlerKnown
  <2>4. ASSUME NEW r \in Requests, NEW ok \in BOOLEAN, NEW typed \in BOOLEAN,
               ContentTypeRead(r, ok, typed)
        PROVE  TypeOK'
    <3>1. url[r] \in Urls
      BY <2>4 DEF ContentTypeRead, PageInv, Opened
    <3>2. curl' \in Response
      BY <2>4, <3>1, LoadUrlType DEF ContentTypeRead
    <3>3. failures' \in 0 .. MaxFailures
      BY <2>4, BoundAssumption DEF ContentTypeRead, Transfer
    <3> QED
      BY <2>4, <3>1, <3>2, <3>3 DEF ContentTypeRead
  <2>5. ASSUME NEW r \in Requests, NEW ok \in BOOLEAN, PageFetched(r, ok)
        PROVE  TypeOK'
    <3>1. url[r] \in Urls
      BY <2>5 DEF PageFetched, PageInv, Opened
    <3>2. curl' \in Response /\ client' \in Response
      BY <2>5, <3>1, LoadUrlType DEF PageFetched
    <3>3. failures' \in 0 .. MaxFailures
      BY <2>5, BoundAssumption DEF PageFetched, Transfer
    <3>4. spoiled' \subseteq Requests
      BY <2>5 DEF PageFetched, Sharing
    <3>5. \A s \in Requests : got'[s] \in Seq(Urls \X (1 .. Size))
      BY <2>5 DEF PageFetched
    <3> QED
      BY <2>5, <3>2, <3>3, <3>4, <3>5 DEF PageFetched
  <2>6. ASSUME NEW r \in Requests, GetResponseHeaders(r)
        PROVE  TypeOK'
    <3>1. client.redirect \in Urls \cup {NoUrl}
      BY DEF Response
    <3>2. offset' \in 0 .. Size
      BY <2>6, SizeAssumption DEF GetResponseHeaders
    <3>3. url' \in [Requests -> Urls \cup {NoUrl}]
      BY <2>6, <3>1 DEF GetResponseHeaders
    <3>4. pc' \in [Requests -> Closed \cup {"asked", "checked", "typing", "special", "fetching",
                                          "processed", "reading", "default"}]
      BY <2>6 DEF GetResponseHeaders
    <3> QED
      BY <2>6, <3>2, <3>3, <3>4 DEF GetResponseHeaders
  <2>7. ASSUME NEW r \in Requests, NEW n \in 1 .. Size, ReadResponse(r, n)
        PROVE  TypeOK'
    <3>1. client.content \in Urls \cup {NoUrl} /\ offset \in Nat
      BY DEF Response
    <3>2. n \in 1 .. Len(Text(client.content)) - offset
      BY <2>7 DEF ReadResponse
    <3>3. /\ SubSeq(Text(client.content), offset + 1, offset + n) \in Seq(Urls \X (1 .. Size))
          /\ offset + n <= Size
      BY <3>1, <3>2, PieceType
    <3>4. Pieces(r, client.content, n) \in Seq(Urls \X (1 .. Size))
      BY <3>3 DEF Pieces
    <3>5. got[r] \o Pieces(r, client.content, n) \in Seq(Urls \X (1 .. Size))
      BY <3>4
    <3>6. \A s \in Requests : got'[s] \in Seq(Urls \X (1 .. Size))
      BY <2>7, <3>5 DEF ReadResponse, PageInv, Shape
    <3>7. offset' \in 0 .. Size
      BY <2>7, <3>1, <3>3, SizeAssumption DEF ReadResponse
    <3> QED
      BY <2>7, <3>6, <3>7 DEF ReadResponse
  <2>8. ASSUME NEW r \in Requests, ReadResponseEnds(r)
        PROVE  TypeOK'
    BY <2>8 DEF ReadResponseEnds
  <2>9. ASSUME NEW r \in Requests, CefLoads(r)
        PROVE  TypeOK'
    <3>1. url[r] \in Urls
      BY <2>9 DEF CefLoads, PageInv, Opened
    <3> QED
      BY <2>9, <3>1, TargetType DEF CefLoads
  <2>10. ASSUME NEW r \in Requests, Cancel(r)
         PROVE  TypeOK'
    BY <2>10 DEF Cancel, Drop, PageInv, Shape
  <2>11. ASSUME NEW m \in {"html", "hbbtv"}, SetMode(m)
         PROVE  TypeOK'
    BY <2>11 DEF SetMode
  <2>13. ASSUME NEW r \in Requests, GetResourceHandler(r) \/ ProcessRequest(r)
          PROVE  TypeOK'
    BY <2>13 DEF GetResourceHandler, ProcessRequest
  <2>12. CASE UNCHANGED vars
    BY <2>12 DEF vars
  <2> QED
    BY <2>1, <2>2, <2>3, <2>4, <2>5, <2>6, <2>7, <2>8, <2>9, <2>10, <2>11, <2>12, <2>13
    DEF Next, Serve, TransferEnds
<1> QED
  BY <1>1, <1>2, PageInvHolds, PTL DEF Spec
=============================================================================
