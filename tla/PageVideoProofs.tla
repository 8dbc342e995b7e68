--------------------------- MODULE PageVideoProofs ---------------------------
(***************************************************************************)
(* Theorems about PageVideo, for every set of elements in any order, and   *)
(* any number of steps of the page: VDR is told the size of the largest    *)
(* candidate, the page is styled for it, a spoilt address is not played, a *)
(* film keeps its player.                                                  *)
(*                                                                         *)
(* What every function from document to document does is a lemma about any *)
(* document: initialize, beforeend.js and the page's scripts, which chain  *)
(* them, follow from the same few facts.                                   *)
(***************************************************************************)
EXTENDS PageVideo, FiniteSetTheorems, WellFoundedInduction, TLAPS

-----------------------------------------------------------------------------
(***************************************************************************)
(* The inductive invariant.  The site is a parameter: it never changes.    *)
(***************************************************************************)
CandidatesOn(s, d) ==
  <<Named(d, "video"), IF s = "hbbtv.daserste.de" THEN None ELSE Named(d, "videocontainer"),
    FirstPlayer(d), Named(d, "playerObject")>>
TargetOn(s, d) ==
  LET c == CandidatesOn(s, d)
  IN Better(d, Better(d, Better(d, Better(d, None, c[1]), c[2]), c[3]), c[4])

\* The size the polyfill would send now.
SizeOn(s, d) == IF TargetOn(s, d) = None THEN Full ELSE d.rect[TargetOn(s, d)]

\* A document has its fields, and those the properties are about their types.
Fields == {"present", "rect", "player", "data", "mapped", "sent", "timers", "scripts",
           "overlay", "things", "style", "seen", "app", "list"}
Kinds == {"none", "live", "film", "idle"}
Ways == {"start", "stop"}
Addresses == {"url", "empty", "fail"}
Sizes == Nat \X Nat
Requests == [kind : {"SIZE"}, rect : Sizes] \cup [kind : {"PLAY"}, data : Addresses]

Document(d) ==
  /\ DOMAIN d = Fields
  /\ d.present \in SUBSET Elements
  /\ d.rect \in [Elements -> Sizes]
  /\ d.player \in [Elements -> Kinds]
  /\ d.data \in [Elements -> Addresses]
  /\ d.mapped \in SUBSET Elements
  /\ d.sent \in Seq(Requests)
  /\ d.timers \in Seq(Ways)
  /\ DOMAIN d.style = d.things
  /\ d.app \in BOOLEAN
  /\ d.list \in Ways \cup {"none"}
  /\ d.seen \in BOOLEAN

\* VDR, which knows the size r0, is told of the size r last.
Told(q, r0, r) ==
  /\ \A i \in DOMAIN q : q[i].kind = "SIZE" =>
       q[i].rect = r \/ \E j \in DOMAIN q : i < j /\ q[j].kind = "SIZE"
  /\ (\E i \in DOMAIN q : q[i].kind = "SIZE") \/ r0 = r

\* Nothing has moved since the size was sent.
Measured(s, d, r0) == d.seen => Told(d.sent, r0, SizeOn(s, d))

\* What the site's list says is in the style.
StepsOn(s, way) == IF s \in Sites THEN Quirks[s][way] ELSE <<>>
Mine(d, thing) == thing \in d.things /\ ~(thing = "body" /\ d.app)
Fits(s, d, way) ==
  \A i \in DOMAIN StepsOn(s, way) :
    Mine(d, StepsOn(s, way)[i].thing) => d.style[StepsOn(s, way)[i].thing] = StepsOn(s, way)[i].value

\* The list that the present size asks for is in the style, or the last that is due.
Way(s, d) == process_video_quirk(d, SizeOn(s, d))
DueLast(s, d) == d.timers # <<>> /\ d.timers[Len(d.timers)] = Way(s, d)
Styled(s, d) ==
  (d.seen /\ TargetOn(s, d) # None) =>
    /\ FirstPlayer(d) # None
    /\ DueLast(s, d) \/ (d.timers = <<>> /\ Fits(s, d, Way(s, d)))

\* The list that was written last is in the style; before there is one, nothing is.
Listed(s, d) == /\ d.list \in Ways => Fits(s, d, d.list)
                /\ d.list = "none" => \A t \in d.things : Mine(d, t) => d.style[t] = "page"

\* An address is spoilt when its film has a player, and only a film's is.
Spoilt(d, l) ==
  /\ \A e \in Elements : d.data[e] = "fail" =>
       Type[e] \in {"av", "dash"} /\ (l \/ d.player[e] \in {"film", "idle"})
  /\ \A e \in Elements : d.player[e] = "live" => Type[e] = "broadcast"
  /\ \A i \in DOMAIN d.sent : (d.sent[i].kind = "PLAY" /\ d.sent[i].data = "fail") => l

Good(s, d, r0, l) ==
  Document(d) /\ Measured(s, d, r0) /\ Styled(s, d) /\ Listed(s, d) /\ Spoilt(d, l)
IInv == Good(site, doc, told, lost) /\ lost \in BOOLEAN

-----------------------------------------------------------------------------
(***************************************************************************)
(* The order of the document: getElementById finds what stands first.      *)
(***************************************************************************)
\* A set of naturals that is not empty has a least element: the finite sets
\* 1 .. n are well-founded.
LEMMA LeastNatural ==
  ASSUME NEW T, T \subseteq Nat, T # {}
  PROVE  \E n \in T : \A k \in T : n <= k
<1> DEFINE Ps == {1 .. n : n \in T}
           R == StrictSubsetOrdering(Nat)
           F == FiniteSubsetsOf(Nat)
<1>1. IsWellFoundedOn(R, F)
  BY FS_StrictSubsetOrderingWellFounded
<1>2. \A n \in Nat : 1 .. n \in SUBSET Nat /\ IsFiniteSet(1 .. n)
  BY FS_Interval
<1>3. Ps \subseteq F /\ Ps # {}
  BY <1>2 DEF FiniteSubsetsOf
<1>4. ASSUME NEW k \in Nat, NEW n \in Nat, k < n
      PROVE  <<1 .. k, 1 .. n>> \in R
  <2>1. 1 .. k \subseteq 1 .. n /\ n \in 1 .. n /\ n \notin 1 .. k
    BY <1>4
  <2> QED
    BY <1>2, <2>1 DEF StrictSubsetOrdering
<1>5. \E P \in Ps : \A Q \in Ps : ~(<<Q, P>> \in R)
  <2> HIDE DEF Ps, R, F
  <2> QED
    BY <1>1, <1>3, WFMin
<1>6. PICK n \in T : \A Q \in Ps : ~(<<Q, 1 .. n>> \in R)
  BY <1>5
<1>7. \A k \in T : ~(k < n)
  BY <1>4, <1>6
<1> QED
  BY <1>7

\* Every element has its place in the document.
LEMMA OrderType ==
  /\ \A i \in DOMAIN Order : Order[i] \in Elements
  /\ \A e \in Elements : \E i \in DOMAIN Order : Order[i] = e
  /\ \E n \in Nat : Len(Order) = n /\ DOMAIN Order = 1 .. n
  /\ None \notin Elements
<1>1. Order \in Seq(Elements) /\ None \notin Elements
  BY OrderAssumption
<1>2. \A i \in DOMAIN Order : Order[i] \in Elements
  BY DEF Elements, Range
<1>3. \A e \in Elements : \E i \in DOMAIN Order : Order[i] = e
  BY DEF Elements, Range
<1>4. Len(Order) \in Nat /\ DOMAIN Order = 1 .. Len(Order)
  BY <1>1
<1> QED
  BY <1>1, <1>2, <1>3, <1>4

\* What is found is one of those looked for, and none of them stands before it.
LEMMA FirstIs ==
  ASSUME NEW S, S \subseteq Elements, S # {}
  PROVE  /\ First(S) \in S
         /\ \E i \in DOMAIN Order : /\ Order[i] = First(S)
                                    /\ \A j \in DOMAIN Order : Order[j] \in S => i <= j
<1>1. Places(S) # {} /\ Places(S) \subseteq Nat /\ Places(S) \subseteq DOMAIN Order
  <2>1. PICK e \in S : e \in Elements
    OBVIOUS
  <2>2. PICK i \in DOMAIN Order : Order[i] = e
    BY <2>1, OrderType
  <2>3. DOMAIN Order \subseteq Nat
    BY OrderType
  <2> QED
    BY <2>1, <2>2, <2>3 DEF Places
<1>2. \E n \in Places(S) : \A k \in Places(S) : n <= k
  BY <1>1, LeastNatural
<1>3. Min(Places(S)) \in Places(S) /\ \A k \in Places(S) : Min(Places(S)) <= k
  BY <1>2 DEF Min
<1>4. First(S) = Order[Min(Places(S))]
  BY DEF First
<1> DEFINE m == Min(Places(S))
<1>5. m \in DOMAIN Order /\ Order[m] \in S /\ \A j \in DOMAIN Order : Order[j] \in S => m <= j
  <2> HIDE DEF m
  <2>1. m \in Places(S) /\ \A k \in Places(S) : m <= k
    BY <1>3 DEF m
  <2> QED
    BY <2>1 DEF Places
<1> HIDE DEF m
<1> QED
  BY <1>4, <1>5 DEF m

\* Nothing is found only when there is nothing to find.
LEMMA FirstType ==
  ASSUME NEW S, S \subseteq Elements
  PROVE  /\ First(S) \in S \cup {None}
         /\ First(S) = None <=> S = {}
<1>1. CASE S = {}
  BY <1>1 DEF First
<1>2. CASE S # {}
  BY <1>2, FirstIs, OrderType
<1> QED
  BY <1>1, <1>2

-----------------------------------------------------------------------------
(***************************************************************************)
(* cefVideoSize looks for the largest of its candidates.                   *)
(***************************************************************************)
\* t is what was found among the candidates S: none of them is larger.
Largest(d, S, t) ==
  \/ t = None /\ S = {}
  \/ t \in S /\ \A b \in S : Covers(d.rect[b], d.rect[t]) => d.rect[b] = d.rect[t]

\* The candidates of S that are shown.
ShownOf(d, S) == {c \in S \ {None} : Shown(d.rect[c])}

\* The rectangles are ordered as pairs are.
LEMMA CoversOrder ==
  ASSUME NEW a \in Sizes, NEW b \in Sizes, NEW c \in Sizes
  PROVE  /\ (Covers(a, b) /\ Covers(b, c)) => Covers(a, c)
         /\ (Covers(a, b) /\ Covers(b, a)) => a = b
  BY DEF Covers, Sizes

\* Looking at one more candidate leaves the largest of them.
LEMMA BetterLargest ==
  ASSUME NEW d, Document(d), NEW S, S \subseteq Elements \cup {None},
         NEW t, Largest(d, ShownOf(d, S), t), NEW c \in Elements \cup {None}
  PROVE  Largest(d, ShownOf(d, S \cup {c}), Better(d, t, c))
<1> DEFINE V == ShownOf(d, S)
           W == ShownOf(d, S \cup {c})
<1>1. V \subseteq Elements /\ None \notin V /\ \A e \in Elements : d.rect[e] \in Sizes
  BY DEF ShownOf, Document
<1>2. CASE c = None \/ ~Shown(d.rect[c])
  <2>1. W = V
    BY <1>2 DEF ShownOf
  <2>2. Better(d, t, c) = t
    BY <1>2 DEF Better
  <2> QED
    BY <2>1, <2>2
<1>3. CASE c # None /\ Shown(d.rect[c])
  <2>1. W = V \cup {c} /\ c \in Elements
    BY <1>3 DEF ShownOf
  <2>2. CASE t = None
    <3>1. V = {}
      BY <2>2, <1>1 DEF Largest
    <3>2. Better(d, t, c) = c
      BY <1>3, <2>2 DEF Better
    <3> QED
      BY <2>1, <3>1, <3>2 DEF Largest
  <2>3. CASE t # None /\ Covers(d.rect[c], d.rect[t])
    <3>1. Better(d, t, c) = c
      BY <1>3, <2>3 DEF Better
    <3>2. t \in V /\ \A b \in V : Covers(d.rect[b], d.rect[t]) => d.rect[b] = d.rect[t]
      BY <2>3 DEF Largest
    <3>3. ASSUME NEW b \in V, Covers(d.rect[b], d.rect[c])
          PROVE  d.rect[b] = d.rect[c]
      <4>1. d.rect[b] \in Sizes /\ d.rect[c] \in Sizes /\ d.rect[t] \in Sizes
        BY <1>1, <2>1, <3>2
      <4>2. Covers(d.rect[b], d.rect[t])
        BY <4>1, <3>3, <2>3, CoversOrder
      <4>3. d.rect[b] = d.rect[t]
        BY <3>2, <4>2
      <4> QED
        BY <4>1, <4>3, <3>3, <2>3, CoversOrder
    <3> HIDE DEF V, W
    <3>4. Largest(d, W, c)
      BY <2>1, <3>3 DEF Largest
    <3> QED
      BY <3>1, <3>4 DEF W
  <2>4. CASE t # None /\ ~Covers(d.rect[c], d.rect[t])
    <3>1. Better(d, t, c) = t
      BY <2>4 DEF Better
    <3> HIDE DEF V, W
    <3>2. t \in V /\ \A b \in V : Covers(d.rect[b], d.rect[t]) => d.rect[b] = d.rect[t]
      BY <2>4 DEF Largest, V
    <3>3. Largest(d, W, t)
      BY <2>1, <2>4, <3>2 DEF Largest
    <3> QED
      BY <3>1, <3>3 DEF W
  <2> QED
    BY <2>2, <2>3, <2>4
<1> QED
  BY <1>2, <1>3

\* The candidates are elements of the page, or missing.
LEMMA CandidatesType ==
  ASSUME NEW s, NEW d, Document(d)
  PROVE  \A i \in 1 .. 4 : CandidatesOn(s, d)[i] \in Elements \cup {None}
<1>1. \A id : Named(d, id) \in Elements \cup {None}
  <2> SUFFICES ASSUME NEW id PROVE Named(d, id) \in Elements \cup {None}
    OBVIOUS
  <2> DEFINE S == {e \in d.present : Id[e] = id}
  <2>1. S \subseteq Elements
    BY DEF Document
  <2> HIDE DEF S
  <2>2. First(S) \in S \cup {None}
    BY <2>1, FirstType
  <2> QED
    BY <2>1, <2>2 DEF Named, S
<1>2. FirstPlayer(d) \in Elements \cup {None}
  <2>1. Players(d) \subseteq Elements
    BY DEF Document, Players
  <2> QED
    BY <2>1, FirstType DEF FirstPlayer
<1> QED
  BY <1>1, <1>2 DEF CandidatesOn

\* The target is the largest of all four.
LEMMA TargetLargest ==
  ASSUME NEW s, NEW d, Document(d)
  PROVE  Largest(d, ShownOf(d, Range(CandidatesOn(s, d))), TargetOn(s, d))
<1> DEFINE c == CandidatesOn(s, d)
           N == Elements \cup {None}
           t1 == Better(d, None, c[1])
           t2 == Better(d, t1, c[2])
           t3 == Better(d, t2, c[3])
           t4 == Better(d, t3, c[4])
<1>1. c[1] \in N /\ c[2] \in N /\ c[3] \in N /\ c[4] \in N
  BY CandidatesType
<1>2. Range(c) = ((({} \cup {c[1]}) \cup {c[2]}) \cup {c[3]}) \cup {c[4]}
  BY DEF CandidatesOn, Range
<1>3. TargetOn(s, d) = t4
  BY DEF TargetOn
<1> HIDE DEF c
<1>4. Largest(d, ShownOf(d, {}), None)
  BY DEF Largest, ShownOf
<1>5. Largest(d, ShownOf(d, {} \cup {c[1]}), t1)
  BY <1>1, <1>4, BetterLargest
<1> HIDE DEF t1
<1>6. Largest(d, ShownOf(d, ({} \cup {c[1]}) \cup {c[2]}), t2)
  BY <1>1, <1>5, BetterLargest
<1> HIDE DEF t2
<1>7. Largest(d, ShownOf(d, (({} \cup {c[1]}) \cup {c[2]}) \cup {c[3]}), t3)
  BY <1>1, <1>6, BetterLargest
<1> HIDE DEF t3
<1>8. Largest(d, ShownOf(d, ((({} \cup {c[1]}) \cup {c[2]}) \cup {c[3]}) \cup {c[4]}), t4)
  BY <1>1, <1>7, BetterLargest
<1> QED
  BY <1>2, <1>3, <1>8 DEF c

\* Only what is in the page, its sizes and its players decide the size.
LEMMA SameSize ==
  ASSUME NEW s, NEW d, NEW n, n.present = d.present, n.rect = d.rect, n.player = d.player
  PROVE  SizeOn(s, n) = SizeOn(s, d) /\ FirstPlayer(n) = FirstPlayer(d) /\ TargetOn(s, n) = TargetOn(s, d)
<1>1. \A id : Named(n, id) = Named(d, id)
  BY DEF Named
<1>2. FirstPlayer(n) = FirstPlayer(d)
  BY DEF FirstPlayer, Players
<1>3. \A t, c : Better(n, t, c) = Better(d, t, c)
  BY DEF Better
<1>4. CandidatesOn(s, n) = CandidatesOn(s, d)
  BY <1>1, <1>2 DEF CandidatesOn
<1>5. TargetOn(s, n) = TargetOn(s, d)
  BY <1>3, <1>4 DEF TargetOn
<1> QED
  BY <1>2, <1>5 DEF SizeOn

\* The target is an element, the size one that VDR understands.
LEMMA SizeType ==
  ASSUME NEW s, NEW d, Document(d)
  PROVE  TargetOn(s, d) \in Elements \cup {None} /\ SizeOn(s, d) \in Sizes
<1>1. Range(CandidatesOn(s, d)) \subseteq Elements \cup {None}
  <2>1. DOMAIN CandidatesOn(s, d) = 1 .. 4
    BY DEF CandidatesOn
  <2> QED
    BY <2>1, CandidatesType DEF Range
<1>2. TargetOn(s, d) \in Elements \cup {None}
  BY <1>1, TargetLargest DEF Largest, ShownOf
<1>3. Full \in Sizes
  BY DEF Full, Sizes
<1> QED
  BY <1>2, <1>3 DEF SizeOn, Document

-----------------------------------------------------------------------------
(***************************************************************************)
(* The requests on their way.                                              *)
(***************************************************************************)
\* A sequence with one element more, position by position.
LEMMA AppendSeq ==
  ASSUME NEW S, NEW q \in Seq(S), NEW x \in S
  PROVE  /\ Append(q, x) \in Seq(S) /\ Len(q) \in Nat
         /\ DOMAIN q = 1 .. Len(q) /\ DOMAIN Append(q, x) = 1 .. Len(q) + 1
         /\ Append(q, x)[Len(q) + 1] = x
         /\ \A i \in 1 .. Len(q) : Append(q, x)[i] = q[i]
  OBVIOUS

\* The same for the rest of a sequence.
LEMMA TailSeq ==
  ASSUME NEW S, NEW q \in Seq(S), q # <<>>
  PROVE  /\ Tail(q) \in Seq(S) /\ Len(q) \in Nat \ {0} /\ q[1] \in S /\ Head(q) = q[1]
         /\ DOMAIN q = 1 .. Len(q) /\ DOMAIN Tail(q) = 1 .. Len(q) - 1
         /\ \A i \in 1 .. Len(q) - 1 : Tail(q)[i] = q[i + 1]
  OBVIOUS

\* VDR is told last of the size that is sent last; other requests change nothing.
LEMMA ToldAppend ==
  ASSUME NEW q \in Seq(Requests), NEW x \in Requests, NEW r0, NEW r
  PROVE  /\ (x.kind = "PLAY" /\ Told(q, r0, r)) => Told(Append(q, x), r0, r)
         /\ x.kind = "SIZE" => Told(Append(q, x), r0, x.rect)
<1> DEFINE p == Append(q, x)
           L == Len(q)
<1>1. /\ L \in Nat /\ DOMAIN q = 1 .. L /\ DOMAIN p = 1 .. L + 1
      /\ p[L + 1] = x /\ \A i \in 1 .. L : p[i] = q[i]
  BY AppendSeq
<1>2. /\ 1 .. L \subseteq 1 .. L + 1 /\ L + 1 \in 1 .. L + 1
      /\ \A i \in 1 .. L + 1 : i \in 1 .. L \/ i = L + 1
      /\ \A i \in 1 .. L : i < L + 1
  BY <1>1
<1> HIDE DEF p, L
<1>3. (x.kind = "PLAY" /\ Told(q, r0, r)) => Told(p, r0, r)
  BY <1>1, <1>2 DEF Told
<1>4. x.kind = "SIZE" => Told(p, r0, x.rect)
  BY <1>1, <1>2 DEF Told
<1> QED
  BY <1>3, <1>4 DEF p

\* A request that is carried out leaves what VDR will know.
LEMMA ToldTail ==
  ASSUME NEW q \in Seq(Requests), q # <<>>, NEW r0, NEW r1, NEW r, Told(q, r0, r),
         r1 = IF q[1].kind = "SIZE" THEN q[1].rect ELSE r0
  PROVE  Told(Tail(q), r1, r)
<1> DEFINE p == Tail(q)
           L == Len(q)
<1>1. /\ L \in Nat \ {0} /\ DOMAIN q = 1 .. L /\ DOMAIN p = 1 .. L - 1
      /\ \A i \in 1 .. L - 1 : p[i] = q[i + 1]
  BY TailSeq
<1>2. /\ \A i \in 1 .. L - 1 : i + 1 \in 1 .. L
      /\ \A i \in 1 .. L : i = 1 \/ i - 1 \in 1 .. L - 1
      /\ \A i \in 1 .. L : i = 1 \/ (i - 1) + 1 = i
      /\ 1 \in 1 .. L
  BY <1>1
<1> HIDE DEF p, L
<1>3. \A i \in 1 .. L - 1 : p[i].kind = "SIZE" =>
        p[i].rect = r \/ \E j \in 1 .. L - 1 : i < j /\ p[j].kind = "SIZE"
  <2> SUFFICES ASSUME NEW i \in 1 .. L - 1, p[i].kind = "SIZE", p[i].rect # r
               PROVE  \E j \in 1 .. L - 1 : i < j /\ p[j].kind = "SIZE"
    OBVIOUS
  <2>1. q[i + 1].kind = "SIZE" /\ q[i + 1].rect # r /\ i + 1 \in 1 .. L
    BY <1>1, <1>2
  <2>2. PICK j \in 1 .. L : i + 1 < j /\ q[j].kind = "SIZE"
    BY <1>1, <2>1 DEF Told
  <2>3. j - 1 \in 1 .. L - 1 /\ i < j - 1 /\ (j - 1) + 1 = j
    BY <1>1, <1>2, <2>2
  <2>4. p[j - 1].kind = "SIZE"
    BY <1>1, <2>2, <2>3
  <2> QED
    BY <2>3, <2>4
<1>4. (\E i \in 1 .. L - 1 : p[i].kind = "SIZE") \/ r1 = r
  <2>1. CASE \E i \in 1 .. L : i # 1 /\ q[i].kind = "SIZE"
    <3>1. PICK i \in 1 .. L : i # 1 /\ q[i].kind = "SIZE"
      BY <2>1
    <3>2. i - 1 \in 1 .. L - 1 /\ p[i - 1] = q[i]
      BY <1>1, <1>2, <3>1
    <3> QED
      BY <3>1, <3>2
  <2>2. CASE \A i \in 1 .. L : i = 1 \/ q[i].kind # "SIZE"
    <3>1. CASE q[1].kind = "SIZE"
      <4>1. \A j \in 1 .. L : 1 < j => q[j].kind # "SIZE"
        BY <2>2
      <4>2. q[1].rect = r
        BY <1>1, <1>2, <3>1, <4>1 DEF Told
      <4> QED
        BY <3>1, <4>2
    <3>2. CASE q[1].kind # "SIZE"
      BY <1>1, <2>2, <3>2 DEF Told
    <3> QED
      BY <3>1, <3>2
  <2> QED
    BY <2>1, <2>2
<1> QED
  BY <1>1, <1>3, <1>4 DEF Told, p

\* Nothing about a size is on its way: VDR knows it.
LEMMA ToldNow ==
  ASSUME NEW q, NEW r0, NEW r, Told(q, r0, r), \A i \in DOMAIN q : q[i].kind # "SIZE"
  PROVE  r0 = r
  BY DEF Told

-----------------------------------------------------------------------------
(***************************************************************************)
(* What the polyfill does to a document.                                   *)
(***************************************************************************)
\* The elements stay in the page, and no player is taken away.
Keeps(d, n) == /\ n.present = d.present
               /\ \A e \in Elements : d.player[e] # "none" => n.player[e] # "none"

\* What was written is written as long as nothing is.
LEMMA SameListed ==
  ASSUME NEW s, NEW d, NEW n, Listed(s, d),
         n.things = d.things, n.style = d.style, n.app = d.app, n.list = d.list
  PROVE  Listed(s, n)
<1>1. \A t : Mine(n, t) = Mine(d, t)
  BY DEF Mine
<1>2. \A way : Fits(s, d, way) => Fits(s, n, way)
  BY <1>1 DEF Fits
<1> QED
  BY <1>1, <1>2 DEF Listed

\* A good document stays good when only what the properties leave open changes.
LEMMA GoodSame ==
  ASSUME NEW s, NEW d, NEW n, NEW r0, NEW l, Good(s, d, r0, l), DOMAIN n = Fields,
         n.present = d.present, n.rect = d.rect, n.player = d.player, n.data = d.data,
         n.mapped \in SUBSET Elements, n.sent = d.sent, n.seen \in {d.seen, FALSE},
         n.timers = d.timers, n.things = d.things, n.style = d.style, n.app = d.app,
         n.list = d.list
  PROVE  Good(s, n, r0, l) /\ Keeps(d, n)
<1>1. Document(n)
  BY DEF Good, Document
<1>2. SizeOn(s, n) = SizeOn(s, d) /\ FirstPlayer(n) = FirstPlayer(d) /\ TargetOn(s, n) = TargetOn(s, d)
  BY SameSize
<1>3. Measured(s, n, r0)
  BY <1>2 DEF Good, Measured
<1>4. Spoilt(n, l)
  BY DEF Good, Spoilt
<1>5. Way(s, n) = Way(s, d)
  BY <1>2 DEF Way, process_video_quirk
<1>6. Styled(s, n)
  <2>1. DueLast(s, d) => DueLast(s, n)
    BY <1>5 DEF DueLast
  <2>2. Fits(s, d, Way(s, d)) => Fits(s, n, Way(s, n))
    BY <1>5 DEF Fits, Mine
  <2>3. n.seen => d.seen
    OBVIOUS
  <2> QED
    BY <1>2, <2>1, <2>2, <2>3 DEF Good, Styled
<1>7. Listed(s, n)
  BY SameListed DEF Good
<1> QED
  BY <1>1, <1>3, <1>4, <1>6, <1>7 DEF Good, Keeps

\* What sending a size does, field by field.
LEMMA SizeSentIs ==
  ASSUME NEW d, DOMAIN d = Fields, NEW r
  PROVE  LET n == SizeSent(d, r)
         IN /\ DOMAIN n = Fields
            /\ n.present = d.present /\ n.rect = d.rect /\ n.player = d.player
            /\ n.data = d.data /\ n.mapped = d.mapped /\ n.seen = TRUE
            /\ n.timers = d.timers /\ n.things = d.things /\ n.style = d.style /\ n.app = d.app
            /\ n.list = d.list
            /\ n.sent = Append(d.sent, [kind |-> "SIZE", rect |-> r])
  BY DEF Fields, SizeSent

\* A spoilt address stays what it is when a request that asks for none follows.
LEMMA SpoiltAppend ==
  ASSUME NEW d, NEW n, NEW l, Document(d), Spoilt(d, l), NEW x \in Requests,
         n.data = d.data, n.player = d.player, n.sent = Append(d.sent, x),
         x.kind = "PLAY" => (x.data = "fail" => l)
  PROVE  Spoilt(n, l)
<1>1. d.sent \in Seq(Requests)
  BY DEF Document
<1>2. /\ Len(d.sent) \in Nat /\ DOMAIN d.sent = 1 .. Len(d.sent)
      /\ DOMAIN n.sent = 1 .. Len(d.sent) + 1 /\ n.sent[Len(d.sent) + 1] = x
      /\ \A i \in 1 .. Len(d.sent) : n.sent[i] = d.sent[i]
  BY <1>1, AppendSeq
<1>3. \A i \in 1 .. Len(d.sent) + 1 : i \in 1 .. Len(d.sent) \/ i = Len(d.sent) + 1
  BY <1>2
<1>4. \A i \in DOMAIN n.sent : (n.sent[i].kind = "PLAY" /\ n.sent[i].data = "fail") => l
  BY <1>2, <1>3 DEF Spoilt
<1> QED
  BY <1>4 DEF Spoilt

\* VDR is sent the size of what is there now.
LEMMA SizeSentGood ==
  ASSUME NEW s, NEW d, NEW r0, NEW l, Document(d), Listed(s, d), Spoilt(d, l),
         TargetOn(s, d) = None \/ (DueLast(s, d) /\ FirstPlayer(d) # None)
  PROVE  Good(s, SizeSent(d, SizeOn(s, d)), r0, l) /\ Keeps(d, SizeSent(d, SizeOn(s, d)))
<1> DEFINE r == SizeOn(s, d)
           n == SizeSent(d, r)
           x == [kind |-> "SIZE", rect |-> r]
<1>1. r \in Sizes
  BY SizeType
<1>2. x \in Requests /\ x.kind = "SIZE" /\ x.rect = r
  BY <1>1 DEF Requests
<1>3. /\ DOMAIN n = Fields
      /\ n.present = d.present /\ n.rect = d.rect /\ n.player = d.player
      /\ n.data = d.data /\ n.mapped = d.mapped /\ n.seen = TRUE
      /\ n.timers = d.timers /\ n.things = d.things /\ n.style = d.style /\ n.app = d.app
      /\ n.list = d.list
      /\ n.sent = Append(d.sent, x)
  BY SizeSentIs DEF Document
<1> HIDE DEF n, x
<1>4. d.sent \in Seq(Requests)
  BY DEF Document
<1>5. n.sent \in Seq(Requests) /\ Told(n.sent, r0, r)
  BY <1>2, <1>3, <1>4, AppendSeq, ToldAppend
<1>6. SizeOn(s, n) = r /\ FirstPlayer(n) = FirstPlayer(d) /\ TargetOn(s, n) = TargetOn(s, d)
  BY <1>3, SameSize
<1>7. Spoilt(n, l)
  BY <1>2, <1>3, SpoiltAppend
<1>8. Document(n)
  BY <1>3, <1>5 DEF Document
<1>10. Styled(s, n)
  <2>1. Way(s, n) = Way(s, d)
    BY <1>3, <1>6 DEF Way, process_video_quirk
  <2>2. TargetOn(s, n) = None \/ (DueLast(s, n) /\ FirstPlayer(n) # None)
    BY <1>3, <1>6, <2>1 DEF DueLast
  <2> QED
    BY <2>2 DEF Styled
<1>11. Listed(s, n)
  BY <1>3, SameListed
<1> HIDE DEF r
<1>9. Good(s, n, r0, l) /\ Keeps(d, n)
  BY <1>3, <1>5, <1>6, <1>7, <1>8, <1>10, <1>11 DEF Good, Measured, Keeps
<1> QED
  BY <1>9 DEF n, r

\* cefVideoSize measures; without a player it may leave things as they are.
LEMMA CefVideoSizeGood ==
  ASSUME NEW d, NEW r0, NEW l, Document(d), Listed(site, d), Spoilt(d, l),
         (Measured(site, d, r0) /\ Styled(site, d)) \/ FirstPlayer(d) # None
  PROVE  Good(site, cefVideoSize(d), r0, l) /\ Keeps(d, cefVideoSize(d))
<1> DEFINE n == cefVideoSize(d)
           t == Target(d)
<1>1. t = TargetOn(site, d)
  BY DEF Target, TargetOn, Candidates, CandidatesOn
<1>2. CASE t = None
  <2>1. n = SizeSent(d, Full) /\ SizeOn(site, d) = Full
    BY <1>1, <1>2 DEF cefVideoSize, SizeOn
  <2>2. TargetOn(site, d) = None
    BY <1>1, <1>2
  <2>3. /\ Good(site, SizeSent(d, SizeOn(site, d)), r0, l)
        /\ Keeps(d, SizeSent(d, SizeOn(site, d)))
    BY <2>2, SizeSentGood
  <2> QED
    BY <2>1, <2>3
<1>3. CASE t # None /\ FirstPlayer(d) = None
  <2>1. n = d
    BY <1>3 DEF cefVideoSize
  <2>2. Measured(site, d, r0) /\ Styled(site, d)
    BY <1>3
  <2> QED
    BY <2>1, <2>2 DEF Good, Keeps
<1>4. CASE t # None /\ FirstPlayer(d) # None
  <2> DEFINE w == process_video_quirk(d, d.rect[t])
             m == [d EXCEPT !.timers = Append(@, w)]
  <2>1. n = SizeSent(m, d.rect[t])
    BY <1>4 DEF cefVideoSize
  <2>2. DOMAIN d = Fields /\ d.timers \in Seq(Ways)
    BY DEF Document
  <2>7. w \in Ways /\ w = Way(site, d)
    BY <1>1, <1>4 DEF process_video_quirk, Ways, Way, SizeOn
  <2>3. /\ DOMAIN m = Fields
        /\ m.present = d.present /\ m.rect = d.rect /\ m.player = d.player
        /\ m.data = d.data /\ m.mapped = d.mapped /\ m.seen = d.seen /\ m.sent = d.sent
        /\ m.things = d.things /\ m.style = d.style /\ m.app = d.app /\ m.list = d.list
        /\ m.timers = Append(d.timers, w)
    BY <2>2 DEF Fields
  <2> HIDE DEF m, w
  <2>8. m.timers \in Seq(Ways) /\ m.timers # <<>> /\ m.timers[Len(m.timers)] = w
    <3>1. Append(d.timers, w) \in Seq(Ways) /\ Len(Append(d.timers, w)) = Len(d.timers) + 1
      BY <2>2, <2>7
    <3> QED
      BY <2>2, <2>3, <2>7, <3>1, AppendSeq
  <2>4. Document(m) /\ Spoilt(m, l)
    BY <2>3, <2>8 DEF Document, Spoilt
  <2>10. Listed(site, m)
    BY <2>3, SameListed
  <2>5. SizeOn(site, m) = d.rect[t] /\ FirstPlayer(m) = FirstPlayer(d)
    BY <1>1, <1>4, <2>3, SameSize DEF SizeOn
  <2>9. DueLast(site, m)
    <3>1. Way(site, m) = w
      BY <1>1, <1>4, <2>3, <2>5 DEF Way, process_video_quirk, w
    <3> QED
      BY <2>8, <3>1 DEF DueLast
  <2>6. Good(site, n, r0, l) /\ Keeps(m, n)
    BY <1>4, <2>1, <2>4, <2>5, <2>9, <2>10, SizeSentGood
  <2> QED
    BY <2>3, <2>6 DEF Keeps
<1> QED
  BY <1>2, <1>3, <1>4

\* An object that has got its methods, as far as the properties go.
LEMMA MappedGood ==
  ASSUME NEW s, NEW d, NEW r0, NEW l, Good(s, d, r0, l), NEW e \in Elements
  PROVE  LET n == [d EXCEPT !.mapped = @ \cup {e}]
         IN Good(s, n, r0, l) /\ Keeps(d, n)
<1> DEFINE n == [d EXCEPT !.mapped = @ \cup {e}]
<1>1. DOMAIN d = Fields /\ d.mapped \in SUBSET Elements /\ d.seen \in BOOLEAN
  BY DEF Good, Document
<1>2. /\ DOMAIN n = Fields
      /\ n.present = d.present /\ n.rect = d.rect /\ n.player = d.player /\ n.data = d.data
      /\ n.sent = d.sent /\ n.seen = d.seen /\ n.mapped = d.mapped \cup {e}
      /\ n.timers = d.timers /\ n.things = d.things /\ n.style = d.style /\ n.app = d.app
      /\ n.list = d.list
  BY <1>1 DEF Fields
<1> HIDE DEF n
<1>3. n.mapped \in SUBSET Elements
  BY <1>1, <1>2
<1>4. Good(s, n, r0, l) /\ Keeps(d, n)
  BY <1>2, <1>3, GoodSame
<1> QED
  BY <1>4 DEF n

\* Live TV is played in an object of its own, which is then measured.
LEMMA BroadcastGood ==
  ASSUME NEW d, NEW r0, NEW l, Good(site, d, r0, l), NEW e \in Elements, e \in d.present,
         d.player[e] = "none", Type[e] = "broadcast"
  PROVE  Good(site, BroadcastMapper(d, e), r0, l) /\ Keeps(d, BroadcastMapper(d, e))
<1> DEFINE n == BroadcastMapper(d, e)
           live == [d EXCEPT !.player[e] = "live", !.scripts = @ + 1]
           c == cefVideoSize(live)
<1>1. CASE e \in Filled
  <2>1. n = [d EXCEPT !.mapped = @ \cup {e}]
    BY <1>1 DEF BroadcastMapper
  <2> QED
    BY <2>1, MappedGood
<1>2. CASE e \notin Filled
  <2>1. n = [c EXCEPT !.mapped = @ \cup {e}]
    BY <1>2 DEF BroadcastMapper
  <2>2. DOMAIN d = Fields /\ d.player \in [Elements -> Kinds]
    BY DEF Good, Document
  <2>3. /\ DOMAIN live = Fields
        /\ live.present = d.present /\ live.rect = d.rect /\ live.data = d.data
        /\ live.mapped = d.mapped /\ live.seen = d.seen /\ live.sent = d.sent
        /\ live.timers = d.timers /\ live.things = d.things /\ live.style = d.style /\ live.app = d.app
        /\ live.list = d.list
        /\ live.player = [d.player EXCEPT ![e] = "live"]
    BY <2>2 DEF Fields
  <2> HIDE DEF live
  <2>4. live.player \in [Elements -> Kinds] /\ live.player[e] = "live"
        /\ \A b \in Elements : b # e => live.player[b] = d.player[b]
    BY <2>2, <2>3 DEF Kinds
  <2>5. Document(live)
    BY <2>3, <2>4 DEF Good, Document
  <2>6. Spoilt(live, l)
    <3>1. Spoilt(d, l)
      BY DEF Good
    <3>2. d.data[e] # "fail"
      BY <3>1 DEF Spoilt
    <3> QED
      BY <3>1, <3>2, <2>3, <2>4 DEF Spoilt
  <2>7. FirstPlayer(live) # None
    <3>1. Players(live) \subseteq Elements
      BY <2>5 DEF Document, Players
    <3>2. e \in Players(live)
      BY <2>3, <2>4 DEF Players
    <3> QED
      BY <3>1, <3>2, FirstType DEF FirstPlayer
  <2>8. Good(site, c, r0, l) /\ Keeps(live, c)
    <3>1. Listed(site, live)
      BY <2>3, SameListed DEF Good
    <3> QED
      BY <2>5, <2>6, <2>7, <3>1, CefVideoSizeGood
  <2> HIDE DEF c
  <2>9. Good(site, n, r0, l) /\ Keeps(c, n)
    BY <2>1, <2>8, MappedGood
  <2> QED
    BY <2>3, <2>4, <2>8, <2>9 DEF Keeps
<1> QED
  BY <1>1, <1>2

\* A film is spoilt only when it gets a player, and its address is sent before.
LEMMA AVControlGood ==
  ASSUME NEW d, NEW r0, NEW l, Good(site, d, r0, l), NEW e \in Elements, e \in d.present,
         d.player[e] = "none", Type[e] \in {"av", "dash"}
  PROVE  Good(site, AVControlMapper(d, e), r0, l) /\ Keeps(d, AVControlMapper(d, e))
<1> DEFINE n == AVControlMapper(d, e)
           plays == Type[e] = "av" /\ d.data[e] # "empty"
           x == [kind |-> "PLAY", data |-> d.data[e]]
<1>1. /\ DOMAIN d = Fields /\ d.player \in [Elements -> Kinds] /\ d.data \in [Elements -> Addresses]
      /\ d.mapped \in SUBSET Elements /\ d.sent \in Seq(Requests)
      /\ Document(d) /\ Spoilt(d, l)
  BY DEF Good, Document
<1>2. /\ DOMAIN n = Fields
      /\ n.present = d.present /\ n.rect = d.rect /\ n.seen = FALSE
      /\ n.mapped = d.mapped \cup {e}
      /\ n.timers = d.timers /\ n.things = d.things /\ n.style = d.style /\ n.app = d.app
      /\ n.list = d.list
      /\ n.player = [d.player EXCEPT ![e] = IF plays THEN "film" ELSE "idle"]
      /\ n.data = [d.data EXCEPT ![e] = "fail"]
      /\ n.sent = IF plays THEN Append(d.sent, x) ELSE d.sent
  BY <1>1 DEF Fields, AVControlMapper
<1>3. /\ n.player \in [Elements -> Kinds] /\ n.player[e] \in {"film", "idle"}
      /\ \A b \in Elements : b # e => n.player[b] = d.player[b]
  <2> HIDE DEF n, plays, x
  <2>1. (IF plays THEN "film" ELSE "idle") \in {"film", "idle"}
    OBVIOUS
  <2> QED
    BY <1>1, <1>2, <2>1 DEF Kinds
<1>4. /\ n.data \in [Elements -> Addresses] /\ n.data[e] = "fail"
      /\ \A b \in Elements : b # e => n.data[b] = d.data[b]
  <2> HIDE DEF n, plays, x
  <2> QED
    BY <1>1, <1>2 DEF Addresses
<1>5. x \in Requests /\ x.kind = "PLAY" /\ (x.data = "fail" => l)
  <2>1. d.data[e] = "fail" => l
    BY <1>1 DEF Spoilt
  <2> QED
    BY <1>1, <2>1 DEF Requests
<1> HIDE DEF n, plays, x
<1>6. n.sent \in Seq(Requests)
  BY <1>1, <1>2, <1>5, AppendSeq
<1>7. Document(n)
  BY <1>1, <1>2, <1>3, <1>4, <1>6 DEF Document
<1>8. \A i \in DOMAIN n.sent : (n.sent[i].kind = "PLAY" /\ n.sent[i].data = "fail") => l
  <2>1. CASE plays
    <3>1. /\ Len(d.sent) \in Nat /\ DOMAIN d.sent = 1 .. Len(d.sent)
          /\ DOMAIN n.sent = 1 .. Len(d.sent) + 1 /\ n.sent[Len(d.sent) + 1] = x
          /\ \A i \in 1 .. Len(d.sent) : n.sent[i] = d.sent[i]
      BY <1>1, <1>2, <1>5, <2>1, AppendSeq
    <3>2. \A i \in 1 .. Len(d.sent) + 1 : i \in 1 .. Len(d.sent) \/ i = Len(d.sent) + 1
      BY <3>1
    <3> QED
      BY <1>1, <1>5, <3>1, <3>2 DEF Spoilt
  <2>2. CASE ~plays
    BY <1>1, <1>2, <2>2 DEF Spoilt
  <2> QED
    BY <2>1, <2>2
<1>9. Spoilt(n, l)
  <2>1. \A b \in Elements : n.data[b] = "fail" =>
          Type[b] \in {"av", "dash"} /\ (l \/ n.player[b] \in {"film", "idle"})
    BY <1>1, <1>3, <1>4 DEF Spoilt
  <2>2. \A b \in Elements : n.player[b] = "live" => Type[b] = "broadcast"
    BY <1>1, <1>3 DEF Spoilt
  <2> QED
    BY <1>8, <2>1, <2>2 DEF Spoilt
<1>10. Good(site, n, r0, l) /\ Keeps(d, n)
  <2>1. \A b \in Elements : d.player[b] # "none" => n.player[b] # "none"
    BY <1>3
  <2>2. Listed(site, n)
    BY <1>2, SameListed DEF Good
  <2> QED
    BY <1>2, <1>7, <1>9, <2>1, <2>2 DEF Good, Measured, Styled, Keeps
<1> QED
  BY <1>10 DEF n

\* Every node that is looked at is left good.
LEMMA CheckNodeGood ==
  ASSUME NEW d, NEW r0, NEW l, Good(site, d, r0, l), NEW e \in Elements, e \in d.present
  PROVE  /\ Good(site, checkNodeTypeAndInjectVideoMethods(d, e), r0, l)
         /\ Keeps(d, checkNodeTypeAndInjectVideoMethods(d, e))
<1> DEFINE n == checkNodeTypeAndInjectVideoMethods(d, e)
<1>1. CASE d.player[e] # "none"
  <2>1. n = d
    BY <1>1 DEF checkNodeTypeAndInjectVideoMethods
  <2> QED
    BY <2>1 DEF Keeps
<1>2. CASE d.player[e] = "none" /\ Type[e] = "broadcast"
  <2>1. n = BroadcastMapper(d, e)
    BY <1>2 DEF checkNodeTypeAndInjectVideoMethods
  <2> QED
    BY <1>2, <2>1, BroadcastGood
<1>3. CASE d.player[e] = "none" /\ Type[e] \in {"av", "dash"}
  <2>1. n = AVControlMapper(d, e)
    BY <1>3 DEF checkNodeTypeAndInjectVideoMethods
  <2> QED
    BY <1>3, <2>1, AVControlGood
<1>4. CASE d.player[e] = "none" /\ Type[e] \notin {"broadcast", "av", "dash"}
  <2>1. n = d
    BY <1>4 DEF checkNodeTypeAndInjectVideoMethods
  <2> QED
    BY <2>1 DEF Keeps
<1> QED
  BY <1>1, <1>2, <1>3, <1>4

\* The document after n nodes of it have been looked at, as initialize computes it.
Looked(f, d, n) == IF n = 0 THEN d
                   ELSE IF Order[n] \in d.present THEN checkNodeTypeAndInjectVideoMethods(f[n - 1], Order[n])
                   ELSE f[n - 1]
Looks(f, d) == f = [n \in 0 .. Len(Order) |-> Looked(f, d, n)]

\* There is such a function, for any number of nodes.
LEMMA Looking ==
  ASSUME NEW d
  PROVE  \E f : Looks(f, d)
<1> DEFINE G(f, m) == f = [n \in 0 .. m |-> Looked(f, d, n)]
           T == {m \in Nat : ~ \E f : G(f, m)}
<1>0. Len(Order) \in Nat
  BY OrderType
<1>1. SUFFICES ASSUME T # {}
               PROVE  FALSE
  BY <1>0 DEF Looks
<1>2. PICK m \in T : \A k \in T : m <= k
  BY <1>1, LeastNatural
<1>3. CASE m = 0
  <2> DEFINE f == [n \in 0 .. 0 |-> d]
  <2>1. f = [n \in 0 .. 0 |-> Looked(f, d, n)]
    BY DEF Looked
  <2> QED
    BY <1>3, <2>1
<1>4. CASE m # 0
  <2>1. m \in Nat /\ m - 1 \in Nat /\ m - 1 < m
    BY <1>4
  <2>2. m - 1 \notin T
    <3> HIDE DEF T
    <3> QED
      BY <1>2, <2>1
  <2>3. PICK f : G(f, m - 1)
    BY <2>1, <2>2
  <2> DEFINE g == [n \in 0 .. m |-> Looked(f, d, n)]
  <2>4. ASSUME NEW n \in 0 .. m - 1
        PROVE  g[n] = f[n]
    <3>1. n \in 0 .. m
      BY <2>1
    <3>2. f[n] = Looked(f, d, n)
      BY <2>3
    <3> QED
      BY <3>1, <3>2
  <2>5. ASSUME NEW n \in 0 .. m
        PROVE  Looked(f, d, n) = Looked(g, d, n)
    <3>1. CASE n = 0
      BY <3>1 DEF Looked
    <3>2. CASE n # 0
      <4>1. n - 1 \in 0 .. m - 1
        BY <3>2
      <4>2. g[n - 1] = f[n - 1]
        BY <2>4, <4>1
      <4> QED
        BY <3>2, <4>2 DEF Looked
    <3> QED
      BY <3>1, <3>2
  <2>6. G(g, m)
    BY <2>5
  <2> QED
    BY <2>6
<1> QED
  BY <1>3, <1>4

\* initialize is its last value.
LEMMA InitializeUnfold ==
  ASSUME NEW d, FirstPlayer(d) = None
  PROVE  \E f : Looks(f, d) /\ initialize(d) = f[Len(Order)]
<1>1. Looks(CHOOSE f : Looks(f, d), d)
  BY Looking
<1> QED
  BY <1>1 DEF initialize, Looks, Looked

\* A page that is initialised, or is so already, is good.
LEMMA InitializeGood ==
  ASSUME NEW d, NEW r0, NEW l, Good(site, d, r0, l)
  PROVE  Good(site, initialize(d), r0, l) /\ Keeps(d, initialize(d))
<1>1. CASE FirstPlayer(d) # None
  <2>1. initialize(d) = d
    BY <1>1 DEF initialize
  <2> QED
    BY <2>1 DEF Keeps
<1>2. CASE FirstPlayer(d) = None
  <2> DEFINE N == Len(Order)
             P(x) == Good(site, x, r0, l) /\ Keeps(d, x)
  <2>1. PICK f : Looks(f, d) /\ initialize(d) = f[N]
    BY <1>2, InitializeUnfold
  <2>2. N \in Nat /\ N \in 0 .. N
    BY OrderType
  <2>3. \A n \in 0 .. N : f[n] = Looked(f, d, n)
    BY <2>1 DEF Looks
  <2> DEFINE T == {n \in 0 .. N : ~P(f[n])}
  <2>4. SUFFICES ASSUME ~P(f[N])
                 PROVE  FALSE
    BY <2>1
  <2>5. T # {} /\ T \subseteq Nat
    <3> HIDE DEF P, N
    <3> QED
      BY <2>2, <2>4
  <2>6. PICK n \in T : \A k \in T : n <= k
    BY <2>5, LeastNatural
  <2>7. n \in 0 .. N /\ ~P(f[n])
    <3> HIDE DEF P, N
    <3> QED
      BY <2>6
  <2>8. CASE n = 0
    <3>1. f[n] = d
      BY <2>3, <2>7, <2>8 DEF Looked
    <3>2. P(d)
      BY DEF Keeps
    <3> QED
      BY <2>7, <3>1, <3>2
  <2>9. CASE n # 0
    <3> DEFINE m == f[n - 1]
               e == Order[n]
    <3>1. n - 1 \in 0 .. N /\ n - 1 < n /\ n \in 1 .. N
      BY <2>2, <2>7, <2>9
    <3>2. n - 1 \notin T
      <4> HIDE DEF T, N
      <4> QED
        BY <2>6, <3>1, <2>5
    <3>3. P(m)
      <4> HIDE DEF P, N
      <4> QED
        BY <3>1, <3>2
    <3>4. f[n] = IF e \in d.present THEN checkNodeTypeAndInjectVideoMethods(m, e) ELSE m
      <4>1. f[n] = Looked(f, d, n)
        BY <2>3, <2>7
      <4> QED
        BY <4>1, <2>9 DEF Looked
    <3>5. e \in Elements
      BY <3>1, OrderType
    <3> HIDE DEF m, e
    <3>6. m.present = d.present
      BY <3>3 DEF Keeps
    <3>7. CASE e \in d.present
      <4>1. Good(site, f[n], r0, l) /\ Keeps(m, f[n])
        BY <3>3, <3>4, <3>5, <3>6, <3>7, CheckNodeGood
      <4>2. Keeps(d, f[n])
        BY <3>3, <4>1 DEF Keeps
      <4> QED
        BY <2>7, <4>1, <4>2
    <3>8. CASE e \notin d.present
      BY <2>7, <3>3, <3>4, <3>8
    <3> QED
      BY <3>7, <3>8
  <2> QED
    BY <2>8, <2>9
<1> QED
  BY <1>1, <1>2

-----------------------------------------------------------------------------
(***************************************************************************)
(* The invariant, step by step.                                            *)
(***************************************************************************)
\* A page is good as it is read: nothing has been sent.
LEMMA InitInv == Init => IInv
<1> SUFFICES ASSUME Init
             PROVE  IInv
  OBVIOUS
<1>1. PICK p \in Pages : site = p.site /\ doc = PageStart(p)
  BY DEF Init
<1>2. p.present \subseteq Elements /\ p.data \in {"url", "empty"}
  BY PagesAssumption
<1>3. Full \in Sizes
  BY DEF Full, Sizes
<1>4. /\ DOMAIN doc = Fields
      /\ doc.present = p.present /\ doc.rect = [e \in Elements |-> Full]
      /\ doc.player = [e \in Elements |-> "none"] /\ doc.data = [e \in Elements |-> p.data]
      /\ doc.mapped = {} /\ doc.sent = <<>> /\ doc.seen = FALSE
      /\ doc.timers = <<>> /\ DOMAIN doc.style = doc.things /\ doc.app = FALSE
      /\ doc.list = "none" /\ \A t \in doc.things : doc.style[t] = "page"
  BY <1>1 DEF PageStart, Fields
<1>5. Document(doc)
  <2>1. doc.player \in [Elements -> Kinds]
    BY <1>4 DEF Kinds
  <2>2. doc.data \in [Elements -> Addresses]
    BY <1>2, <1>4 DEF Addresses
  <2>3. doc.rect \in [Elements -> Sizes]
    BY <1>3, <1>4
  <2>4. doc.sent \in Seq(Requests) /\ doc.timers \in Seq(Ways)
    BY <1>4
  <2> QED
    BY <1>2, <1>4, <2>1, <2>2, <2>3, <2>4 DEF Document
<1>9. Listed(site, doc)
  BY <1>4 DEF Listed, Ways
<1>6. Spoilt(doc, lost)
  BY <1>2, <1>4 DEF Spoilt
<1>7. Measured(site, doc, told) /\ Styled(site, doc)
  BY <1>4 DEF Measured, Styled
<1>8. lost \in BOOLEAN
  BY DEF Init
<1> QED
  BY <1>5, <1>6, <1>7, <1>8, <1>9 DEF IInv, Good

\* What moves without being measured: the page may be anything that it was,
\* with other elements in it, or of other sizes.
LEMMA Moved ==
  ASSUME NEW s, NEW d, NEW n, NEW r0, NEW l, Good(s, d, r0, l), DOMAIN n = Fields,
         n.present \subseteq Elements, n.rect \in [Elements -> Sizes],
         n.player = d.player, n.data = d.data, n.mapped = d.mapped, n.sent = d.sent, n.seen = FALSE,
         n.timers = d.timers, n.things = d.things, n.style = d.style, n.app = d.app,
         n.list = d.list
  PROVE  Good(s, n, r0, l)
<1>1. Document(n)
  BY DEF Good, Document
<1>2. Measured(s, n, r0) /\ Styled(s, n) /\ Spoilt(n, l)
  BY DEF Good, Measured, Styled, Spoilt
<1>3. Listed(s, n)
  BY SameListed DEF Good
<1> QED
  BY <1>1, <1>2, <1>3 DEF Good

\* No element loses its player.
Plays(d, n) == \A e \in Elements : d.player[e] # "none" => n.player[e] # "none"

\* The page is initialised.
LEMMA DOMContentLoadedGood ==
  ASSUME IInv, DOMContentLoaded
  PROVE  IInv' /\ Plays(doc, doc')
<1>1. Good(site, initialize(doc), told, lost) /\ Keeps(doc, initialize(doc))
  BY InitializeGood DEF IInv
<1>2. doc' = initialize(doc) /\ site' = site /\ told' = told /\ lost' = lost
  BY DEF DOMContentLoaded
<1> QED
  BY <1>1, <1>2 DEF IInv, Keeps, Plays

\* beforeend.js initialises the page again, and measures it.
LEMMA BeforeEndGood ==
  ASSUME IInv, BeforeEnd
  PROVE  IInv' /\ Plays(doc, doc')
<1> DEFINE i == initialize(doc)
<1>1. Good(site, i, told, lost) /\ Keeps(doc, i)
  BY InitializeGood DEF IInv
<1>2. Good(site, cefVideoSize(i), told, lost) /\ Keeps(i, cefVideoSize(i))
  BY <1>1, CefVideoSizeGood DEF Good
<1>3. doc' = (IF parsed THEN cefVideoSize(i) ELSE doc) /\ site' = site /\ told' = told /\ lost' = lost
  BY DEF BeforeEnd
<1> HIDE DEF i
<1> QED
  BY <1>1, <1>2, <1>3 DEF IInv, Keeps, Plays

\* The browser has the page measured.
LEMMA RunScriptGood ==
  ASSUME IInv, RunScript
  PROVE  IInv' /\ Plays(doc, doc')
<1> DEFINE d == [doc EXCEPT !.scripts = @ - 1]
<1>1. DOMAIN doc = Fields /\ doc.mapped \in SUBSET Elements
  BY DEF IInv, Good, Document
<1>2. /\ DOMAIN d = Fields
      /\ d.present = doc.present /\ d.rect = doc.rect /\ d.player = doc.player /\ d.data = doc.data
      /\ d.mapped = doc.mapped /\ d.sent = doc.sent /\ d.seen = doc.seen
      /\ d.timers = doc.timers /\ d.things = doc.things /\ d.style = doc.style /\ d.app = doc.app
      /\ d.list = doc.list
  BY <1>1 DEF Fields
<1>3. doc' = (IF parsed THEN cefVideoSize(d) ELSE d) /\ site' = site /\ told' = told /\ lost' = lost
  BY DEF RunScript
<1> HIDE DEF d
<1>4. Good(site, d, told, lost) /\ Keeps(doc, d)
  BY <1>1, <1>2, GoodSame DEF IInv
<1>5. Good(site, cefVideoSize(d), told, lost) /\ Keeps(d, cefVideoSize(d))
  BY <1>4, CefVideoSizeGood DEF Good
<1> QED
  BY <1>3, <1>4, <1>5 DEF IInv, Keeps, Plays

-----------------------------------------------------------------------------
(***************************************************************************)
(* The quirks: what the lists of each site have in common.                 *)
(***************************************************************************)
\* A list writes to no thing twice.
Once(steps) ==
  /\ \E n \in Nat : DOMAIN steps = 1 .. n
  /\ \A i, j \in DOMAIN steps : steps[i].thing = steps[j].thing => i = j

\* What the start list writes the stop list writes again, and otherwise; a page
\* that was not written to has none of it.
Undone(q) ==
  \A i \in DOMAIN q.start : q.start[i].thing # "playerbar[0].parent" =>
    /\ \E j \in DOMAIN q.stop : q.stop[j].thing = q.start[i].thing /\ q.stop[j].value # q.start[i].value
    /\ q.start[i].value # "page"

\* The lists that hide the body and show a player.
LEMMA BodyAndTable ==
  ASSUME NEW t, t # "body"
  PROVE  Once(BodyAnd(t).start) /\ Once(BodyAnd(t).stop) /\ Undone(BodyAnd(t))
<1> DEFINE q == BodyAnd(t)
<1>1. /\ DOMAIN q.start = 1 .. 2 /\ DOMAIN q.stop = 1 .. 2
      /\ q.start[1] = Set("body", "hidden") /\ q.start[2] = Set(t, "visible")
      /\ q.stop[1] = Set("body", "visible") /\ q.stop[2] = Set(t, "hidden")
  BY DEF BodyAnd
<1> HIDE DEF q
<1>2. Once(q.start) /\ Once(q.stop)
  BY <1>1 DEF Once, Set
<1>3. Undone(q)
  BY <1>1 DEF Undone, Set
<1> QED
  BY <1>2, <1>3 DEF q

\* The lists that write to one thing only.
LEMMA SingleTable ==
  ASSUME NEW t, NEW v, NEW w, v # w, v # "page", NEW q, q = [start |-> <<Set(t, v)>>, stop |-> <<Set(t, w)>>]
  PROVE  Once(q.start) /\ Once(q.stop) /\ Undone(q)
<1>1. /\ DOMAIN q.start = 1 .. 1 /\ DOMAIN q.stop = 1 .. 1
      /\ q.start[1] = Set(t, v) /\ q.stop[1] = Set(t, w)
  OBVIOUS
<1>2. Once(q.start) /\ Once(q.stop)
  BY <1>1 DEF Once
<1>3. Undone(q)
  BY <1>1 DEF Undone, Set
<1> QED
  BY <1>2, <1>3

\* So it is with every site.
LEMMA QuirksTable ==
  ASSUME NEW s \in Sites
  PROVE  Once(Quirks[s].start) /\ Once(Quirks[s].stop) /\ Undone(Quirks[s])
<1> DEFINE q == Quirks[s]
<1>1. CASE s = "hbbtv.daserste.de"
  <2>1. q = [start |-> <<Set("body", "hidden"), Set("playerbar[0].parent", "visible"),
                         Set("playerbar[0]", "visible")>>,
             stop |-> <<Set("body", "visible"), Set("playerbar[0]", "hidden")>>]
    BY <1>1 DEF Quirks
  <2> HIDE DEF q
  <2>2. /\ DOMAIN q.start = 1 .. 3 /\ DOMAIN q.stop = 1 .. 2
        /\ q.start[1] = Set("body", "hidden") /\ q.start[2] = Set("playerbar[0].parent", "visible")
        /\ q.start[3] = Set("playerbar[0]", "visible")
        /\ q.stop[1] = Set("body", "visible") /\ q.stop[2] = Set("playerbar[0]", "hidden")
    BY <2>1
  <2>3. Once(q.start) /\ Once(q.stop)
    BY <2>2 DEF Once, Set
  <2>4. Undone(q)
    BY <2>2 DEF Undone, Set
  <2> QED
    BY <2>3, <2>4 DEF q
<1>2. CASE s = "hbbtv.redbutton.de/extern/redorbit/hbbtv/apps/"
  <2>1. q = [start |-> <<Set("background", "transparent"), Set("screen", "hidden"),
                         Set("slider[0]", "none"), Set("slider[1]", "none")>>,
             stop |-> <<Set("background", "#2c2c2c"), Set("screen", "visible"),
                        Set("slider[0]", "block"), Set("slider[1]", "block")>>]
    BY <1>2 DEF Quirks
  <2> HIDE DEF q
  <2>2. /\ DOMAIN q.start = 1 .. 4 /\ DOMAIN q.stop = 1 .. 4
        /\ q.start[1] = Set("background", "transparent") /\ q.start[2] = Set("screen", "hidden")
        /\ q.start[3] = Set("slider[0]", "none") /\ q.start[4] = Set("slider[1]", "none")
        /\ q.stop[1] = Set("background", "#2c2c2c") /\ q.stop[2] = Set("screen", "visible")
        /\ q.stop[3] = Set("slider[0]", "block") /\ q.stop[4] = Set("slider[1]", "block")
    BY <2>1
  <2>3. Once(q.start) /\ Once(q.stop)
    BY <2>2 DEF Once, Set
  <2>4. Undone(q)
    BY <2>2 DEF Undone, Set
  <2> QED
    BY <2>3, <2>4 DEF q
<1>3. CASE s \in {"hbbtv-tatort.daserste.de", "tv.ardmediathek.de", "hbbtv.zdf.de",
                  "hbbtv-mediathek-ard-alpha.br.de", "www.arte.tv"}
  <2>1. \E t \in {"playerbar[0]", "player", "playerwin[0]", "videoOverlay"} : q = BodyAnd(t)
    BY <1>3 DEF Quirks
  <2> QED
    BY <2>1, BodyAndTable
<1>4. CASE s \in {"itv.ard.de/replay", "bibeltv.c.nmdn.net", "-digitaltext.rtl-hbbtv.de",
                  "specials.rtl-hbbtv.de", "cdn.specials.digitaltext.rtl.de", "cdn.digitaltext.rtl.de"}
  <2>1. \E t, v, w : v # w /\ v # "page" /\ q = [start |-> <<Set(t, v)>>, stop |-> <<Set(t, w)>>]
    <3>1. CASE s = "itv.ard.de/replay"
      BY <3>1 DEF Quirks
    <3>2. CASE s = "bibeltv.c.nmdn.net"
      BY <3>2 DEF Quirks
    <3>3. CASE s \in {"-digitaltext.rtl-hbbtv.de", "specials.rtl-hbbtv.de",
                      "cdn.specials.digitaltext.rtl.de", "cdn.digitaltext.rtl.de"}
      <4>1. q = BodyOnly
        BY <3>3 DEF Quirks
      <4>2. q = [start |-> <<Set("body", "hidden")>>, stop |-> <<Set("body", "visible")>>]
        BY <4>1 DEF BodyOnly
      <4> HIDE DEF q
      <4> QED
        BY <4>2
    <3> QED
      BY <1>4, <3>1, <3>2, <3>3
  <2> HIDE DEF q
  <2> QED
    BY <2>1, SingleTable DEF q
<1> QED
  BY <1>1, <1>2, <1>3, <1>4 DEF Sites

\* A list that is written is in the style, whatever was there before.
LEMMA WrittenFits ==
  ASSUME NEW s, NEW way \in Ways, NEW d, NEW n, n.things = d.things, DOMAIN d.style = d.things,
         n.style = Written(d.style, StepsOn(s, way))
  PROVE  Fits(s, n, way)
<1> DEFINE q == StepsOn(s, way)
<1>1. Once(q)
  <2>1. CASE s \in Sites
    BY <2>1, QuirksTable DEF StepsOn, Ways
  <2>2. CASE s \notin Sites
    <3>1. q = <<>> /\ DOMAIN q = 1 .. 0
      BY <2>2 DEF StepsOn
    <3> QED
      BY <3>1 DEF Once
  <2> QED
    BY <2>1, <2>2
<1> HIDE DEF q
<1>2. ASSUME NEW i \in DOMAIN q, q[i].thing \in d.things
      PROVE  n.style[q[i].thing] = q[i].value
  <2> DEFINE t == q[i].thing
             mine == {j \in DOMAIN q : q[j].thing = t}
  <2>1. mine = {i}
    BY <1>1 DEF Once
  <2>2. i \in Nat
    BY <1>1 DEF Once
  <2>3. Max(mine) = i
    BY <2>1, <2>2 DEF Max
  <2>4. n.style[t] = IF mine = {} THEN d.style[t] ELSE q[Max(mine)].value
    BY <1>2 DEF Written, q
  <2> HIDE DEF mine
  <2> QED
    BY <2>1, <2>3, <2>4
<1> QED
  BY <1>2 DEF Fits, Mine, q

\* Quirks that are due are written.
LEMMA RunTimerGood ==
  ASSUME IInv, RunTimer
  PROVE  IInv' /\ Plays(doc, doc')
<1> DEFINE way == Head(doc.timers)
           steps == StepsOn(site, way)
           app == doc.app /\ \A s \in Range(steps) : s.thing # "body"
<1>1. /\ DOMAIN doc = Fields /\ doc.timers \in Seq(Ways) /\ doc.timers # <<>>
      /\ DOMAIN doc.style = doc.things /\ doc.app \in BOOLEAN
      /\ Document(doc) /\ Measured(site, doc, told) /\ Styled(site, doc) /\ Spoilt(doc, lost)
  BY DEF IInv, Good, Document, RunTimer
<1>2. /\ doc' = [doc EXCEPT !.timers = Tail(@), !.style = Written(@, steps),
                           !.list = way, !.app = app]
      /\ site' = site /\ told' = told /\ lost' = lost
  BY DEF RunTimer, Steps, StepsOn
<1>3. /\ Tail(doc.timers) \in Seq(Ways) /\ Len(doc.timers) \in Nat \ {0}
      /\ way \in Ways /\ way = doc.timers[1]
      /\ DOMAIN Tail(doc.timers) = 1 .. Len(doc.timers) - 1
      /\ Len(Tail(doc.timers)) = Len(doc.timers) - 1
      /\ \A i \in 1 .. Len(doc.timers) - 1 : Tail(doc.timers)[i] = doc.timers[i + 1]
  BY <1>1, TailSeq
<1> HIDE DEF way, steps, app
<1>4. /\ DOMAIN doc' = Fields
      /\ doc'.present = doc.present /\ doc'.rect = doc.rect /\ doc'.player = doc.player /\ doc'.data = doc.data
      /\ doc'.mapped = doc.mapped /\ doc'.sent = doc.sent /\ doc'.seen = doc.seen
      /\ doc'.timers = Tail(doc.timers) /\ doc'.things = doc.things
      /\ doc'.style = Written(doc.style, steps) /\ doc'.app = app
      /\ doc'.list = way
  BY <1>1, <1>2 DEF Fields
<1>5. Document(doc')
  <2>1. DOMAIN doc'.style = doc'.things
    BY <1>1, <1>4 DEF Written
  <2>2. app \in BOOLEAN
    BY <1>1 DEF app
  <2> QED
    BY <1>1, <1>3, <1>4, <2>1, <2>2 DEF Document
<1>6. /\ SizeOn(site, doc') = SizeOn(site, doc) /\ FirstPlayer(doc') = FirstPlayer(doc)
      /\ TargetOn(site, doc') = TargetOn(site, doc)
  BY <1>4, SameSize
<1>7. Measured(site, doc', told) /\ Spoilt(doc', lost)
  BY <1>1, <1>4, <1>6 DEF Measured, Spoilt
<1>8. Way(site, doc') = Way(site, doc)
  BY <1>4, <1>6 DEF Way, process_video_quirk
<1>9. ASSUME doc.timers[Len(doc.timers)] = Way(site, doc)
      PROVE  DueLast(site, doc') \/ (doc'.timers = <<>> /\ Fits(site, doc', Way(site, doc')))
  <2>1. CASE Len(doc.timers) = 1
    <3>1. doc'.timers = <<>>
      BY <1>3, <1>4, <2>1
    <3>2. way = Way(site, doc')
      BY <1>3, <1>8, <1>9, <2>1
    <3>3. Fits(site, doc', way)
      BY <1>1, <1>3, <1>4, WrittenFits DEF steps
    <3> QED
      BY <3>1, <3>2, <3>3
  <2>2. CASE Len(doc.timers) # 1
    <3> DEFINE p == Tail(doc.timers)
               L == Len(doc.timers)
    <3>0. /\ p \in Seq(Ways) /\ Len(p) = L - 1 /\ L \in Nat \ {0} /\ L # 1
          /\ \A i \in 1 .. L - 1 : p[i] = doc.timers[i + 1]
      BY <1>3, <2>2
    <3> HIDE DEF p, L
    <3>1. Len(p) \in 1 .. L - 1 /\ Len(p) + 1 = L
      BY <3>0
    <3>2. p[Len(p)] = doc.timers[Len(doc.timers)]
      BY <3>0, <3>1 DEF L
    <3>3. p # <<>>
      BY <3>1
    <3> QED
      BY <1>4, <1>8, <1>9, <3>2, <3>3 DEF DueLast, p
  <2> QED
    BY <2>1, <2>2
<1>10. Styled(site, doc')
  BY <1>1, <1>4, <1>6, <1>9 DEF Styled, DueLast
<1>11. Listed(site, doc')
  <2>1. Fits(site, doc', way)
    BY <1>1, <1>3, <1>4, WrittenFits DEF steps
  <2> QED
    BY <1>3, <1>4, <2>1 DEF Listed, Ways
<1> QED
  BY <1>2, <1>4, <1>5, <1>7, <1>10, <1>11 DEF IInv, Good, Plays

\* A request is carried out: a size is known to VDR, a film may be measured.
LEMMA OnQueryGood ==
  ASSUME IInv, OnQuery
  PROVE  IInv' /\ Plays(doc, doc')
<1> DEFINE q == Head(doc.sent)
           d == [doc EXCEPT !.sent = Tail(@)]
           r1 == IF q.kind = "SIZE" THEN q.rect ELSE told
<1>1. /\ DOMAIN doc = Fields /\ doc.sent \in Seq(Requests)
      /\ Document(doc) /\ Measured(site, doc, told) /\ Styled(site, doc) /\ Spoilt(doc, lost)
  BY DEF IInv, Good, Document
<1>2. /\ DOMAIN d = Fields
      /\ d.present = doc.present /\ d.rect = doc.rect /\ d.player = doc.player /\ d.data = doc.data
      /\ d.mapped = doc.mapped /\ d.sent = Tail(doc.sent) /\ d.seen = doc.seen
      /\ d.timers = doc.timers /\ d.things = doc.things /\ d.style = doc.style /\ d.app = doc.app
      /\ d.list = doc.list
  BY <1>1 DEF Fields
<1>3. doc.sent # <<>> /\ site' = site /\ lost' = lost
  BY DEF OnQuery
<1>4. /\ Tail(doc.sent) \in Seq(Requests) /\ q = doc.sent[1]
      /\ Len(doc.sent) \in Nat \ {0}
      /\ DOMAIN doc.sent = 1 .. Len(doc.sent) /\ DOMAIN Tail(doc.sent) = 1 .. Len(doc.sent) - 1
      /\ \A i \in 1 .. Len(doc.sent) - 1 : Tail(doc.sent)[i] = doc.sent[i + 1]
  BY <1>1, <1>3, TailSeq
<1>5. \/ doc' = d /\ told' = r1
      \/ doc' = [d EXCEPT !.scripts = @ + 1] /\ told' = r1
  BY DEF OnQuery
<1> HIDE DEF d
<1>6. Document(d)
  BY <1>1, <1>2, <1>4 DEF Document
<1>7. /\ SizeOn(site, d) = SizeOn(site, doc) /\ FirstPlayer(d) = FirstPlayer(doc)
      /\ TargetOn(site, d) = TargetOn(site, doc)
  BY <1>2, SameSize
<1>13. Styled(site, d)
  <2>1. Way(site, d) = Way(site, doc)
    BY <1>2, <1>7 DEF Way, process_video_quirk
  <2>2. /\ DueLast(site, doc) => DueLast(site, d)
        /\ Fits(site, doc, Way(site, doc)) => Fits(site, d, Way(site, d))
    BY <1>2, <2>1 DEF DueLast, Fits, Mine
  <2> QED
    BY <1>1, <1>2, <1>7, <2>2 DEF Styled
<1>8. Measured(site, d, r1)
  <2>1. r1 = IF doc.sent[1].kind = "SIZE" THEN doc.sent[1].rect ELSE told
    BY <1>4
  <2> HIDE DEF r1
  <2>2. Told(doc.sent, told, SizeOn(site, doc)) => Told(Tail(doc.sent), r1, SizeOn(site, doc))
    BY <1>1, <1>3, <2>1, ToldTail
  <2> QED
    BY <1>1, <1>2, <1>7, <2>2 DEF Measured
<1>9. Spoilt(d, lost)
  <2>1. \A i \in 1 .. Len(doc.sent) - 1 : i + 1 \in DOMAIN doc.sent
    BY <1>4
  <2>2. \A i \in DOMAIN d.sent : (d.sent[i].kind = "PLAY" /\ d.sent[i].data = "fail") => lost
    BY <1>1, <1>2, <1>4, <2>1 DEF Spoilt
  <2> QED
    BY <1>1, <1>2, <2>2 DEF Spoilt
<1> HIDE DEF r1, q
<1>14. Listed(site, d)
  BY <1>2, SameListed DEF IInv, Good
<1>10. Good(site, d, r1, lost) /\ Plays(doc, d)
  BY <1>2, <1>6, <1>8, <1>9, <1>13, <1>14 DEF Good, Plays
<1>11. CASE doc' = d /\ told' = r1
  BY <1>3, <1>10, <1>11 DEF IInv
<1>12. CASE doc' = [d EXCEPT !.scripts = @ + 1] /\ told' = r1
  <2>1. /\ DOMAIN doc' = Fields
        /\ doc'.present = d.present /\ doc'.rect = d.rect /\ doc'.player = d.player /\ doc'.data = d.data
        /\ doc'.mapped = d.mapped /\ doc'.sent = d.sent /\ doc'.seen = d.seen
        /\ doc'.timers = d.timers /\ doc'.things = d.things /\ doc'.style = d.style /\ doc'.app = d.app
        /\ doc'.list = d.list
    BY <1>2, <1>12 DEF Fields
  <2>2. d.mapped \in SUBSET Elements
    BY <1>6 DEF Document
  <2>3. Good(site, doc', r1, lost) /\ Keeps(d, doc')
    BY <1>10, <2>1, <2>2, GoodSame
  <2> QED
    BY <1>3, <1>10, <1>12, <2>3 DEF IInv, Keeps, Plays
<1> QED
  BY <1>5, <1>11, <1>12

\* An element is added, and may get its methods at once.
LEMMA InsertGood ==
  ASSUME IInv, NEW e \in Elements, NEW inside \in BOOLEAN, Insert(e, inside)
  PROVE  IInv' /\ Plays(doc, doc')
<1> DEFINE d == [doc EXCEPT !.present = @ \cup {e}, !.seen = FALSE]
<1>1. DOMAIN doc = Fields /\ doc.present \in SUBSET Elements /\ doc.rect \in [Elements -> Sizes]
  BY DEF IInv, Good, Document
<1>2. /\ DOMAIN d = Fields
      /\ d.present = doc.present \cup {e} /\ d.rect = doc.rect /\ d.player = doc.player /\ d.data = doc.data
      /\ d.mapped = doc.mapped /\ d.sent = doc.sent /\ d.seen = FALSE
      /\ d.timers = doc.timers /\ d.things = doc.things /\ d.style = doc.style /\ d.app = doc.app
      /\ d.list = doc.list
  BY <1>1 DEF Fields
<1>3. /\ doc' = IF parsed /\ ~inside THEN checkNodeTypeAndInjectVideoMethods(d, e) ELSE d
      /\ site' = site /\ told' = told /\ lost' = lost
  BY DEF Insert, PageStep
<1> HIDE DEF d
<1>4. Good(site, d, told, lost) /\ Plays(doc, d)
  BY <1>1, <1>2, Moved DEF IInv, Plays
<1>5. /\ Good(site, checkNodeTypeAndInjectVideoMethods(d, e), told, lost)
      /\ Keeps(d, checkNodeTypeAndInjectVideoMethods(d, e))
  BY <1>2, <1>4, CheckNodeGood
<1> QED
  BY <1>3, <1>4, <1>5 DEF IInv, Keeps, Plays

\* An element is taken out: nobody measures.
LEMMA TakeOutGood ==
  ASSUME IInv, NEW e \in Elements, TakeOut(e)
  PROVE  IInv' /\ Plays(doc, doc')
<1>1. DOMAIN doc = Fields /\ doc.present \in SUBSET Elements /\ doc.rect \in [Elements -> Sizes]
  BY DEF IInv, Good, Document
<1>2. /\ DOMAIN doc' = Fields
      /\ doc'.present = doc.present \ {e} /\ doc'.rect = doc.rect /\ doc'.player = doc.player
      /\ doc'.data = doc.data /\ doc'.mapped = doc.mapped /\ doc'.sent = doc.sent /\ doc'.seen = FALSE
      /\ doc'.timers = doc.timers /\ doc'.things = doc.things /\ doc'.style = doc.style /\ doc'.app = doc.app
      /\ doc'.list = doc.list
  BY <1>1 DEF Fields, TakeOut, PageStep
<1>3. site' = site /\ told' = told /\ lost' = lost
  BY DEF TakeOut, PageStep
<1>4. Good(site, doc', told, lost)
  BY <1>1, <1>2, Moved DEF IInv
<1> QED
  BY <1>2, <1>3, <1>4 DEF IInv, Plays

\* An element changes its size: a film is measured.
LEMMA ResizeGood ==
  ASSUME IInv, NEW e \in Elements, NEW r \in Rects, Resize(e, r)
  PROVE  IInv' /\ Plays(doc, doc')
<1> DEFINE d == [doc EXCEPT !.rect[e] = r, !.seen = FALSE]
<1>1. DOMAIN doc = Fields /\ doc.present \in SUBSET Elements /\ doc.rect \in [Elements -> Sizes]
  BY DEF IInv, Good, Document
<1>2. /\ DOMAIN d = Fields
      /\ d.present = doc.present /\ d.rect = [doc.rect EXCEPT ![e] = r] /\ d.player = doc.player
      /\ d.data = doc.data /\ d.mapped = doc.mapped /\ d.sent = doc.sent /\ d.seen = FALSE
      /\ d.timers = doc.timers /\ d.things = doc.things /\ d.style = doc.style /\ d.app = doc.app
      /\ d.list = doc.list
  BY <1>1 DEF Fields
<1>3. /\ doc' = IF e \in doc.mapped /\ Type[e] # "broadcast" THEN cefVideoSize(d) ELSE d
      /\ site' = site /\ told' = told /\ lost' = lost
  BY DEF Resize, PageStep
<1> HIDE DEF d
<1>4. d.rect \in [Elements -> Sizes]
  <2>1. r \in Sizes
    BY RectsAssumption DEF Sizes
  <2> QED
    BY <1>1, <1>2, <2>1
<1>5. Good(site, d, told, lost) /\ Plays(doc, d)
  BY <1>1, <1>2, <1>4, Moved DEF IInv, Plays
<1>6. Good(site, cefVideoSize(d), told, lost) /\ Keeps(d, cefVideoSize(d))
  BY <1>5, CefVideoSizeGood DEF Good
<1> QED
  BY <1>3, <1>5, <1>6 DEF IInv, Keeps, Plays

\* A film with a new address plays: the address sent is the one the page wrote.
LEMMA SetDataGood ==
  ASSUME IInv, NEW e \in Elements, SetData(e)
  PROVE  IInv' /\ Plays(doc, doc')
<1> DEFINE x == [kind |-> "PLAY", data |-> "url"]
           k == IF doc.player[e] = "none" THEN "none" ELSE "film"
<1>1. /\ DOMAIN doc = Fields /\ doc.player \in [Elements -> Kinds] /\ doc.sent \in Seq(Requests)
      /\ Document(doc) /\ Spoilt(doc, lost)
  BY DEF IInv, Good, Document
<1>2. doc' = NewAddress([doc EXCEPT !.seen = FALSE], e) /\ site' = site /\ told' = told /\ lost' = lost
  BY DEF SetData, PageStep
<1>3. /\ DOMAIN doc' = Fields
      /\ doc'.present = doc.present /\ doc'.rect = doc.rect /\ doc'.data = doc.data
      /\ doc'.mapped = doc.mapped /\ doc'.seen = FALSE
      /\ doc'.timers = doc.timers /\ doc'.things = doc.things /\ doc'.style = doc.style /\ doc'.app = doc.app
      /\ doc'.list = doc.list
      /\ doc'.player = [doc.player EXCEPT ![e] = k]
      /\ doc'.sent = Append(doc.sent, x)
  BY <1>1, <1>2 DEF Fields, NewAddress
<1>4. x \in Requests /\ x.kind = "PLAY" /\ x.data = "url"
  BY DEF Requests, Addresses
<1>5. /\ k \in Kinds /\ doc'.player[e] = k /\ doc'.player \in [Elements -> Kinds]
      /\ \A b \in Elements : b # e => doc'.player[b] = doc.player[b]
  <2>1. k \in Kinds
    BY DEF Kinds
  <2> HIDE DEF k, x
  <2> QED
    BY <1>1, <1>3, <2>1
<1> HIDE DEF x
<1>6. doc'.sent \in Seq(Requests)
  BY <1>1, <1>3, <1>4, AppendSeq
<1>7. \A i \in DOMAIN doc'.sent : (doc'.sent[i].kind = "PLAY" /\ doc'.sent[i].data = "fail") => lost
  <2>1. /\ Len(doc.sent) \in Nat /\ DOMAIN doc.sent = 1 .. Len(doc.sent)
        /\ DOMAIN doc'.sent = 1 .. Len(doc.sent) + 1 /\ doc'.sent[Len(doc.sent) + 1] = x
        /\ \A i \in 1 .. Len(doc.sent) : doc'.sent[i] = doc.sent[i]
    BY <1>1, <1>3, <1>4, AppendSeq
  <2>2. \A i \in 1 .. Len(doc.sent) + 1 : i \in 1 .. Len(doc.sent) \/ i = Len(doc.sent) + 1
    BY <2>1
  <2> QED
    BY <1>1, <1>4, <2>1, <2>2 DEF Spoilt
<1>8. Document(doc')
  BY <1>1, <1>3, <1>5, <1>6 DEF Document
<1>9. Spoilt(doc', lost)
  <2>1. \A b \in Elements : doc'.data[b] = "fail" =>
          Type[b] \in {"av", "dash"} /\ (lost \/ doc'.player[b] \in {"film", "idle"})
    BY <1>1, <1>3, <1>5 DEF Spoilt
  <2>2. \A b \in Elements : doc'.player[b] = "live" => Type[b] = "broadcast"
    BY <1>1, <1>5 DEF Spoilt
  <2> QED
    BY <1>7, <2>1, <2>2 DEF Spoilt
<1>12. Listed(site, doc')
  BY <1>3, SameListed DEF IInv, Good
<1>10. Good(site, doc', told, lost)
  BY <1>3, <1>8, <1>9, <1>12 DEF Good, Measured, Styled
<1>11. Plays(doc, doc')
  BY <1>5 DEF Plays
<1> QED
  BY <1>2, <1>10, <1>11 DEF IInv

\* A live TV object that is bound measures the player that stands first.
LEMMA BindGood ==
  ASSUME IInv, NEW e \in Elements, Bind(e)
  PROVE  IInv' /\ Plays(doc, doc')
<1>1. Good(site, cefVideoSize(doc), told, lost) /\ Keeps(doc, cefVideoSize(doc))
  BY CefVideoSizeGood DEF IInv, Good
<1>2. doc' = cefVideoSize(doc) /\ site' = site /\ told' = told /\ lost' = lost
  BY DEF Bind, PageStep
<1> QED
  BY <1>1, <1>2 DEF IInv, Keeps, Plays

\* A release takes the first player away; when it was a film's, it is lost.
LEMMA ReleaseGood ==
  ASSUME IInv, NEW e \in Elements, Release(e)
  PROVE  IInv'
<1> DEFINE f == FirstPlayer(doc)
<1>1. /\ DOMAIN doc = Fields /\ doc.player \in [Elements -> Kinds]
      /\ Document(doc) /\ Spoilt(doc, lost) /\ lost \in BOOLEAN
  BY DEF IInv, Good, Document
<1>2. /\ doc' = [doc EXCEPT !.player[f] = "none", !.seen = FALSE]
      /\ site' = site /\ told' = told /\ lost' = (lost \/ doc.player[f] # "live") /\ f # None
  BY DEF Release, PageStep
<1>3. f \in Elements
  <2>1. Players(doc) \subseteq Elements
    BY <1>1 DEF Document, Players
  <2> QED
    BY <1>2, <2>1, FirstType DEF FirstPlayer
<1> HIDE DEF f
<1>4. /\ DOMAIN doc' = Fields
      /\ doc'.present = doc.present /\ doc'.rect = doc.rect /\ doc'.data = doc.data
      /\ doc'.mapped = doc.mapped /\ doc'.sent = doc.sent /\ doc'.seen = FALSE
      /\ doc'.timers = doc.timers /\ doc'.things = doc.things /\ doc'.style = doc.style /\ doc'.app = doc.app
      /\ doc'.list = doc.list
      /\ doc'.player = [doc.player EXCEPT ![f] = "none"]
  BY <1>1, <1>2 DEF Fields
<1>5. /\ doc'.player \in [Elements -> Kinds] /\ doc'.player[f] = "none"
      /\ \A b \in Elements : b # f => doc'.player[b] = doc.player[b]
  BY <1>1, <1>3, <1>4 DEF Kinds
<1>6. Document(doc')
  BY <1>1, <1>4, <1>5 DEF Document
<1>7. lost => lost'
  BY <1>2
<1>8. doc.data[f] = "fail" => lost'
  BY <1>1, <1>2, <1>3 DEF Spoilt
<1>9. Spoilt(doc', lost')
  <2>1. \A b \in Elements : doc'.data[b] = "fail" =>
          Type[b] \in {"av", "dash"} /\ (lost' \/ doc'.player[b] \in {"film", "idle"})
    BY <1>1, <1>4, <1>5, <1>7, <1>8 DEF Spoilt
  <2>2. \A b \in Elements : doc'.player[b] = "live" => Type[b] = "broadcast"
    BY <1>1, <1>5 DEF Spoilt
  <2>3. \A i \in DOMAIN doc'.sent : (doc'.sent[i].kind = "PLAY" /\ doc'.sent[i].data = "fail") => lost'
    BY <1>1, <1>4, <1>7 DEF Spoilt
  <2> QED
    BY <2>1, <2>2, <2>3 DEF Spoilt
<1>12. Listed(site, doc')
  BY <1>4, SameListed DEF IInv, Good
<1>10. Good(site', doc', told', lost')
  BY <1>2, <1>4, <1>6, <1>9, <1>12 DEF Good, Measured, Styled
<1>11. lost' \in BOOLEAN
  BY <1>1, <1>2
<1> QED
  BY <1>10, <1>11 DEF IInv

\* A film that loses its player to a release stands before all live TV.
LEMMA ReleaseOrder ==
  ASSUME IInv, NEW e \in Elements, Release(e), NEW a \in Elements,
         doc.player[a] \in {"film", "idle"}, doc'.player[a] = "none",
         NEW b \in doc.present, doc.player[b] = "live"
  PROVE  \E i, j \in DOMAIN Order : i < j /\ Order[i] = a /\ Order[j] = b
<1> DEFINE f == FirstPlayer(doc)
<1>1. DOMAIN doc = Fields /\ doc.player \in [Elements -> Kinds] /\ doc.present \subseteq Elements
  BY DEF IInv, Good, Document
<1>2. doc' = [doc EXCEPT !.player[f] = "none", !.seen = FALSE]
  BY DEF Release, PageStep
<1>3. Players(doc) \subseteq Elements /\ b \in Players(doc)
  BY <1>1 DEF Players
<1>4. PICK i \in DOMAIN Order : Order[i] = f /\ \A j \in DOMAIN Order : Order[j] \in Players(doc) => i <= j
  BY <1>3, FirstIs DEF FirstPlayer
<1> HIDE DEF f
<1>5. doc'.player = [doc.player EXCEPT ![f] = "none"]
  BY <1>1, <1>2 DEF Fields
<1>6. a = f
  BY <1>1, <1>5
<1>7. PICK j \in DOMAIN Order : Order[j] = b
  BY <1>1, OrderType
<1>8. i <= j /\ i # j /\ i \in Nat /\ j \in Nat
  <2>1. DOMAIN Order \subseteq Nat
    BY OrderType
  <2>2. a # b
    OBVIOUS
  <2> QED
    BY <1>3, <1>4, <1>6, <1>7, <2>1, <2>2
<1> QED
  BY <1>4, <1>6, <1>7, <1>8

\* The page's show and hide write the style of its body only.
LEMMA ShowGood ==
  ASSUME IInv, NEW value, Show(value)
  PROVE  IInv' /\ Plays(doc, doc')
<1>1. /\ DOMAIN doc = Fields /\ DOMAIN doc.style = doc.things
      /\ Document(doc) /\ Measured(site, doc, told) /\ Styled(site, doc) /\ Spoilt(doc, lost)
  BY DEF IInv, Good, Document
<1>2. doc' = [doc EXCEPT !.style["body"] = value, !.app = TRUE] /\ site' = site /\ told' = told /\ lost' = lost
  BY DEF Show, PageStep
<1>3. /\ DOMAIN doc' = Fields
      /\ doc'.present = doc.present /\ doc'.rect = doc.rect /\ doc'.player = doc.player /\ doc'.data = doc.data
      /\ doc'.mapped = doc.mapped /\ doc'.sent = doc.sent /\ doc'.seen = doc.seen
      /\ doc'.timers = doc.timers /\ doc'.things = doc.things
      /\ doc'.style = [doc.style EXCEPT !["body"] = value] /\ doc'.app = TRUE
      /\ doc'.list = doc.list
  BY <1>1, <1>2 DEF Fields
<1>4. \A t \in doc.things \ {"body"} : doc'.style[t] = doc.style[t]
  BY <1>1, <1>3
<1>5. Document(doc')
  BY <1>1, <1>3 DEF Document
<1>6. /\ SizeOn(site, doc') = SizeOn(site, doc) /\ FirstPlayer(doc') = FirstPlayer(doc)
      /\ TargetOn(site, doc') = TargetOn(site, doc)
  BY <1>3, SameSize
<1>7. Measured(site, doc', told) /\ Spoilt(doc', lost)
  BY <1>1, <1>3, <1>6 DEF Measured, Spoilt
<1>8. Styled(site, doc')
  <2>1. Way(site, doc') = Way(site, doc)
    BY <1>3, <1>6 DEF Way, process_video_quirk
  <2>2. DueLast(site, doc) => DueLast(site, doc')
    BY <1>3, <2>1 DEF DueLast
  <2>3. ASSUME NEW way, Fits(site, doc, way)
        PROVE  Fits(site, doc', way)
    BY <1>3, <1>4, <2>3 DEF Fits, Mine
  <2> QED
    BY <1>1, <1>3, <1>6, <2>1, <2>2, <2>3 DEF Styled
<1>9. Listed(site, doc')
  <2>1. Listed(site, doc)
    BY DEF IInv, Good
  <2>2. \A t : Mine(doc', t) => Mine(doc, t) /\ doc'.style[t] = doc.style[t]
    BY <1>3, <1>4 DEF Mine
  <2>3. \A way : Fits(site, doc, way) => Fits(site, doc', way)
    BY <2>2 DEF Fits
  <2> QED
    BY <1>3, <2>1, <2>2, <2>3 DEF Listed
<1> QED
  BY <1>2, <1>3, <1>5, <1>7, <1>8, <1>9 DEF IInv, Good, Plays

\* Every step keeps the invariant, and none but a release takes a player away.
LEMMA NextInv ==
  ASSUME IInv, [Next]_vars
  PROVE  IInv' /\ (Plays(doc, doc') \/ \E e \in Elements : Release(e))
<1>1. CASE DOMContentLoaded
  BY <1>1, DOMContentLoadedGood
<1>2. CASE BeforeEnd
  BY <1>2, BeforeEndGood
<1>3. CASE RunScript
  BY <1>3, RunScriptGood
<1>4. CASE RunTimer
  BY <1>4, RunTimerGood
<1>5. CASE OnQuery
  BY <1>5, OnQueryGood
<1>6. ASSUME NEW e \in Elements, TakeOut(e)
      PROVE  IInv' /\ Plays(doc, doc')
  BY <1>6, TakeOutGood
<1>7. ASSUME NEW e \in Elements, SetData(e)
      PROVE  IInv' /\ Plays(doc, doc')
  BY <1>7, SetDataGood
<1>8. ASSUME NEW e \in Elements, Bind(e)
      PROVE  IInv' /\ Plays(doc, doc')
  BY <1>8, BindGood
<1>9. ASSUME NEW e \in Elements, Release(e)
      PROVE  IInv'
  BY <1>9, ReleaseGood
<1>10. ASSUME NEW e \in Elements, NEW r \in Rects, Resize(e, r)
       PROVE  IInv' /\ Plays(doc, doc')
  BY <1>10, ResizeGood
<1>11. ASSUME NEW e \in Elements, NEW inside \in BOOLEAN, Insert(e, inside)
       PROVE  IInv' /\ Plays(doc, doc')
  BY <1>11, InsertGood
<1>12. ASSUME NEW value \in {"visible", "hidden"}, Show(value)
       PROVE  IInv' /\ Plays(doc, doc')
  BY <1>12, ShowGood
<1>13. CASE UNCHANGED vars
  BY <1>13 DEF vars, IInv, Plays
<1>14. CASE System
  BY <1>1, <1>2, <1>3, <1>4, <1>5, <1>14 DEF System
<1>15. CASE Scripts
  BY <1>6, <1>7, <1>8, <1>9, <1>10, <1>11, <1>12, <1>15 DEF Scripts
<1> QED
  BY <1>13, <1>14, <1>15 DEF Next

-----------------------------------------------------------------------------
(***************************************************************************)
(* The theorems.                                                           *)
(***************************************************************************)
\* The invariant holds of every page at any time.
LEMMA Invariance == Spec => []IInv
<1>1. IInv /\ [Next]_vars => IInv'
  BY NextInv
<1> QED
  BY InitInv, <1>1, PTL DEF Spec

\* What is visible are the candidates the target is the largest of.
LEMMA VisibleLargest ==
  ASSUME IInv
  PROVE  Largest(doc, Visible, TargetOn(site, doc)) /\ None \notin Visible
<1>1. Visible = ShownOf(doc, Range(CandidatesOn(site, doc)))
  BY DEF Visible, ShownOf, Candidates, CandidatesOn
<1>2. Largest(doc, Visible, TargetOn(site, doc))
  BY <1>1, TargetLargest DEF IInv, Good
<1> QED
  BY <1>2 DEF Visible

\* VDR's video is as large as the video on the page (cefVideoSize): when
\* nothing moved behind the polyfill's back and no message is on its way, VDR
\* knows the size of a candidate that none of the others exceeds.
THEOREM ToldRight == Spec => []ToldLargest
<1>1. IInv => ToldLargest
  <2> SUFFICES ASSUME IInv, doc.seen, \A i \in DOMAIN doc.sent : doc.sent[i].kind # "SIZE"
               PROVE  IF Visible = {} THEN told = Full
                      ELSE \E c \in Visible :
                             /\ told = doc.rect[c]
                             /\ \A b \in Visible :
                                  Covers(doc.rect[b], doc.rect[c]) => doc.rect[b] = doc.rect[c]
    BY DEF ToldLargest
  <2> DEFINE t == TargetOn(site, doc)
  <2>1. told = SizeOn(site, doc)
    BY ToldNow DEF IInv, Good, Measured
  <2>2. told = IF t = None THEN Full ELSE doc.rect[t]
    BY <2>1 DEF SizeOn
  <2>3. Largest(doc, Visible, t) /\ None \notin Visible
    BY VisibleLargest
  <2> HIDE DEF t
  <2> QED
    BY <2>2, <2>3 DEF Largest
<1> QED
  BY Invariance, <1>1, PTL

\* What the page shows fits its video (process_video_quirk, activate_quirks):
\* with a film that fills the screen what the site's start list says, with other
\* video what its stop list says, and without such a film nothing that the start list
\* wrote is left, unless that film went away, and cefVideoSize asked for no list.
THEOREM StyleFits == Spec => []QuirkFollowsVideo
<1>1. IInv => QuirkFollowsVideo
  <2> DEFINE full == told = Full /\ doc.player[FirstPlayer(doc)] # "live"
             film == Visible # {} /\ full
             Own(s) == s.thing \in doc.things /\ ~(s.thing = "body" /\ doc.app)
             InForce(way) == \A s \in Range(Steps(way)) : Own(s) => doc.style[s.thing] = s.value
             Gone == \A s \in Range(Steps("start")) :
                       (Own(s) /\ s.thing # "playerbar[0].parent") => doc.style[s.thing] # s.value
             Conclusion ==
               /\ film => InForce("start")
               /\ (~film /\ (Visible # {} \/ doc.list = "stop")) => InForce("stop")
               /\ (~film /\ ~(Visible = {} /\ doc.list = "start")) => Gone
  <2> SUFFICES ASSUME IInv, doc.seen, doc.timers = <<>>, doc.sent = <<>>
               PROVE  Conclusion
    BY DEF QuirkFollowsVideo
  <2>1. /\ Measured(site, doc, told) /\ Styled(site, doc) /\ Listed(site, doc)
        /\ doc.list \in Ways \cup {"none"}
    BY DEF IInv, Good, Document
  <2>2. Visible # {} => TargetOn(site, doc) # None
    BY VisibleLargest DEF Largest
  <2>3. told = SizeOn(site, doc)
    BY <2>1, ToldNow DEF Measured
  <2>4. Way(site, doc) = IF full THEN "start" ELSE "stop"
    BY <2>3 DEF Way, process_video_quirk
  <2>5. Visible # {} => Fits(site, doc, IF full THEN "start" ELSE "stop")
    BY <2>1, <2>2, <2>4 DEF Styled, DueLast
  <2>6. \A w : Steps(w) = StepsOn(site, w)
    BY DEF Steps, StepsOn
  <2>7. \A w : Fits(site, doc, w) => InForce(w)
    BY <2>6 DEF Fits, Mine, Range
  <2> HIDE DEF full
  <2>8. film => InForce("start")
    BY <2>5, <2>7
  <2>9. (~film /\ (Visible # {} \/ doc.list = "stop")) => InForce("stop")
    <3>1. doc.list = "stop" => Fits(site, doc, "stop")
      BY <2>1 DEF Listed, Ways
    <3>2. (~film /\ Visible # {}) => Fits(site, doc, "stop")
      BY <2>5
    <3> QED
      BY <2>7, <3>1, <3>2
  <2>10. InForce("stop") => Gone
    <3> SUFFICES ASSUME InForce("stop"), NEW s \in Range(Steps("start")),
                        Own(s), s.thing # "playerbar[0].parent"
                 PROVE  doc.style[s.thing] # s.value
      OBVIOUS
    <3>1. site \in Sites
      BY DEF Steps, Range
    <3>2. /\ Undone(Quirks[site])
          /\ Steps("start") = Quirks[site].start /\ Steps("stop") = Quirks[site].stop
      BY <3>1, QuirksTable DEF Steps
    <3>3. PICK r \in Range(Steps("stop")) : r.thing = s.thing /\ r.value # s.value
      BY <3>2 DEF Undone, Range
    <3> QED
      BY <3>3
  <2>11. doc.list = "none" => Gone
    <3> SUFFICES ASSUME doc.list = "none", NEW s \in Range(Steps("start")),
                        Own(s), s.thing # "playerbar[0].parent"
                 PROVE  doc.style[s.thing] # s.value
      OBVIOUS
    <3>1. site \in Sites
      BY DEF Steps, Range
    <3>2. Undone(Quirks[site]) /\ Steps("start") = Quirks[site].start
      BY <3>1, QuirksTable DEF Steps
    <3>3. s.value # "page"
      BY <3>2 DEF Undone, Range
    <3>4. doc.style[s.thing] = "page"
      BY <2>1 DEF Listed, Mine
    <3> QED
      BY <3>3, <3>4
  <2>12. (~film /\ ~(Visible = {} /\ doc.list = "start")) => Gone
    <3> HIDE DEF film, InForce, Gone
    <3> QED
      BY <2>1, <2>9, <2>10, <2>11 DEF Ways
  <2> QED
    BY <2>8, <2>9, <2>12
<1> QED
  BY Invariance, <1>1, PTL

\* The browser is not asked to play an address the polyfill has spoilt
\* (OipfAVControlMapper), unless a film has lost its player before.
THEOREM NoSpoiltAddress == Spec => []SpoiltNotPlayed
<1>1. IInv => SpoiltNotPlayed
  BY DEF IInv, Good, Spoilt, SpoiltNotPlayed
<1> QED
  BY Invariance, <1>1, PTL

\* A film loses its player only to the release of live TV that stands behind
\* it, or has no player any more (OipfVideoBroadcastMapper).
THEOREM FilmStays == Spec => FilmKeepsPlayer
<1> DEFINE A == \A e \in Elements :
                  (doc.player[e] \in {"film", "idle"} /\ doc'.player[e] = "none") =>
                    \A b \in doc.present : doc.player[b] = "live" =>
                      \E i, j \in DOMAIN Order : i < j /\ Order[i] = e /\ Order[j] = b
<1>1. IInv /\ [Next]_vars => A
  <2> SUFFICES ASSUME IInv, [Next]_vars
               PROVE  A
    OBVIOUS
  <2>1. CASE Plays(doc, doc')
    BY <2>1 DEF Plays
  <2>2. CASE \E x \in Elements : Release(x)
    BY <2>2, ReleaseOrder
  <2> QED
    BY <2>1, <2>2, NextInv
<1>2. IInv /\ [Next]_vars => [A]_vars
  BY <1>1
<1> QED
  BY Invariance, <1>2, PTL DEF Spec, FilmKeepsPlayer
=============================================================================
