--------------------------- MODULE ManifestProofs ---------------------------
(***************************************************************************)
(* Theorems about DashManifest, for every set of manifests and every order *)
(* of requests, answers and commands.  The invariant says where in the     *)
(* queue the description of a file can be: behind the CLEAR_DASH of its    *)
(* own request and of no later one, in one piece, and what of it has left  *)
(* the queue is in the tables.                                             *)
(*                                                                         *)
(* What FlattenSeq and GetBestStream compute is shown by induction; the    *)
(* induction is LeastNatural, applied to the set of the counterexamples.   *)
(***************************************************************************)
EXTENDS DashManifest, FiniteSetTheorems, TLAPS

-----------------------------------------------------------------------------
Length(m) == Len(Described(m))

\* What may be in the queue.
Reqs == [kind : {"CLEAR", "PLAY"}] \cup [kind : {"BA"}, of : Manifests]
        \cup UNION {Range(Described(m)) : m \in Manifests}

\* A stream of a table is empty, or a representation of its kind was put there.
Entry(h, s) ==
  \/ s = NewStream(s.idx)
  \/ \E m \in Manifests : \E q \in Range(Described(m)) :
       q.prefix = h /\ q.numbers.duration # NaN /\ s = StreamOf(q)

Table(h, t) ==
  /\ t \in Seq(Range(t))
  /\ \A s \in Range(t) : Entry(h, s)
  /\ \A i, j \in DOMAIN t : t[i].idx = t[j].idx => i = j

Shape ==
  /\ asked \in Nat
  /\ inFlight \subseteq (1 .. asked) \X Manifests
  /\ queue \in Seq(Reqs)
  /\ base \in Manifests \cup {NaN}
  /\ DOMAIN streams = Handlers /\ \A h \in Handlers : Table(h, streams[h])

\* An answer sends BA and the whole description in one piece.
Piece(q, i) ==
  /\ i + Length(q[i].of) <= Len(q)
  /\ \A j \in 1 .. Length(q[i].of) : q[i + j] = Described(q[i].of)[j]

InOnePiece == \A i \in DOMAIN queue : queue[i].kind = "BA" => Piece(queue, i)

\* Between positions i and j of the queue q the tables are cleared.
Cleared(q, i, j) == \E k \in DOMAIN q : i < k /\ k < j /\ q[k].kind = "CLEAR"

\* Nothing that describes a file comes before j without a CLEAR behind it.
NothingBefore(q, j) ==
  \A i \in DOMAIN q : (i < j /\ q[i].kind \in {"BA", "REP"}) => Cleared(q, i, j)

\* The streams a table knows the file of.
Known(t) == {s \in Range(t) : s.of # NaN}

\* What BA is to find at position j: no other file before it, none in the tables ts.
Clean(q, ts, j) == /\ NothingBefore(q, j)
                   /\ Cleared(q, 0, j) \/ \A h \in Handlers : Known(ts[h]) = {}

Apart == \A j \in DOMAIN queue : queue[j].kind = "BA" => Clean(queue, streams, j)

\* The request that was made last finds the same, and is answered once.
Fresh ==
  /\ \A r, s \in inFlight : r[1] = s[1] => r = s
  /\ (\E r \in inFlight : r[1] = asked) => Clean(queue, streams, Len(queue) + 1)

\* A BA of the queue q has the request p behind it.
Covered(q, p) == \E i \in DOMAIN q : q[i].kind = "BA" /\ i < p /\ p <= i + Length(q[i].of)

\* A representation has got to the table of its kind, of the tables ts.
InTable(ts, q) == /\ q.prefix \in Handlers /\ q.numbers.duration # NaN
                  /\ StreamOf(q) \in Range(ts[q.prefix])

\* The first r requests of the queue q are what is left of the file b of
\* baseUrl; the tables ts have the others, unless the browser died (c).
Left(q, b, ts, c, r) ==
  /\ b = NaN => r = 0
  /\ b # NaN => /\ r <= Length(b)
                /\ \A j \in 1 .. r : q[j] = Described(b)[Length(b) - r + j]
                /\ ~c => \A j \in 1 .. Length(b) - r : InTable(ts, Described(b)[j])
  /\ \A p \in DOMAIN q : q[p].kind = "REP" => p <= r \/ Covered(q, p)

Rest == \E r \in 0 .. Len(queue) : Left(queue, base, streams, crashed, r)

IInv == Shape /\ InOnePiece /\ (~overtaken => Apart /\ Fresh /\ Rest /\ OneManifest)

-----------------------------------------------------------------------------
(***************************************************************************)
(* Lemmas about numbers and sequences.                                     *)
(***************************************************************************)
\* A set of naturals that is not empty has a least element: the finite sets
\* 1 .. n are well-founded.
LEMMA LeastNatural ==
  ASSUME NEW T, T \subseteq Nat, T # {}
  PROVE  \E n \in T : \A k \in T : n <= k
<1> DEFINE Ps == {1 .. n : n \in T}
           R == StrictSubsetOrdering(Nat)
           F == FiniteSubsetsOf(Nat)
<1>1. IsWellFoundedOn(R, F)
  BY FS_StrictSubsetOrderingWellFounded
<1>2. \A n \in Nat : 1 .. n \in SUBSET Nat /\ IsFiniteSet(1 .. n)
  BY FS_Interval
<1>3. Ps \subseteq F /\ Ps # {}
  BY <1>2 DEF FiniteSubsetsOf
<1>4. ASSUME NEW k \in Nat, NEW n \in Nat, k < n
      PROVE  <<1 .. k, 1 .. n>> \in R
  <2>1. 1 .. k \subseteq 1 .. n /\ n \in 1 .. n /\ n \notin 1 .. k
    BY <1>4
  <2> QED
    BY <1>2, <2>1 DEF StrictSubsetOrdering
<1>5. \E P \in Ps : \A Q \in Ps : ~(<<Q, P>> \in R)
  <2> HIDE DEF Ps, R, F
  <2> QED
    BY <1>1, <1>3, WFMin
<1>6. PICK n \in T : \A Q \in Ps : ~(<<Q, 1 .. n>> \in R)
  BY <1>5
<1>7. \A k \in T : ~(k < n)
  BY <1>4, <1>6
<1> QED
  BY <1>7

\* A concatenation has the elements of both sequences.
LEMMA ConcatRange ==
  ASSUME NEW S, NEW s \in Seq(S), NEW t \in Seq(S)
  PROVE  s \o t \in Seq(S) /\ Range(s \o t) = Range(s) \cup Range(t)
<1>1. /\ s \o t \in Seq(S) /\ Len(s \o t) = Len(s) + Len(t)
      /\ Len(s) \in Nat /\ Len(t) \in Nat
      /\ DOMAIN s = 1 .. Len(s) /\ DOMAIN t = 1 .. Len(t) /\ DOMAIN (s \o t) = 1 .. Len(s) + Len(t)
  OBVIOUS
<1>2. \A i \in 1 .. Len(s) : i \in DOMAIN (s \o t) /\ (s \o t)[i] = s[i]
  OBVIOUS
<1>3. \A i \in 1 .. Len(t) : Len(s) + i \in DOMAIN (s \o t) /\ (s \o t)[Len(s) + i] = t[i]
  OBVIOUS
<1>4. \A i \in DOMAIN (s \o t) : i \in 1 .. Len(s) \/ \E k \in 1 .. Len(t) : i = Len(s) + k
  <2> SUFFICES ASSUME NEW i \in DOMAIN (s \o t), i \notin 1 .. Len(s)
               PROVE  i - Len(s) \in 1 .. Len(t) /\ i = Len(s) + (i - Len(s))
    OBVIOUS
  <2> QED
    BY <1>1
<1>5. ASSUME NEW x \in Range(s \o t)
      PROVE  x \in Range(s) \cup Range(t)
  <2>1. PICK i \in DOMAIN (s \o t) : x = (s \o t)[i]
    BY DEF Range
  <2> QED
    BY <1>1, <1>2, <1>3, <1>4, <2>1 DEF Range
<1>6. ASSUME NEW x \in Range(s) \cup Range(t)
      PROVE  x \in Range(s \o t)
  <2>1. \/ \E i \in 1 .. Len(s) : x = s[i]
        \/ \E i \in 1 .. Len(t) : x = t[i]
    BY <1>1 DEF Range
  <2>2. \E i \in DOMAIN (s \o t) : x = (s \o t)[i]
    <3>1. \A i \in 1 .. Len(t) : (s \o t)[Len(s) + i] = t[i]
      BY <1>3
    <3> QED
      BY <1>2, <1>3, <2>1
  <2> QED
    BY <2>2 DEF Range
<1> QED
  BY <1>1, <1>5, <1>6

\* What FlattenSeq computes with: the concatenation of the first i sequences.
Flattens(f, ss) == f = [i \in 1 .. Len(ss) |-> IF i = 1 THEN ss[i] ELSE f[i - 1] \o ss[i]]

\* There is such a function, for any number of sequences.
LEMMA Flattening ==
  ASSUME NEW ss, Len(ss) \in Nat
  PROVE  \E f : Flattens(f, ss)
<1> DEFINE G(f, n) == f = [i \in 1 .. n |-> IF i = 1 THEN ss[i] ELSE f[i - 1] \o ss[i]]
           T == {n \in Nat : ~ \E f : G(f, n)}
<1>1. SUFFICES ASSUME T # {}
               PROVE  FALSE
  BY DEF Flattens
<1>2. PICK n \in T : \A k \in T : n <= k
  BY <1>1, LeastNatural
<1>3. CASE n = 0
  <2> DEFINE f == [i \in 1 .. 0 |-> i]
  <2>1. f = [i \in 1 .. 0 |-> IF i = 1 THEN ss[i] ELSE f[i - 1] \o ss[i]]
    OBVIOUS
  <2> QED
    BY <1>3, <2>1
<1>4. CASE n # 0
  <2>1. n \in Nat /\ n - 1 \in Nat /\ n - 1 < n
    BY <1>4
  <2>b. n - 1 \notin T
    <3> HIDE DEF T
    <3> QED
      BY <1>2, <2>1
  <2>2. PICK f : G(f, n - 1)
    BY <2>1, <2>b
  <2> DEFINE g == [i \in 1 .. n |-> IF i = 1 THEN ss[i] ELSE f[i - 1] \o ss[i]]
  <2>3. ASSUME NEW i \in 1 .. n - 1
        PROVE  g[i] = f[i]
    <3>1. i \in 1 .. n
      BY <2>1
    <3>2. f[i] = IF i = 1 THEN ss[i] ELSE f[i - 1] \o ss[i]
      BY <2>2
    <3> QED
      BY <3>1, <3>2
  <2>4. ASSUME NEW i \in 1 .. n
        PROVE  (IF i = 1 THEN ss[i] ELSE f[i - 1] \o ss[i]) = (IF i = 1 THEN ss[i] ELSE g[i - 1] \o ss[i])
    <3>1. CASE i = 1
      BY <3>1
    <3>2. CASE i # 1
      <4>1. i - 1 \in 1 .. n - 1
        BY <3>2
      <4>2. g[i - 1] = f[i - 1]
        BY <2>3, <4>1
      <4> QED
        BY <3>2, <4>2
    <3> QED
      BY <3>1, <3>2
  <2>5. G(g, n)
    BY <2>4
  <2> QED
    BY <2>5
<1> QED
  BY <1>3, <1>4

\* FlattenSeq is its last value.
LEMMA FlattenUnfold ==
  ASSUME NEW ss, Len(ss) \in Nat, Len(ss) # 0
  PROVE  \E f : Flattens(f, ss) /\ FlattenSeq(ss) = f[Len(ss)]
<1>1. Flattens(CHOOSE f : Flattens(f, ss), ss)
  BY Flattening
<1> QED
  BY <1>1 DEF FlattenSeq, Flattens

\* FlattenSeq has the elements of all the sequences, and no other.
LEMMA FlattenType ==
  ASSUME NEW S, NEW ss, ss \in Seq(Seq(S))
  PROVE  /\ FlattenSeq(ss) \in Seq(S)
         /\ \A i \in DOMAIN ss : Range(ss[i]) \subseteq Range(FlattenSeq(ss))
         /\ Range(FlattenSeq(ss)) \subseteq UNION {Range(ss[i]) : i \in DOMAIN ss}
<1> DEFINE N == Len(ss)
           Below(n) == UNION {Range(ss[i]) : i \in 1 .. n}
<1>1. N \in Nat /\ DOMAIN ss = 1 .. N /\ \A i \in 1 .. N : ss[i] \in Seq(S)
  OBVIOUS
<1>2. CASE N = 0
  <2>1. FlattenSeq(ss) = ss /\ ss = <<>>
    BY <1>2 DEF FlattenSeq
  <2> QED
    BY <2>1, <1>1, <1>2 DEF Range
<1>3. CASE N # 0
  <2>1. PICK f : Flattens(f, ss) /\ FlattenSeq(ss) = f[N]
    BY <1>1, <1>3, FlattenUnfold
  <2>2. \A i \in 1 .. N : f[i] = IF i = 1 THEN ss[i] ELSE f[i - 1] \o ss[i]
    BY <2>1, <1>1 DEF Flattens
  <2> DEFINE P(n) == f[n] \in Seq(S) /\ Range(f[n]) = Below(n)
             T == {n \in 1 .. N : ~P(n)}
  <2>9. SUFFICES ASSUME ~P(N)
                 PROVE  FALSE
    BY <2>1, <1>1
  <2>3. T # {}
    <3>1. N \in 1 .. N
      BY <1>1, <1>3
    <3> HIDE DEF P, N
    <3> QED
      BY <2>9, <3>1
  <2>4. T \subseteq Nat
    BY <1>1
  <2>5. PICK n \in T : \A k \in T : n <= k
    <3> HIDE DEF T
    <3> QED
      BY <2>3, <2>4, LeastNatural
  <2>6. n \in 1 .. N /\ ss[n] \in Seq(S)
    BY <1>1
  <2>7. CASE n = 1
    <3>1. f[n] = ss[n]
      BY <2>2, <2>6, <2>7
    <3>2. Below(n) = Range(ss[n])
      BY <2>7
    <3> QED
      BY <3>1, <3>2, <2>6
  <2>8. CASE n # 1
    <3>1. n - 1 \in 1 .. N /\ n - 1 < n /\ n - 1 \in Nat
      BY <2>6, <2>8, <1>1
    <3>2. P(n - 1)
      <4>1. n - 1 \notin T
        <5> HIDE DEF T
        <5> QED
          BY <2>5, <3>1, <2>6, <1>1
      <4> QED
        BY <3>1, <4>1
    <3>3. f[n] = f[n - 1] \o ss[n]
      BY <2>2, <2>6, <2>8
    <3>4. f[n] \in Seq(S) /\ Range(f[n]) = Range(f[n - 1]) \cup Range(ss[n])
      <4> HIDE DEF T
      <4> QED
        BY <3>2, <3>3, <2>6, ConcatRange
    <3>5. Below(n) = Below(n - 1) \cup Range(ss[n])
      <4>1. 1 .. n = (1 .. n - 1) \cup {n}
        BY <3>1, <2>6, <1>1
      <4> QED
        BY <4>1
    <3> QED
      BY <3>2, <3>4, <3>5
  <2> QED
    BY <2>7, <2>8
<1> QED
  BY <1>2, <1>3

\* Sequences of length n are what they are by their elements.
LEMMA IsSequence ==
  ASSUME NEW n \in Nat, NEW f, f = [i \in 1 .. n |-> f[i]]
  PROVE  f \in Seq(Range(f)) /\ Len(f) = n
<1>1. f \in [1 .. n -> Range(f)]
  <2>1. DOMAIN f = 1 .. n
    OBVIOUS
  <2>2. \A i \in 1 .. n : f[i] \in Range(f)
    BY <2>1 DEF Range
  <2> QED
    BY <2>2
<1> QED
  BY <1>1

\* Append adds an element at the end.
LEMMA AppendTo ==
  ASSUME NEW s, s \in Seq(Range(s)), NEW x
  PROVE  /\ Append(s, x) \in Seq(Range(Append(s, x)))
         /\ Range(Append(s, x)) = Range(s) \cup {x}
         /\ Len(s) \in Nat /\ DOMAIN s = 1 .. Len(s)
         /\ DOMAIN Append(s, x) = 1 .. Len(s) + 1
         /\ Append(s, x)[Len(s) + 1] = x
         /\ \A i \in 1 .. Len(s) : Append(s, x)[i] = s[i]
<1> DEFINE t == Append(s, x)
           S == Range(s) \cup {x}
<1>1. s \in Seq(S) /\ x \in S
  OBVIOUS
<1>2. /\ t \in Seq(S) /\ Len(s) \in Nat /\ DOMAIN s = 1 .. Len(s) /\ DOMAIN t = 1 .. Len(s) + 1
      /\ t[Len(s) + 1] = x /\ \A i \in 1 .. Len(s) : t[i] = s[i]
  <2> HIDE DEF S
  <2> QED
    BY <1>1
<1>3. Range(t) = S
  <2>1. ASSUME NEW y \in Range(t)
        PROVE  y \in S
    <3>1. PICK i \in 1 .. Len(s) + 1 : y = t[i]
      BY <1>2 DEF Range
    <3>2. CASE i = Len(s) + 1
      BY <3>1, <3>2, <1>2
    <3>3. CASE i \in 1 .. Len(s)
      BY <3>1, <3>3, <1>2 DEF Range
    <3> QED
      BY <3>1, <3>2, <3>3, <1>2
  <2>2. x \in Range(t)
    <3>1. Len(s) + 1 \in DOMAIN t
      BY <1>2
    <3> HIDE DEF t
    <3> QED
      BY <3>1, <1>2 DEF Range
  <2>3. ASSUME NEW y \in Range(s)
        PROVE  y \in Range(t)
    <3>1. PICK i \in 1 .. Len(s) : y = s[i]
      BY <1>2 DEF Range
    <3>2. i \in DOMAIN t /\ t[i] = y
      BY <3>1, <1>2
    <3> HIDE DEF t
    <3> QED
      BY <3>2 DEF Range
  <2> QED
    BY <2>1, <2>2, <2>3
<1> QED
  BY <1>2, <1>3

\* Max of a set of numbers up to n is one of them.
LEMMA MaxIsElement ==
  ASSUME NEW n \in Nat, NEW S, S \subseteq 0 .. n, S # {}
  PROVE  Max(S) \in S
<1> DEFINE T == {n - k : k \in S}
<1>1. T \subseteq Nat /\ T # {}
  <2>1. \A k \in S : k \in 0 .. n
    OBVIOUS
  <2>2. \A k \in 0 .. n : n - k \in Nat
    OBVIOUS
  <2> QED
    BY <2>1, <2>2
<1>2. PICK t \in T : \A u \in T : t <= u
  <2> HIDE DEF T
  <2> QED
    BY <1>1, LeastNatural
<1>3. PICK k \in S : t = n - k
  OBVIOUS
<1>4. ASSUME NEW y \in S
      PROVE  k >= y
  <2>1. n - k <= n - y
    BY <1>2, <1>3
  <2> QED
    BY <2>1
<1> QED
  BY <1>4 DEF Max

-----------------------------------------------------------------------------
(***************************************************************************)
(* What the page describes.                                                *)
(***************************************************************************)
\* A representation of a file goes to the table of its kind, with its numbers.
OfSet(q, m, set) ==
  /\ \E k \in DOMAIN set.reps : q.rep = set.reps[k]
  /\ q.prefix = getPrefixForMimeType(q.rep, set)
  /\ q.numbers = Numbers(m, set) /\ q.urls = getMediaInit(q.rep, set)

\* The loop gets to some of the sets, and describes all that these have.
LEMMA DescribedFacts ==
  ASSUME NEW m \in Manifests
  PROVE  /\ SetsDescribed(m) \in 0 .. Len(m.sets)
         /\ Length(m) \in Nat /\ DOMAIN Described(m) = 1 .. Length(m)
         /\ Described(m) \in Seq(Range(Described(m)))
         /\ \A j \in 1 .. Length(m) : LET q == Described(m)[j] IN
              /\ q.kind = "REP" /\ q.of = m /\ q.idx = j - 1
              /\ \E i \in 1 .. SetsDescribed(m) : OfSet(q, m, m.sets[i])
         /\ \A i \in 1 .. SetsDescribed(m) : \A k \in DOMAIN m.sets[i].reps :
              \E j \in 1 .. Length(m) :
                /\ Described(m)[j].rep = m.sets[i].reps[k]
                /\ Described(m)[j].prefix = getPrefixForMimeType(m.sets[i].reps[k], m.sets[i])
<1> DEFINE N == SetsDescribed(m)
           L == Len(xmlToJson(m.sets))
           Good == {n \in 0 .. L : \A i \in 1 .. n : xmlToJson(m.sets)[i].template # NaN}
           ss == [i \in 1 .. N |-> RepsOfSet(m, m.sets[i])]
           all == FlattenSeq(ss)
           R == UNION {Range(ss[i]) : i \in 1 .. N}
<1>1. m.sets \in Seq(Range(m.sets)) /\ \A set \in Range(m.sets) : set.reps \in Seq(Range(set.reps))
  BY ManifestAssumption
<1>2. N \in 0 .. Len(m.sets)
  <2>1. Len(m.sets) \in Nat /\ L \in 0 .. Len(m.sets)
    BY <1>1 DEF xmlToJson
  <2>2. N = Max(Good)
    BY DEF SetsDescribed
  <2> HIDE DEF N, L
  <2>3. L \in Nat /\ Good \subseteq 0 .. L /\ 0 \in Good
    BY <2>1
  <2> HIDE DEF Good
  <2>4. Max(Good) \in Good
    BY <2>3, MaxIsElement
  <2>5. Max(Good) \in 0 .. L
    BY <2>3, <2>4
  <2> QED
    BY <2>1, <2>2, <2>5
<1> HIDE DEF N
<1>3. \A i \in 1 .. N : m.sets[i] \in Range(m.sets)
  BY <1>1, <1>2 DEF Range
<1>4. ASSUME NEW i \in 1 .. N
      PROVE  /\ ss[i] = RepsOfSet(m, m.sets[i]) /\ DOMAIN ss[i] = DOMAIN m.sets[i].reps
             /\ ss[i] \in Seq(Range(ss[i]))
  <2>1. m.sets[i].reps \in Seq(Range(m.sets[i].reps))
    BY <1>1, <1>3
  <2>2. Len(m.sets[i].reps) \in Nat /\ DOMAIN m.sets[i].reps = 1 .. Len(m.sets[i].reps)
    BY <2>1
  <2>3. DOMAIN ss[i] = 1 .. Len(m.sets[i].reps) /\ ss[i] = [k \in 1 .. Len(m.sets[i].reps) |-> ss[i][k]]
    BY <2>2 DEF RepsOfSet
  <2> QED
    BY <2>2, <2>3, IsSequence
<1>5. ss \in Seq(Seq(R)) /\ DOMAIN ss = 1 .. N
  <2>1. \A i \in 1 .. N : ss[i] \in Seq(R)
    <3> SUFFICES ASSUME NEW i \in 1 .. N
                 PROVE  ss[i] \in Seq(R)
      OBVIOUS
    <3>1. Range(ss[i]) \subseteq R
      OBVIOUS
    <3> HIDE DEF ss, R
    <3> QED
      BY <1>4, <3>1
  <2> HIDE DEF R
  <2> QED
    BY <2>1, <1>2
<1>6. /\ all \in Seq(R) /\ Range(all) \subseteq R
      /\ \A i \in 1 .. N : Range(ss[i]) \subseteq Range(all)
  <2> HIDE DEF ss
  <2> QED
    BY <1>5, FlattenType
<1> HIDE DEF all
<1>7. Len(all) \in Nat /\ DOMAIN all = 1 .. Len(all)
  <2> HIDE DEF R
  <2> QED
    BY <1>6
<1>8. Described(m) = [j \in 1 .. Len(all) |-> [all[j] EXCEPT !.idx = j - 1]]
  BY <1>7 DEF Described, all, N
<1>9. Length(m) = Len(all) /\ DOMAIN Described(m) = 1 .. Len(all) /\ Described(m) \in Seq(Range(Described(m)))
  <2>1. Described(m) = [j \in 1 .. Len(all) |-> Described(m)[j]]
    BY <1>8
  <2>2. Len(Described(m)) = Len(all) /\ Described(m) \in Seq(Range(Described(m)))
    BY <1>7, <2>1, IsSequence
  <2> QED
    BY <2>1, <2>2 DEF Length
<1>10. ASSUME NEW j \in 1 .. Len(all)
       PROVE  \E i \in 1 .. N : \E k \in DOMAIN m.sets[i].reps : all[j] = RepsOfSet(m, m.sets[i])[k]
  <2>1. all[j] \in R
    BY <1>6, <1>7 DEF Range
  <2>2. PICK i \in 1 .. N : all[j] \in Range(ss[i])
    BY <2>1
  <2> HIDE DEF ss
  <2>3. PICK k \in DOMAIN ss[i] : all[j] = ss[i][k]
    BY <2>2 DEF Range
  <2> QED
    BY <2>3, <1>4
<1>11. ASSUME NEW j \in 1 .. Len(all)
       PROVE  LET q == Described(m)[j] IN
                /\ q.kind = "REP" /\ q.of = m /\ q.idx = j - 1 /\ q.rep = all[j].rep
                /\ q.prefix = all[j].prefix
                /\ \E i \in 1 .. N : OfSet(q, m, m.sets[i])
  <2>6. PICK i \in 1 .. N : \E k \in DOMAIN m.sets[i].reps : all[j] = RepsOfSet(m, m.sets[i])[k]
    BY <1>10
  <2>1. PICK k \in DOMAIN m.sets[i].reps : all[j] = RepsOfSet(m, m.sets[i])[k]
    BY <2>6
  <2>2. Described(m)[j] = [all[j] EXCEPT !.idx = j - 1]
    BY <1>8
  <2>3. Described(m)[j] =
          [kind |-> "REP", of |-> m, rep |-> m.sets[i].reps[k], idx |-> j - 1,
           prefix |-> getPrefixForMimeType(m.sets[i].reps[k], m.sets[i]),
           numbers |-> Numbers(m, m.sets[i]), urls |-> getMediaInit(m.sets[i].reps[k], m.sets[i])]
    BY <2>1, <2>2 DEF RepsOfSet
  <2>4. all[j].rep = m.sets[i].reps[k] /\ all[j].prefix = getPrefixForMimeType(m.sets[i].reps[k], m.sets[i])
    BY <2>1 DEF RepsOfSet
  <2>5. OfSet(Described(m)[j], m, m.sets[i])
    BY <2>3 DEF OfSet
  <2> QED
    BY <2>3, <2>4, <2>5
<1>12. ASSUME NEW i \in 1 .. N, NEW k \in DOMAIN m.sets[i].reps
       PROVE  \E j \in 1 .. Len(all) :
                /\ Described(m)[j].rep = m.sets[i].reps[k]
                /\ Described(m)[j].prefix = getPrefixForMimeType(m.sets[i].reps[k], m.sets[i])
  <2>1. RepsOfSet(m, m.sets[i])[k] \in Range(all)
    <3>1. RepsOfSet(m, m.sets[i])[k] \in Range(ss[i])
      BY <1>4 DEF Range
    <3> HIDE DEF ss
    <3> QED
      BY <3>1, <1>6
  <2>2. PICK j \in 1 .. Len(all) : all[j] = RepsOfSet(m, m.sets[i])[k]
    BY <2>1, <1>7 DEF Range
  <2>3. all[j].rep = m.sets[i].reps[k] /\ all[j].prefix = getPrefixForMimeType(m.sets[i].reps[k], m.sets[i])
    BY <2>2 DEF RepsOfSet
  <2> QED
    BY <2>3, <1>11
<1> QED
  BY <1>2, <1>7, <1>9, <1>11, <1>12 DEF N

\* A request of the queue describes a file, or has none.
LEMMA ReqFacts ==
  ASSUME NEW q \in Reqs
  PROVE  /\ q.kind \in {"CLEAR", "PLAY", "BA", "REP"}
         /\ q.kind = "BA" => q.of \in Manifests
         /\ q.kind = "REP" => q.of \in Manifests /\ q \in Range(Described(q.of))
<1>1. CASE q \in [kind : {"CLEAR", "PLAY"}]
  BY <1>1
<1>2. CASE q \in [kind : {"BA"}, of : Manifests]
  BY <1>2
<1>3. ASSUME NEW m \in Manifests, q \in Range(Described(m))
      PROVE  q.kind = "REP" /\ q.of = m
  <2>1. PICK j \in 1 .. Length(m) : q = Described(m)[j]
    BY <1>3, DescribedFacts DEF Range
  <2> QED
    BY <2>1, DescribedFacts
<1> QED
  BY <1>1, <1>2, <1>3 DEF Reqs

-----------------------------------------------------------------------------
(***************************************************************************)
(* The tables of streams.                                                  *)
(***************************************************************************)
\* A new stream is of no file and has no bandwidth.
LEMMA NewStreamFacts ==
  ASSUME NEW idx
  PROVE  LET s == NewStream(idx)
         IN s.idx = idx /\ s.of = NaN /\ s.bandwidth = 0 /\ s.duration = 0
BY DEF NewStream

\* Filled is the same set.
LEMMA FilledIsKnown ==
  ASSUME NEW h
  PROVE  Filled(h) = Known(streams[h])
BY DEF Filled, Known, Range

\* GetStream adds a stream at most, of no file, and there is one with the index.
LEMMA GetStreamFacts ==
  ASSUME NEW h, NEW t, Table(h, t), NEW idx
  PROVE  LET g == GetStream(t, idx)
         IN /\ Table(h, g) /\ Known(g) = Known(t)
            /\ Range(t) \subseteq Range(g) /\ Range(g) \subseteq Range(t) \cup {NewStream(idx)}
            /\ \E i \in DOMAIN g : g[i].idx = idx
<1> DEFINE g == GetStream(t, idx)
<1>1. CASE \E i \in DOMAIN t : t[i].idx = idx
  <2>1. g = t
    BY <1>1 DEF GetStream
  <2> QED
    BY <1>1, <2>1
<1>2. CASE ~ \E i \in DOMAIN t : t[i].idx = idx
  <2> DEFINE s == NewStream(idx)
  <2>1. g = Append(t, s)
    BY <1>2 DEF GetStream
  <2>2. s.idx = idx /\ s.of = NaN
    BY NewStreamFacts
  <2>3. t \in Seq(Range(t))
    BY DEF Table
  <2> HIDE DEF s, g
  <2>4. /\ g \in Seq(Range(g)) /\ Range(g) = Range(t) \cup {s}
        /\ Len(t) \in Nat /\ DOMAIN t = 1 .. Len(t) /\ DOMAIN g = 1 .. Len(t) + 1
        /\ g[Len(t) + 1] = s /\ \A i \in 1 .. Len(t) : g[i] = t[i]
    BY <2>1, <2>3, AppendTo
  <2>5. \A r \in Range(g) : Entry(h, r)
    <3>1. Entry(h, s)
      BY <2>2 DEF Entry, s
    <3> QED
      BY <2>4, <3>1 DEF Table
  <2>6. ASSUME NEW i \in DOMAIN g, NEW j \in DOMAIN g, g[i].idx = g[j].idx
        PROVE  i = j
    <3>1. CASE i \in DOMAIN t /\ j \in DOMAIN t
      BY <2>4, <2>6, <3>1 DEF Table
    <3>2. CASE i \in DOMAIN t /\ j = Len(t) + 1
      BY <1>2, <2>2, <2>4, <2>6, <3>2
    <3>3. CASE i = Len(t) + 1 /\ j \in DOMAIN t
      BY <1>2, <2>2, <2>4, <2>6, <3>3
    <3> QED
      BY <2>4, <3>1, <3>2, <3>3
  <2>7. Known(g) = Known(t)
    BY <2>2, <2>4 DEF Known
  <2>8. Len(t) + 1 \in DOMAIN g /\ g[Len(t) + 1].idx = idx
    BY <2>2, <2>4
  <2> QED
    BY <2>4, <2>5, <2>6, <2>7, <2>8 DEF Table, s, g
<1> QED
  BY <1>1, <1>2

\* The requests of a representation fill the stream with their index, and no other.
LEMMA DescribeFacts ==
  ASSUME NEW h, NEW t, Table(h, t), NEW m \in Manifests, NEW q \in Range(Described(m)),
         q.prefix = h, q.numbers.duration # NaN, \E i \in DOMAIN t : t[i].idx = q.idx
  PROVE  LET d == [i \in DOMAIN t |-> IF t[i].idx = q.idx THEN StreamOf(q) ELSE t[i]]
         IN /\ Table(h, d) /\ StreamOf(q) \in Range(d)
            /\ Range(d) \subseteq Range(t) \cup {StreamOf(q)}
            /\ \A s \in Range(t) : s.idx # q.idx => s \in Range(d)
<1> DEFINE d == [i \in DOMAIN t |-> IF t[i].idx = q.idx THEN StreamOf(q) ELSE t[i]]
           n == Len(t)
<1>1. t \in Seq(Range(t)) /\ n \in Nat /\ DOMAIN t = 1 .. n
  BY DEF Table
<1>2. DOMAIN d = 1 .. n /\ d = [i \in 1 .. n |-> d[i]]
  BY <1>1
<1>3. d \in Seq(Range(d))
  <2> HIDE DEF d, n
  <2> QED
    BY <1>1, <1>2, IsSequence
<1>4. StreamOf(q).idx = q.idx
  BY DEF StreamOf
<1>5. \A i \in 1 .. n : d[i] = IF t[i].idx = q.idx THEN StreamOf(q) ELSE t[i]
  BY <1>1
<1> HIDE DEF d, n
<1>6. Range(d) \subseteq Range(t) \cup {StreamOf(q)}
  BY <1>1, <1>2, <1>5 DEF Range
<1>7. StreamOf(q) \in Range(d)
  BY <1>1, <1>2, <1>5 DEF Range
<1>8. \A s \in Range(t) : s.idx # q.idx => s \in Range(d)
  BY <1>1, <1>2, <1>5 DEF Range
<1>9. Entry(h, StreamOf(q))
  BY DEF Entry
<1>10. \A i \in 1 .. n : d[i].idx = t[i].idx
  BY <1>4, <1>5
<1>11. Table(h, d)
  BY <1>1, <1>2, <1>3, <1>6, <1>9, <1>10 DEF Table
<1> QED
  BY <1>6, <1>7, <1>8, <1>11 DEF d

\* GetStreamOf finds the stream with the index: there is only one.
LEMMA GetStreamOfFacts ==
  ASSUME NEW h, NEW t, Table(h, t), NEW i \in DOMAIN t
  PROVE  GetStreamOf(t, t[i].idx) = t[i]
<1> DEFINE First(k) == t[k].idx = t[i].idx /\ \A j \in 1 .. k - 1 : t[j].idx # t[i].idx
<1>1. \A k \in DOMAIN t : t[k].idx = t[i].idx => k = i
  BY DEF Table
<1>2. DOMAIN t = 1 .. Len(t) /\ Len(t) \in Nat
  BY DEF Table
<1>3. First(i)
  <2>1. \A j \in 1 .. i - 1 : j \in DOMAIN t /\ j # i
    BY <1>2
  <2> QED
    BY <1>1, <2>1
<1>4. \A k \in DOMAIN t : First(k) => k = i
  BY <1>1
<1>5. (CHOOSE k \in DOMAIN t : First(k)) = i
  <2> HIDE DEF First
  <2> QED
    BY <1>3, <1>4
<1> QED
  BY <1>5 DEF GetStreamOf

\* Of streams with a bandwidth, the first of the highest is the best.
Best(t, i) == /\ t[i].bandwidth > 0
              /\ \A j \in DOMAIN t : \/ t[j].bandwidth < t[i].bandwidth
                                     \/ t[j].bandwidth = t[i].bandwidth /\ i <= j

\* Of finitely many streams, one with a bandwidth, there is a best.
LEMMA BestExists ==
  ASSUME NEW t, NEW n \in Nat, DOMAIN t = 1 .. n, \A j \in 1 .. n : t[j].bandwidth \in Nat,
         \E j \in 1 .. n : t[j].bandwidth > 0
  PROVE  \E i \in DOMAIN t : Best(t, i)
<1> DEFINE B(j) == t[j].bandwidth
           BestOf(k) == \/ \A j \in 1 .. k : B(j) = 0
                        \/ \E i \in 1 .. k : /\ B(i) > 0
                                             /\ \A j \in 1 .. k : B(j) < B(i) \/ (B(j) = B(i) /\ i <= j)
           T == {k \in 0 .. n : ~BestOf(k)}
<1>1. T = {}
  <2>1. SUFFICES ASSUME T # {}
                 PROVE  FALSE
    OBVIOUS
  <2>2. PICK k \in T : \A l \in T : k <= l
    <3>1. T \subseteq Nat
      OBVIOUS
    <3> HIDE DEF T
    <3> QED
      BY <2>1, <3>1, LeastNatural
  <2>3. k \in 0 .. n /\ ~BestOf(k)
    OBVIOUS
  <2>4. k # 0
    BY <2>3
  <2>5. k - 1 \in 0 .. n /\ k - 1 < k
    BY <2>3, <2>4
  <2>6. BestOf(k - 1)
    <3>1. k - 1 \notin T
      <4> HIDE DEF T
      <4> QED
        BY <2>2, <2>3, <2>5
    <3> HIDE DEF BestOf
    <3> QED
      BY <2>5, <3>1
  <2>7. (1 .. k) = (1 .. k - 1) \cup {k} /\ k \in 1 .. n
    BY <2>3, <2>4
  <2>8. \A j \in 1 .. n : B(j) \in Nat
    OBVIOUS
  <2> HIDE DEF B, T
  <2>9. CASE \A j \in 1 .. k - 1 : B(j) = 0
    <3>1. CASE B(k) = 0
      BY <2>3, <2>7, <2>9, <3>1
    <3>2. CASE B(k) > 0
      <4>1. ASSUME NEW j \in 1 .. k
            PROVE  B(j) < B(k) \/ (B(j) = B(k) /\ k <= j)
        <5>1. CASE j = k
          BY <5>1, <2>3
        <5>2. CASE j \in 1 .. k - 1
          <6>1. B(j) = 0 /\ B(k) \in Nat
            BY <5>2, <2>7, <2>8, <2>9
          <6> QED
            BY <6>1, <3>2
        <5> QED
          BY <2>7, <5>1, <5>2
      <4> QED
        BY <2>3, <2>7, <3>2, <4>1
    <3> QED
      BY <2>7, <2>8, <3>1, <3>2
  <2>10. CASE \E i \in 1 .. k - 1 : /\ B(i) > 0
                                    /\ \A j \in 1 .. k - 1 : B(j) < B(i) \/ (B(j) = B(i) /\ i <= j)
    <3>1. PICK i \in 1 .. k - 1 : /\ B(i) > 0
                                  /\ \A j \in 1 .. k - 1 : B(j) < B(i) \/ (B(j) = B(i) /\ i <= j)
      BY <2>10
    <3>2. i \in 1 .. n /\ i \in 1 .. k /\ i < k /\ B(i) \in Nat /\ B(k) \in Nat
      BY <2>3, <2>7, <2>8
    <3>3. CASE B(k) <= B(i)
      <4>1. \A j \in 1 .. k : B(j) < B(i) \/ (B(j) = B(i) /\ i <= j)
        BY <2>7, <3>1, <3>2, <3>3
      <4> QED
        BY <2>3, <3>1, <3>2, <4>1
    <3>4. CASE B(k) > B(i)
      <4>1. ASSUME NEW j \in 1 .. k
            PROVE  B(j) < B(k) \/ (B(j) = B(k) /\ k <= j)
        <5>1. CASE j = k
          BY <5>1, <2>3
        <5>2. CASE j \in 1 .. k - 1
          <6>1. B(j) < B(i) \/ B(j) = B(i)
            BY <5>2, <3>1
          <6>2. j \in 1 .. n
            BY <5>2, <2>3
          <6>3. B(j) \in Nat
            BY <6>2, <2>8
          <6> QED
            BY <6>1, <6>3, <3>2, <3>4
        <5> QED
          BY <2>7, <5>1, <5>2
      <4> QED
        BY <2>3, <2>7, <3>1, <3>2, <3>4, <4>1
    <3> QED
      BY <3>2, <3>3, <3>4
  <2> QED
    BY <2>6, <2>9, <2>10
<1>2. BestOf(n)
  <2> HIDE DEF BestOf
  <2> QED
    BY <1>1
<1> QED
  BY <1>2 DEF Best

-----------------------------------------------------------------------------
(***************************************************************************)
(* The queue: what is sent is added at its end, what is taken is its head. *)
(***************************************************************************)
\* The queue t has the queue q at its front.
Extends(t, q) == /\ t \in Seq(Reqs) /\ q \in Seq(Reqs) /\ Len(q) <= Len(t)
                 /\ \A i \in 1 .. Len(q) : t[i] = q[i]

\* What holds of a position of the queue keeps holding when more is sent.
LEMMA ExtendsKeeps ==
  ASSUME NEW q, NEW t, Extends(t, q)
  PROVE  /\ \A i, j \in Int : Cleared(q, i, j) => Cleared(t, i, j)
         /\ \A j \in 1 .. Len(q) + 1 : NothingBefore(q, j) => NothingBefore(t, j)
         /\ \A p \in Int : Covered(q, p) => Covered(t, p)
         /\ \A i \in 1 .. Len(q) : q[i].kind = "BA" /\ Piece(q, i) => Piece(t, i)
<1>1. /\ Len(q) \in Nat /\ Len(t) \in Nat /\ Len(q) <= Len(t)
      /\ DOMAIN q = 1 .. Len(q) /\ DOMAIN t = 1 .. Len(t)
      /\ \A i \in 1 .. Len(q) : i \in DOMAIN t /\ t[i] = q[i]
  BY DEF Extends
<1>2. \A i, j \in Int : Cleared(q, i, j) => Cleared(t, i, j)
  BY <1>1 DEF Cleared
<1>3. ASSUME NEW j \in 1 .. Len(q) + 1, NothingBefore(q, j)
      PROVE  NothingBefore(t, j)
  <2> SUFFICES ASSUME NEW i \in DOMAIN t, i < j, t[i].kind \in {"BA", "REP"}
               PROVE  Cleared(t, i, j)
    BY DEF NothingBefore
  <2>1. i \in DOMAIN q /\ q[i] = t[i]
    BY <1>1
  <2> QED
    BY <1>1, <1>2, <1>3, <2>1 DEF NothingBefore
<1>4. \A p \in Int : Covered(q, p) => Covered(t, p)
  BY <1>1 DEF Covered
<1>5. ASSUME NEW i \in 1 .. Len(q), Piece(q, i), q[i].kind = "BA"
      PROVE  Piece(t, i)
  <2>1. q[i] \in Reqs
    BY DEF Extends
  <2>2. Length(q[i].of) \in Nat
    BY <1>5, <2>1, ReqFacts, DescribedFacts
  <2>3. i + Length(q[i].of) <= Len(t)
    BY <1>1, <1>5, <2>2 DEF Piece
  <2>4. \A j \in 1 .. Length(q[i].of) : i + j \in 1 .. Len(q)
    BY <1>1, <1>5, <2>2 DEF Piece
  <2> QED
    BY <1>1, <1>5, <2>3, <2>4 DEF Piece
<1> QED
  BY <1>2, <1>3, <1>4, <1>5

\* Without its head everything in the queue is one position further ahead.
LEMMA TailFacts ==
  ASSUME NEW q, q \in Seq(Reqs), q # <<>>
  PROVE  /\ Len(q) \in Nat \ {0} /\ DOMAIN q = 1 .. Len(q)
         /\ Tail(q) \in Seq(Reqs) /\ Len(Tail(q)) = Len(q) - 1 /\ DOMAIN Tail(q) = 1 .. Len(q) - 1
         /\ \A i \in 1 .. Len(q) - 1 : Tail(q)[i] = q[i + 1]
         /\ Head(q) = q[1] /\ q[1] \in Reqs
OBVIOUS

\* What holds of a position behind the head holds of it when the head is taken.
LEMMA TailKeeps ==
  ASSUME NEW q, q \in Seq(Reqs), q # <<>>
  PROVE  /\ \A i \in Nat, j \in Int : i >= 1 /\ Cleared(q, i, j) => Cleared(Tail(q), i - 1, j - 1)
         /\ \A j \in Int : Cleared(q, 0, j) /\ q[1].kind # "CLEAR" => Cleared(Tail(q), 0, j - 1)
         /\ \A j \in Int : NothingBefore(q, j + 1) => NothingBefore(Tail(q), j)
         /\ \A p \in Nat : Covered(q, p + 1) =>
              \/ Covered(Tail(q), p)
              \/ q[1].kind = "BA" /\ p <= Length(q[1].of)
         /\ \A i \in 1 .. Len(q) - 1 : q[i + 1].kind = "BA" /\ Piece(q, i + 1) => Piece(Tail(q), i)
<1>1. /\ Len(q) \in Nat \ {0} /\ DOMAIN q = 1 .. Len(q)
      /\ Len(Tail(q)) = Len(q) - 1 /\ DOMAIN Tail(q) = 1 .. Len(q) - 1
      /\ \A i \in 1 .. Len(q) - 1 : Tail(q)[i] = q[i + 1]
  BY TailFacts
<1>2. \A k \in DOMAIN q : k # 1 => k - 1 \in DOMAIN Tail(q) /\ Tail(q)[k - 1] = q[k]
  <2> SUFFICES ASSUME NEW k \in DOMAIN q, k # 1
               PROVE  k - 1 \in DOMAIN Tail(q) /\ Tail(q)[k - 1] = q[k]
    OBVIOUS
  <2>1. k - 1 \in 1 .. Len(q) - 1 /\ (k - 1) + 1 = k
    BY <1>1
  <2> QED
    BY <1>1, <2>1
<1>3. ASSUME NEW i \in Nat, NEW j \in Int, i >= 1, Cleared(q, i, j)
      PROVE  Cleared(Tail(q), i - 1, j - 1)
  <2>1. PICK k \in DOMAIN q : i < k /\ k < j /\ q[k].kind = "CLEAR"
    BY <1>3 DEF Cleared
  <2>2. k \in Nat /\ k # 1
    BY <1>1, <1>3, <2>1
  <2>3. k - 1 \in DOMAIN Tail(q) /\ Tail(q)[k - 1] = q[k]
    BY <1>2, <2>2
  <2>4. i - 1 < k - 1 /\ k - 1 < j - 1
    BY <2>1, <2>2
  <2> QED
    BY <2>1, <2>3, <2>4 DEF Cleared
<1>4. ASSUME NEW j \in Int, Cleared(q, 0, j), q[1].kind # "CLEAR"
      PROVE  Cleared(Tail(q), 0, j - 1)
  <2>1. PICK k \in DOMAIN q : 0 < k /\ k < j /\ q[k].kind = "CLEAR"
    BY <1>4 DEF Cleared
  <2>2. k \in Nat /\ k # 1
    BY <1>1, <1>4, <2>1
  <2>3. k - 1 \in DOMAIN Tail(q) /\ Tail(q)[k - 1] = q[k]
    BY <1>2, <2>2
  <2>4. 0 < k - 1 /\ k - 1 < j - 1
    BY <2>1, <2>2
  <2> QED
    BY <2>1, <2>3, <2>4 DEF Cleared
<1>5. ASSUME NEW j \in Int, NothingBefore(q, j + 1)
      PROVE  NothingBefore(Tail(q), j)
  <2> SUFFICES ASSUME NEW i \in DOMAIN Tail(q), i < j, Tail(q)[i].kind \in {"BA", "REP"}
               PROVE  Cleared(Tail(q), i, j)
    BY DEF NothingBefore
  <2>1. i + 1 \in DOMAIN q /\ q[i + 1] = Tail(q)[i] /\ i + 1 < j + 1 /\ i \in Nat
    BY <1>1
  <2>2. Cleared(q, i + 1, j + 1)
    BY <1>5, <2>1 DEF NothingBefore
  <2>3. Cleared(Tail(q), (i + 1) - 1, (j + 1) - 1)
    BY <1>3, <2>1, <2>2
  <2>4. (i + 1) - 1 = i /\ (j + 1) - 1 = j
    BY <2>1
  <2> QED
    BY <2>3, <2>4
<1>6. ASSUME NEW p \in Nat, Covered(q, p + 1), ~Covered(Tail(q), p)
      PROVE  q[1].kind = "BA" /\ p <= Length(q[1].of)
  <2>1. PICK i \in DOMAIN q : q[i].kind = "BA" /\ i < p + 1 /\ p + 1 <= i + Length(q[i].of)
    BY <1>6 DEF Covered
  <2>2. Length(q[i].of) \in Nat /\ i \in Nat
    <3>1. q[i] \in Reqs
      OBVIOUS
    <3> QED
      BY <1>1, <2>1, <3>1, ReqFacts, DescribedFacts
  <2>3. CASE i = 1
    BY <2>1, <2>2, <2>3
  <2>4. CASE i # 1
    <3>1. i - 1 \in DOMAIN Tail(q) /\ Tail(q)[i - 1] = q[i]
      BY <1>2, <2>4
    <3>2. i - 1 < p /\ p <= (i - 1) + Length(q[i].of)
      BY <2>1, <2>2
    <3>3. Covered(Tail(q), p)
      BY <2>1, <3>1, <3>2 DEF Covered
    <3> QED
      BY <1>6, <3>3
  <2> QED
    BY <2>3, <2>4
<1>7. ASSUME NEW i \in 1 .. Len(q) - 1, q[i + 1].kind = "BA", Piece(q, i + 1)
      PROVE  Piece(Tail(q), i)
  <2> DEFINE m == q[i + 1].of
  <2>1. q[i + 1] \in Reqs /\ Tail(q)[i] = q[i + 1]
    BY <1>1
  <2>2. Length(m) \in Nat
    BY <1>7, <2>1, ReqFacts, DescribedFacts
  <2>3. (i + 1) + Length(m) <= Len(q) /\ \A j \in 1 .. Length(m) : q[(i + 1) + j] = Described(m)[j]
    BY <1>7 DEF Piece
  <2> HIDE DEF m
  <2>4. i + Length(m) <= Len(Tail(q))
    BY <1>1, <2>2, <2>3
  <2>5. ASSUME NEW j \in 1 .. Length(m)
        PROVE  Tail(q)[i + j] = Described(m)[j]
    <3>1. i + j \in 1 .. Len(q) - 1 /\ (i + j) + 1 = (i + 1) + j
      BY <1>1, <2>2, <2>3
    <3> QED
      BY <1>1, <2>3, <3>1
  <2> QED
    BY <2>1, <2>4, <2>5 DEF Piece, m
<1> QED
  BY <1>3, <1>4, <1>5, <1>6, <1>7

-----------------------------------------------------------------------------
(***************************************************************************)
(* The steps.                                                              *)
(***************************************************************************)
\* The steps that send add to the queue and leave the browser alone.
Sends == /\ Extends(queue', queue)
         /\ UNCHANGED <<base, streams, crashed, played>>

\* The steps of the browser take the head.
Takes == /\ queue # <<>> /\ queue' = Tail(queue) /\ ~crashed
         /\ UNCHANGED <<inFlight, asked, overtaken>>

\* An empty table is a table.
LEMMA EmptyTable ==
  ASSUME NEW h
  PROVE  Table(h, <<>>) /\ Known(<<>>) = {}
<1>1. Range(<<>>) = {} /\ DOMAIN <<>> = {}
  BY DEF Range
<1>2. <<>> \in Seq(Range(<<>>))
  OBVIOUS
<1> QED
  BY <1>1, <1>2 DEF Table, Known

\* A request without a file may be in the queue.
LEMMA AppendRequest ==
  ASSUME NEW q, q \in Seq(Reqs), NEW x, x \in Reqs
  PROVE  /\ Extends(Append(q, x), q) /\ Len(Append(q, x)) = Len(q) + 1
         /\ Append(q, x)[Len(q) + 1] = x
BY DEF Extends

\* The elements of a concatenation.
LEMMA ConcatAt ==
  ASSUME NEW s, s \in Seq(Reqs), NEW d, d \in Seq(Reqs)
  PROVE  /\ s \o d \in Seq(Reqs) /\ Len(s \o d) = Len(s) + Len(d)
         /\ \A i \in 1 .. Len(s) : (s \o d)[i] = s[i]
         /\ \A j \in 1 .. Len(d) : (s \o d)[Len(s) + j] = d[j]
OBVIOUS

\* What each step of the page does to the queue.
LEMMA PageSteps ==
  ASSUME Shape
  PROVE  /\ \A m \in Manifests : Ask(m) =>
              Sends /\ Len(queue') = Len(queue) + 1 /\ queue'[Len(queue) + 1].kind = "CLEAR"
         /\ AskToPlay =>
              Sends /\ Len(queue') = Len(queue) + 1 /\ queue'[Len(queue) + 1].kind = "PLAY"
         /\ AnswerFails => Sends /\ queue' = queue
         /\ Answer => \E r \in inFlight :
              /\ Sends /\ inFlight' = inFlight \ {r} /\ overtaken' = (overtaken \/ r[1] # asked)
              /\ r[2] \in Manifests
              /\ Len(queue') = Len(queue) + 1 + Length(r[2])
              /\ queue'[Len(queue) + 1].kind = "BA" /\ queue'[Len(queue) + 1].of = r[2]
              /\ \A j \in 1 .. Length(r[2]) :
                   /\ queue'[Len(queue) + 1 + j] = Described(r[2])[j]
                   /\ queue'[Len(queue) + 1 + j].kind = "REP"
<1>1. queue \in Seq(Reqs) /\ Len(queue) \in Nat
  BY DEF Shape
<1>2. \A k \in {"CLEAR", "PLAY"} : [kind |-> k] \in Reqs
  BY DEF Reqs
<1>3. ASSUME NEW m \in Manifests, Ask(m)
      PROVE  Sends /\ Len(queue') = Len(queue) + 1 /\ queue'[Len(queue) + 1].kind = "CLEAR"
  <2>1. queue' = Append(queue, [kind |-> "CLEAR"]) /\ [kind |-> "CLEAR"] \in Reqs
    BY <1>2, <1>3 DEF Ask
  <2>2. UNCHANGED <<base, streams, crashed, played>>
    BY <1>3 DEF Ask
  <2>3. [kind |-> "CLEAR"].kind = "CLEAR"
    OBVIOUS
  <2> QED
    BY <1>1, <2>1, <2>2, <2>3, AppendRequest DEF Sends
<1>4. ASSUME AskToPlay
      PROVE  Sends /\ Len(queue') = Len(queue) + 1 /\ queue'[Len(queue) + 1].kind = "PLAY"
  <2>1. queue' = Append(queue, [kind |-> "PLAY"]) /\ [kind |-> "PLAY"] \in Reqs
    BY <1>2, <1>4 DEF AskToPlay
  <2>2. UNCHANGED <<base, streams, crashed, played>>
    BY <1>4 DEF AskToPlay
  <2>3. [kind |-> "PLAY"].kind = "PLAY"
    OBVIOUS
  <2> QED
    BY <1>1, <2>1, <2>2, <2>3, AppendRequest DEF Sends
<1>5. ASSUME AnswerFails
      PROVE  Sends /\ queue' = queue
  BY <1>1, <1>5 DEF AnswerFails, Sends, Extends
<1>6. ASSUME Answer
      PROVE  \E r \in inFlight :
               /\ Sends /\ inFlight' = inFlight \ {r} /\ overtaken' = (overtaken \/ r[1] # asked)
               /\ r[2] \in Manifests
               /\ Len(queue') = Len(queue) + 1 + Length(r[2])
               /\ queue'[Len(queue) + 1].kind = "BA" /\ queue'[Len(queue) + 1].of = r[2]
               /\ \A j \in 1 .. Length(r[2]) :
                    /\ queue'[Len(queue) + 1 + j] = Described(r[2])[j]
                    /\ queue'[Len(queue) + 1 + j].kind = "REP"
  <2>1. PICK r \in inFlight :
          /\ inFlight' = inFlight \ {r}
          /\ queue' = queue \o <<[kind |-> "BA", of |-> r[2]]>> \o Described(r[2])
          /\ overtaken' = (overtaken \/ r[1] # asked)
    BY <1>6 DEF Answer
  <2> DEFINE m == r[2]
             ba == [kind |-> "BA", of |-> r[2]]
             s == Append(queue, ba)
             d == Described(m)
             n == Length(m)
  <2>2. m \in Manifests
    BY DEF Shape
  <2>3. ba \in Reqs /\ ba.kind = "BA" /\ ba.of = m
    BY <2>2 DEF Reqs
  <2> HIDE DEF ba, m
  <2>4. /\ d \in Seq(Reqs) /\ Len(d) = n /\ n \in Nat
        /\ \A j \in 1 .. n : d[j].kind = "REP"
    <3>1. Range(d) \subseteq Reqs
      BY <2>2 DEF Reqs
    <3>2. d \in Seq(Range(d))
      BY <2>2, DescribedFacts
    <3>3. d \in Seq(Reqs)
      <4> HIDE DEF d
      <4> QED
        BY <3>1, <3>2
    <3> QED
      BY <2>2, <3>3, DescribedFacts DEF Length
  <2> HIDE DEF d, n
  <2>5. s \in Seq(Reqs) /\ Len(s) = Len(queue) + 1 /\ s[Len(queue) + 1] = ba
        /\ \A i \in 1 .. Len(queue) : s[i] = queue[i]
    BY <1>1, <2>3
  <2>6. queue' = s \o d
    <3>1. queue \o <<ba>> = s
      BY <1>1, <2>3
    <3> QED
      BY <2>1, <3>1 DEF ba, m, d
  <2> HIDE DEF s
  <2>7. /\ queue' \in Seq(Reqs) /\ Len(queue') = Len(queue) + 1 + n
        /\ \A i \in 1 .. Len(queue) + 1 : queue'[i] = s[i]
        /\ \A j \in 1 .. n : queue'[Len(queue) + 1 + j] = d[j]
    <3>1. queue' \in Seq(Reqs) /\ Len(queue') = Len(s) + Len(d)
      BY <2>4, <2>5, <2>6, ConcatAt
    <3>2. \A i \in 1 .. Len(s) : queue'[i] = s[i]
      BY <2>4, <2>5, <2>6, ConcatAt
    <3>3. \A j \in 1 .. Len(d) : queue'[Len(s) + j] = d[j]
      BY <2>4, <2>5, <2>6, ConcatAt
    <3> QED
      BY <3>1, <3>2, <3>3, <2>4, <2>5
  <2>8. Extends(queue', queue) /\ queue'[Len(queue) + 1] = ba
    BY <1>1, <2>4, <2>5, <2>7 DEF Extends
  <2>9. UNCHANGED <<base, streams, crashed, played>>
    BY <1>6 DEF Answer
  <2>10. Sends
    BY <2>8, <2>9 DEF Sends
  <2> QED
    BY <2>1, <2>2, <2>3, <2>4, <2>7, <2>8, <2>10 DEF m, n, d
<1> QED
  BY <1>3, <1>4, <1>5, <1>6

\* What each step of the browser does to the queue and to the tables.
LEMMA BrowserSteps ==
  ASSUME Shape
  PROVE  /\ HandleClear => /\ Takes /\ queue[1].kind = "CLEAR" /\ base' = NaN /\ played' = played
                           /\ DOMAIN streams' = Handlers
                           /\ \A h \in Handlers : streams'[h] = <<>>
         /\ HandleBase => /\ Takes /\ queue[1].kind = "BA" /\ base' = queue[1].of /\ played' = played
                          /\ DOMAIN streams' = Handlers
                          /\ streams'["V"] = streams["V"]
                          /\ streams'["A"] = GetStream(streams["A"], 0)
         /\ HandlePlay => /\ Takes /\ queue[1].kind = "PLAY" /\ base' = base
                          /\ DOMAIN streams' = Handlers
                          /\ \A h \in Handlers :
                               streams'[h] = GetStream(streams[h], GetBestStream(streams[h]))
         /\ HandleRep =>
              /\ Takes /\ queue[1].kind = "REP" /\ base' = base /\ played' = played
              /\ \/ crashed' /\ streams' = streams
                    /\ (queue[1].prefix = NaN \/ queue[1].numbers.duration = NaN)
                 \/ LET q == queue[1]
                        g == GetStream(streams[q.prefix], q.idx)
                        d == [i \in DOMAIN g |-> IF g[i].idx = q.idx THEN StreamOf(q) ELSE g[i]]
                    IN /\ crashed' = crashed
                       /\ q.prefix # NaN /\ q.numbers.duration # NaN
                       /\ streams' = [streams EXCEPT ![q.prefix] = d]
<1>1. DOMAIN streams = Handlers /\ Handlers = {"V", "A"}
  BY DEF Shape, Handlers
<1>2. queue # <<>> => Head(queue) = queue[1]
  BY TailFacts DEF Shape
<1>3. \A k : Took(k) => Takes /\ queue[1].kind = k
  BY <1>2 DEF Took, Takes
<1>4. ASSUME HandleClear
      PROVE  /\ Takes /\ queue[1].kind = "CLEAR" /\ base' = NaN /\ played' = played
             /\ DOMAIN streams' = Handlers
             /\ \A h \in Handlers : streams'[h] = <<>>
  <2>1. Takes /\ queue[1].kind = "CLEAR"
    BY <1>3, <1>4 DEF HandleClear
  <2> QED
    BY <2>1, <1>4 DEF HandleClear
<1>5. ASSUME HandleBase
      PROVE  /\ Takes /\ queue[1].kind = "BA" /\ base' = queue[1].of /\ played' = played
             /\ DOMAIN streams' = Handlers
             /\ streams'["V"] = streams["V"]
             /\ streams'["A"] = GetStream(streams["A"], 0)
  <2>1. Takes /\ queue[1].kind = "BA"
    BY <1>3, <1>5 DEF HandleBase
  <2>2. base' = queue[1].of /\ played' = played
    BY <2>1, <1>2, <1>5 DEF HandleBase, Takes
  <2>3. streams' = [streams EXCEPT !["A"] = GetStream(streams["A"], 0)]
    BY <1>5 DEF HandleBase
  <2>4. DOMAIN streams' = Handlers /\ streams'["V"] = streams["V"]
    BY <1>1, <2>3
  <2>5. streams'["A"] = GetStream(streams["A"], 0)
    BY <1>1, <2>3
  <2> QED
    BY <2>1, <2>2, <2>4, <2>5
<1>6. ASSUME HandlePlay
      PROVE  /\ Takes /\ queue[1].kind = "PLAY" /\ base' = base
             /\ DOMAIN streams' = Handlers
             /\ \A h \in Handlers : streams'[h] = GetStream(streams[h], GetBestStream(streams[h]))
  <2>1. Takes /\ queue[1].kind = "PLAY"
    BY <1>3, <1>6 DEF HandlePlay
  <2> QED
    BY <2>1, <1>6 DEF HandlePlay
<1>7. ASSUME HandleRep
      PROVE  /\ Takes /\ queue[1].kind = "REP" /\ base' = base /\ played' = played
             /\ \/ crashed' /\ streams' = streams
                   /\ (queue[1].prefix = NaN \/ queue[1].numbers.duration = NaN)
                \/ LET q == queue[1]
                       g == GetStream(streams[q.prefix], q.idx)
                       d == [i \in DOMAIN g |-> IF g[i].idx = q.idx THEN StreamOf(q) ELSE g[i]]
                   IN /\ crashed' = crashed
                      /\ q.prefix # NaN /\ q.numbers.duration # NaN
                      /\ streams' = [streams EXCEPT ![q.prefix] = d]
  <2>1. Takes /\ queue[1].kind = "REP"
    BY <1>3, <1>7 DEF HandleRep
  <2>2. Head(queue) = queue[1]
    BY <2>1, <1>2 DEF Takes
  <2> QED
    BY <2>1, <2>2, <1>7 DEF HandleRep
<1> QED
  BY <1>4, <1>5, <1>6, <1>7

\* A representation goes to one of the two tables.
LEMMA PrefixFacts ==
  ASSUME NEW q, q \in Reqs, q.kind = "REP", q.prefix # NaN
  PROVE  q.prefix \in Handlers /\ q.of \in Manifests /\ q \in Range(Described(q.of))
<1>1. q.of \in Manifests /\ q \in Range(Described(q.of))
  BY ReqFacts
<1>2. PICK j \in 1 .. Length(q.of) : q = Described(q.of)[j]
  BY <1>1, DescribedFacts DEF Range
<1>3. PICK set : q.prefix = getPrefixForMimeType(q.rep, set)
  BY <1>1, <1>2, DescribedFacts DEF OfSet
<1>4. q.prefix \in {"V", "A"}
  BY <1>3 DEF getPrefixForMimeType
<1> QED
  BY <1>1, <1>4 DEF Handlers

\* The table that takes a representation.
LEMMA RepTables ==
  ASSUME Shape, HandleRep, ~crashed'
  PROVE  LET q == queue[1] IN
         /\ q \in Reqs /\ q.prefix \in Handlers /\ q.of \in Manifests /\ q.numbers.duration # NaN
         /\ DOMAIN streams' = Handlers
         /\ \A h \in Handlers : h # q.prefix => streams'[h] = streams[h]
         /\ Table(q.prefix, streams'[q.prefix])
         /\ Known(streams'[q.prefix]) \subseteq Known(streams[q.prefix]) \cup {StreamOf(q)}
         /\ StreamOf(q) \in Range(streams'[q.prefix])
         /\ \A s \in Range(streams[q.prefix]) : s.idx # q.idx => s \in Range(streams'[q.prefix])
<1> DEFINE q == queue[1]
           t == streams[q.prefix]
           g == GetStream(t, q.idx)
           d == [i \in DOMAIN g |-> IF g[i].idx = q.idx THEN StreamOf(q) ELSE g[i]]
<1>1. /\ Takes /\ q.kind = "REP" /\ q.prefix # NaN /\ q.numbers.duration # NaN
      /\ streams' = [streams EXCEPT ![q.prefix] = d]
  BY BrowserSteps
<1>2. q \in Reqs
  BY <1>1, TailFacts DEF Takes, Shape
<1>3. q.prefix \in Handlers /\ q.of \in Manifests /\ q \in Range(Described(q.of))
  BY <1>1, <1>2, PrefixFacts
<1>4. DOMAIN streams = Handlers /\ Table(q.prefix, t)
  BY <1>3 DEF Shape
<1>5. streams'[q.prefix] = d /\ DOMAIN streams' = Handlers
      /\ \A h \in Handlers : h # q.prefix => streams'[h] = streams[h]
  <2> HIDE DEF q, d
  <2> QED
    BY <1>1, <1>3, <1>4
<1> HIDE DEF q, t
<1>6. /\ Table(q.prefix, g) /\ Known(g) = Known(t) /\ Range(t) \subseteq Range(g)
      /\ \E i \in DOMAIN g : g[i].idx = q.idx
  BY <1>4, GetStreamFacts
<1> HIDE DEF g
<1>7. /\ Table(q.prefix, d) /\ StreamOf(q) \in Range(d)
      /\ Range(d) \subseteq Range(g) \cup {StreamOf(q)}
      /\ \A s \in Range(g) : s.idx # q.idx => s \in Range(d)
  BY <1>1, <1>3, <1>6, DescribeFacts
<1> HIDE DEF d
<1>8. Known(d) \subseteq Known(t) \cup {StreamOf(q)}
  BY <1>6, <1>7 DEF Known
<1> QED
  BY <1>1, <1>2, <1>3, <1>5, <1>6, <1>7, <1>8 DEF q, t

\* Every step sends, or takes, or leaves everything as it is.
LEMMA StepKinds ==
  ASSUME Shape, [Next]_vars
  PROVE  \/ Sends /\ (overtaken => overtaken')
         \/ Takes /\ (HandleClear \/ HandleBase \/ HandleRep \/ HandlePlay)
         \/ UNCHANGED vars
<1>1. CASE \E m \in Manifests : Ask(m)
  BY <1>1, PageSteps DEF Ask
<1>2. CASE Answer
  BY <1>2, PageSteps
<1>3. CASE AnswerFails
  BY <1>3, PageSteps DEF AnswerFails
<1>4. CASE AskToPlay
  BY <1>4, PageSteps DEF AskToPlay
<1>5. CASE Browser
  BY <1>5, BrowserSteps DEF Browser
<1> QED
  BY <1>1, <1>2, <1>3, <1>4, <1>5 DEF Next, Page

\* What a step of the browser leaves of the queue.
LEMMA TakesFacts ==
  ASSUME Shape, Takes
  PROVE  /\ queue \in Seq(Reqs) /\ queue # <<>> /\ queue[1] \in Reqs /\ 1 \in DOMAIN queue
         /\ Len(queue) \in Nat \ {0} /\ DOMAIN queue = 1 .. Len(queue)
         /\ queue' = Tail(queue) /\ queue' \in Seq(Reqs)
         /\ Len(queue') = Len(queue) - 1 /\ DOMAIN queue' = 1 .. Len(queue) - 1
         /\ \A i \in 1 .. Len(queue) - 1 : queue'[i] = queue[i + 1]
BY TailFacts DEF Shape, Takes

\* The tables stay tables; only a representation adds a stream that is known.
LEMMA TableSteps ==
  ASSUME Shape, HandleClear \/ HandleBase \/ HandlePlay
  PROVE  /\ DOMAIN streams' = Handlers
         /\ \A h \in Handlers : Table(h, streams'[h])
         /\ HandleClear => \A h \in Handlers : Known(streams'[h]) = {}
         /\ ~HandleClear => \A h \in Handlers : /\ Known(streams'[h]) = Known(streams[h])
                                               /\ Range(streams[h]) \subseteq Range(streams'[h])
<1>1. \A h \in Handlers : Table(h, streams[h])
  BY DEF Shape
<1>2. CASE HandleClear
  <2>1. DOMAIN streams' = Handlers /\ \A h \in Handlers : streams'[h] = <<>>
    BY <1>2, BrowserSteps
  <2> QED
    BY <1>2, <2>1, EmptyTable
<1>3. CASE HandleBase
  <2>1. /\ DOMAIN streams' = Handlers /\ streams'["V"] = streams["V"]
        /\ streams'["A"] = GetStream(streams["A"], 0) /\ queue[1].kind = "BA"
    BY <1>3, BrowserSteps
  <2>2. ~HandleClear
    BY <2>1, BrowserSteps
  <2> QED
    BY <1>1, <2>1, <2>2, GetStreamFacts DEF Handlers
<1>4. CASE HandlePlay
  <2>1. /\ DOMAIN streams' = Handlers /\ queue[1].kind = "PLAY"
        /\ \A h \in Handlers : streams'[h] = GetStream(streams[h], GetBestStream(streams[h]))
    BY <1>4, BrowserSteps
  <2>2. ~HandleClear
    BY <2>1, BrowserSteps
  <2> QED
    BY <1>1, <2>1, <2>2, GetStreamFacts
<1> QED
  BY <1>2, <1>3, <1>4

\* Shape is inductive.
LEMMA ShapeStep ==
  ASSUME Shape, [Next]_vars
  PROVE  Shape'
<1>1. \A r \in inFlight : r \in (1 .. asked) \X Manifests
  BY DEF Shape
<1>2. ASSUME NEW m \in Manifests, Ask(m)
      PROVE  Shape'
  <2>1. Sends
    BY <1>2, PageSteps
  <2>2. inFlight' = inFlight \cup {<<asked + 1, m>>} /\ asked' = asked + 1
    BY <1>2 DEF Ask
  <2>3. asked' \in Nat /\ inFlight' \subseteq (1 .. asked') \X Manifests
    BY <1>1, <2>2 DEF Shape
  <2> QED
    BY <2>1, <2>3 DEF Shape, Sends, Extends
<1>3. CASE Answer \/ AnswerFails
  <2>1. Sends
    BY <1>3, PageSteps
  <2>2. inFlight' \subseteq inFlight /\ asked' = asked
    BY <1>3 DEF Answer, AnswerFails
  <2> QED
    BY <2>1, <2>2 DEF Shape, Sends, Extends
<1>4. CASE AskToPlay
  <2>1. Sends
    BY <1>4, PageSteps
  <2> QED
    BY <1>4, <2>1 DEF Shape, Sends, Extends, AskToPlay
<1>5. CASE Browser
  <2>1. Takes
    BY <1>5, BrowserSteps DEF Browser
  <2>2. queue' \in Seq(Reqs) /\ asked' = asked /\ inFlight' = inFlight /\ queue[1] \in Reqs
    BY <2>1, TakesFacts DEF Takes
  <2>3. base' \in Manifests \cup {NaN}
    <3>1. HandleBase => base' \in Manifests
      BY <2>2, BrowserSteps, ReqFacts
    <3> QED
      BY <1>5, <3>1, BrowserSteps DEF Browser, Shape
  <2>4. DOMAIN streams' = Handlers /\ \A h \in Handlers : Table(h, streams'[h])
    <3>1. CASE HandleRep /\ streams' = streams
      BY <3>1 DEF Shape
    <3>2. CASE HandleRep /\ ~crashed'
      <4>1. \A h \in Handlers : Table(h, streams[h])
        BY DEF Shape
      <4> QED
        BY <3>2, <4>1, RepTables
    <3>3. HandleRep => streams' = streams \/ ~crashed'
      BY <2>1, BrowserSteps DEF Takes
    <3> QED
      BY <1>5, <3>1, <3>2, <3>3, TableSteps DEF Browser
  <2> QED
    BY <2>2, <2>3, <2>4 DEF Shape
<1>6. CASE UNCHANGED vars
  BY <1>6 DEF Shape, vars
<1> QED
  BY <1>2, <1>3, <1>4, <1>5, <1>6 DEF Next, Page

\* What describes a file stays in one piece.
LEMMA PieceStep ==
  ASSUME Shape, InOnePiece, [Next]_vars
  PROVE  InOnePiece'
<1>1. CASE Sends /\ ~Answer
  <2> SUFFICES ASSUME NEW i \in DOMAIN queue', queue'[i].kind = "BA"
               PROVE  Piece(queue', i)
    BY DEF InOnePiece
  <2>1. Extends(queue', queue) /\ DOMAIN queue = 1 .. Len(queue) /\ Len(queue) \in Nat
        /\ DOMAIN queue' = 1 .. Len(queue')
    BY <1>1 DEF Sends, Extends
  <2>2. i \in 1 .. Len(queue)
    <3>1. \/ queue' = queue
          \/ Len(queue') = Len(queue) + 1 /\ queue'[Len(queue) + 1].kind # "BA"
      <4>1. CASE UNCHANGED vars
        BY <4>1 DEF vars
      <4>2. CASE Next
        <5>1. Sends /\ Browser => FALSE
          <6>1. Browser => Takes
            BY BrowserSteps DEF Browser
          <6>2. Takes => Len(queue') < Len(queue)
            BY TakesFacts
          <6>3. Sends => Len(queue) <= Len(queue') /\ Len(queue) \in Nat /\ Len(queue') \in Nat
            BY DEF Sends, Extends
          <6> QED
            BY <6>1, <6>2, <6>3
        <5> QED
          BY <1>1, <4>2, <5>1, PageSteps DEF Next, Page
      <4> QED
        BY <4>1, <4>2
    <3>2. CASE queue' = queue
      BY <2>1, <3>2
    <3>3. CASE Len(queue') = Len(queue) + 1 /\ queue'[Len(queue) + 1].kind # "BA"
      <4>1. i # Len(queue) + 1 /\ i \in 1 .. Len(queue) + 1
        BY <2>1, <3>3
      <4> QED
        BY <2>1, <4>1
    <3> QED
      BY <3>1, <3>2, <3>3
  <2>3. queue[i] = queue'[i] /\ Piece(queue, i)
    BY <2>1, <2>2 DEF Extends, InOnePiece
  <2> QED
    BY <2>1, <2>2, <2>3, ExtendsKeeps
<1>2. CASE Answer
  <2>1. PICK r \in inFlight :
          /\ Sends /\ r[2] \in Manifests
          /\ Len(queue') = Len(queue) + 1 + Length(r[2])
          /\ queue'[Len(queue) + 1].kind = "BA" /\ queue'[Len(queue) + 1].of = r[2]
          /\ \A j \in 1 .. Length(r[2]) :
               /\ queue'[Len(queue) + 1 + j] = Described(r[2])[j]
               /\ queue'[Len(queue) + 1 + j].kind = "REP"
    BY <1>2, PageSteps
  <2>2. Extends(queue', queue) /\ DOMAIN queue = 1 .. Len(queue) /\ Len(queue) \in Nat
        /\ DOMAIN queue' = 1 .. Len(queue') /\ Length(r[2]) \in Nat
    BY <2>1, DescribedFacts DEF Sends, Extends
  <2>3. Piece(queue', Len(queue) + 1)
    <3>1. (Len(queue) + 1) + Length(queue'[Len(queue) + 1].of) <= Len(queue')
      BY <2>1, <2>2
    <3>2. \A j \in 1 .. Length(queue'[Len(queue) + 1].of) :
            queue'[(Len(queue) + 1) + j] = Described(queue'[Len(queue) + 1].of)[j]
      BY <2>1, <2>2
    <3> QED
      BY <3>1, <3>2 DEF Piece
  <2> SUFFICES ASSUME NEW i \in DOMAIN queue', queue'[i].kind = "BA"
               PROVE  Piece(queue', i)
    BY DEF InOnePiece
  <2>4. CASE i \in 1 .. Len(queue)
    <3>1. queue[i] = queue'[i] /\ Piece(queue, i)
      BY <2>2, <2>4 DEF Extends, InOnePiece
    <3> QED
      BY <2>2, <2>4, <3>1, ExtendsKeeps
  <2>5. CASE i = Len(queue) + 1
    BY <2>3, <2>5
  <2>6. CASE i > Len(queue) + 1
    <3>1. i - (Len(queue) + 1) \in 1 .. Length(r[2]) /\ Len(queue) + 1 + (i - (Len(queue) + 1)) = i
      BY <2>1, <2>2, <2>6
    <3>2. queue'[i].kind = "REP"
      BY <2>1, <3>1
    <3> QED
      BY <3>2
  <2> QED
    BY <2>2, <2>4, <2>5, <2>6
<1>3. CASE Takes
  <2> SUFFICES ASSUME NEW i \in DOMAIN queue', queue'[i].kind = "BA"
               PROVE  Piece(queue', i)
    BY DEF InOnePiece
  <2>1. i \in 1 .. Len(queue) - 1 /\ queue[i + 1] = queue'[i] /\ i + 1 \in DOMAIN queue
    BY <1>3, TakesFacts
  <2>2. Piece(queue, i + 1)
    BY <2>1 DEF InOnePiece
  <2> QED
    BY <1>3, <2>1, <2>2, TailKeeps, TakesFacts
<1>4. CASE UNCHANGED vars
  BY <1>4 DEF vars, InOnePiece
<1> QED
  BY <1>1, <1>2, <1>3, <1>4, StepKinds

\* A place that is clean stays clean when more is sent.
LEMMA CleanSend ==
  ASSUME Sends, NEW j \in 1 .. Len(queue) + 1, Clean(queue, streams, j)
  PROVE  Clean(queue', streams', j)
<1>1. Extends(queue', queue) /\ streams' = streams /\ j \in Int
  BY DEF Sends, Extends
<1>2. NothingBefore(queue', j) /\ (Cleared(queue, 0, j) => Cleared(queue', 0, j))
  BY <1>1, ExtendsKeeps DEF Clean
<1> QED
  BY <1>1, <1>2 DEF Clean

\* A place that is clean stays clean while the browser works: the tables are
\* filled only if a CLEAR is still to come.
LEMMA CleanTake ==
  ASSUME Shape, Takes, HandleClear \/ HandleBase \/ HandleRep \/ HandlePlay,
         NEW j \in 1 .. Len(queue), Clean(queue, streams, j + 1)
  PROVE  Clean(queue', streams', j)
<1>1. /\ queue \in Seq(Reqs) /\ queue # <<>> /\ queue' = Tail(queue) /\ 1 \in DOMAIN queue
      /\ j \in Int /\ (j + 1) - 1 = j /\ 1 < j + 1
  BY TakesFacts
<1>2. NothingBefore(queue, j + 1) /\ (Cleared(queue, 0, j + 1) \/ \A h \in Handlers : Known(streams[h]) = {})
  BY DEF Clean
<1>3. NothingBefore(queue', j)
  BY <1>1, <1>2, TailKeeps
<1>4. CASE queue[1].kind \in {"BA", "REP"}
  <2>1. Cleared(queue, 1, j + 1)
    BY <1>1, <1>2, <1>4 DEF NothingBefore
  <2>2. Cleared(queue', 1 - 1, (j + 1) - 1)
    BY <1>1, <2>1, TailKeeps
  <2> QED
    BY <1>1, <1>3, <2>2 DEF Clean
<1>5. CASE HandleClear
  <2>1. \A h \in Handlers : Known(streams'[h]) = {}
    BY <1>5, TableSteps
  <2> QED
    BY <1>3, <2>1 DEF Clean
<1>6. CASE HandlePlay
  <2>1. queue[1].kind = "PLAY" /\ ~HandleClear
    BY <1>6, BrowserSteps
  <2>2. \A h \in Handlers : Known(streams'[h]) = Known(streams[h])
    BY <1>6, <2>1, TableSteps
  <2>3. Cleared(queue, 0, j + 1) => Cleared(queue', 0, j)
    BY <1>1, <2>1, TailKeeps
  <2> QED
    BY <1>2, <1>3, <2>2, <2>3 DEF Clean
<1> QED
  BY <1>4, <1>5, <1>6, BrowserSteps

\* Apart and Fresh, until an answer is overtaken.
LEMMA ApartStep ==
  ASSUME Shape, Apart, Fresh, [Next]_vars, ~overtaken'
  PROVE  Apart' /\ Fresh'
<1>1. queue \in Seq(Reqs) /\ Len(queue) \in Nat /\ DOMAIN queue = 1 .. Len(queue)
  BY DEF Shape
<1>2. ASSUME Sends
      PROVE  /\ DOMAIN queue' = 1 .. Len(queue') /\ Len(queue') \in Nat /\ Len(queue) <= Len(queue')
             /\ \A j \in 1 .. Len(queue) : queue'[j].kind = "BA" => Clean(queue', streams', j)
  <2>1. Extends(queue', queue)
    BY <1>2 DEF Sends
  <2>2. \A j \in 1 .. Len(queue) : queue'[j] = queue[j] /\ j \in 1 .. Len(queue) + 1
    BY <1>1, <2>1 DEF Extends
  <2> QED
    BY <1>1, <1>2, <2>1, <2>2, CleanSend DEF Apart, Extends
<1>3. ASSUME NEW m \in Manifests, Ask(m)
      PROVE  Apart' /\ Fresh'
  <2>1. Sends /\ Len(queue') = Len(queue) + 1 /\ queue'[Len(queue) + 1].kind = "CLEAR"
    BY <1>3, PageSteps
  <2>2. Apart'
    BY <1>1, <1>2, <2>1 DEF Apart
  <2>3. inFlight' = inFlight \cup {<<asked + 1, m>>} /\ asked' = asked + 1
    BY <1>3 DEF Ask
  <2>4. \A r \in inFlight : r[1] \in 1 .. asked /\ asked \in Nat
    BY DEF Shape
  <2>5. \A r, s \in inFlight' : r[1] = s[1] => r = s
    BY <2>3, <2>4 DEF Fresh
  <2>6. Clean(queue', streams', Len(queue) + 2)
    <3>1. \A i \in Int : i < Len(queue) + 1 => Cleared(queue', i, Len(queue) + 2)
      BY <1>1, <1>2, <2>1 DEF Cleared
    <3>2. NothingBefore(queue', Len(queue) + 2)
      <4> SUFFICES ASSUME NEW i \in DOMAIN queue', i < Len(queue) + 2, queue'[i].kind \in {"BA", "REP"}
                   PROVE  Cleared(queue', i, Len(queue) + 2)
        BY DEF NothingBefore
      <4>1. i # Len(queue) + 1 /\ i \in 1 .. Len(queue) + 1
        BY <1>2, <2>1
      <4> QED
        BY <1>1, <3>1, <4>1
    <3>3. Cleared(queue', 0, Len(queue) + 2)
      BY <1>1, <3>1
    <3> QED
      BY <3>2, <3>3 DEF Clean
  <2>7. Len(queue') + 1 = Len(queue) + 2
    BY <1>1, <2>1
  <2> QED
    BY <2>2, <2>5, <2>6, <2>7 DEF Fresh
<1>4. CASE AskToPlay
  <2>1. Sends /\ Len(queue') = Len(queue) + 1 /\ queue'[Len(queue) + 1].kind = "PLAY"
    BY <1>4, PageSteps
  <2>2. Apart'
    BY <1>1, <1>2, <2>1 DEF Apart
  <2>3. inFlight' = inFlight /\ asked' = asked
    BY <1>4 DEF AskToPlay
  <2>4. ASSUME Clean(queue, streams, Len(queue) + 1)
        PROVE  Clean(queue', streams', Len(queue) + 2)
    <3>1. Clean(queue', streams', Len(queue) + 1)
      BY <1>1, <2>1, <2>4, CleanSend
    <3>2. NothingBefore(queue', Len(queue) + 1) /\ (Cleared(queue', 0, Len(queue) + 1) \/ \A h \in Handlers : Known(streams'[h]) = {})
      BY <3>1 DEF Clean
    <3>3. \A i \in Int : Cleared(queue', i, Len(queue) + 1) => Cleared(queue', i, Len(queue) + 2)
      BY <1>1, <1>2, <2>1 DEF Cleared
    <3>4. NothingBefore(queue', Len(queue) + 2)
      <4> SUFFICES ASSUME NEW i \in DOMAIN queue', i < Len(queue) + 2, queue'[i].kind \in {"BA", "REP"}
                   PROVE  Cleared(queue', i, Len(queue) + 2)
        BY DEF NothingBefore
      <4>1. i # Len(queue) + 1
        BY <2>1
      <4>2. i \in Int /\ i < Len(queue) + 1
        BY <1>1, <1>2, <2>1, <4>1
      <4> QED
        BY <3>2, <3>3, <4>2 DEF NothingBefore
    <3> QED
      BY <3>2, <3>3, <3>4 DEF Clean
  <2>5. Len(queue') + 1 = Len(queue) + 2
    BY <1>1, <2>1
  <2> QED
    BY <2>2, <2>3, <2>4, <2>5 DEF Fresh
<1>5. CASE AnswerFails
  <2>1. Sends /\ queue' = queue /\ inFlight' \subseteq inFlight /\ asked' = asked
    BY <1>5, PageSteps DEF AnswerFails
  <2>2. Apart'
    BY <1>1, <1>2, <2>1 DEF Apart
  <2>3. Clean(queue, streams, Len(queue) + 1) => Clean(queue', streams', Len(queue) + 1)
    BY <1>1, <2>1, CleanSend
  <2> QED
    BY <2>1, <2>2, <2>3 DEF Fresh
<1>6. CASE Answer
  <2>1. PICK r \in inFlight :
          /\ Sends /\ inFlight' = inFlight \ {r} /\ overtaken' = (overtaken \/ r[1] # asked)
          /\ r[2] \in Manifests
          /\ Len(queue') = Len(queue) + 1 + Length(r[2])
          /\ \A j \in 1 .. Length(r[2]) : queue'[Len(queue) + 1 + j].kind = "REP"
    BY <1>6, PageSteps
  <2>2. r[1] = asked
    BY <2>1
  <2>3. Clean(queue, streams, Len(queue) + 1)
    BY <2>2 DEF Fresh
  <2>4. Clean(queue', streams', Len(queue) + 1)
    BY <1>1, <2>1, <2>3, CleanSend
  <2>5. Length(r[2]) \in Nat
    BY <2>1, DescribedFacts
  <2>6. ASSUME NEW j \in DOMAIN queue', queue'[j].kind = "BA"
        PROVE  Clean(queue', streams', j)
    <3>1. CASE j \in 1 .. Len(queue)
      BY <1>2, <2>1, <2>6, <3>1
    <3>2. CASE j = Len(queue) + 1
      BY <2>4, <3>2
    <3>3. CASE j > Len(queue) + 1
      <4>1. j - (Len(queue) + 1) \in 1 .. Length(r[2]) /\ Len(queue) + 1 + (j - (Len(queue) + 1)) = j
        BY <1>1, <1>2, <2>1, <2>5, <3>3
      <4>2. queue'[j].kind = "REP"
        BY <2>1, <4>1
      <4> QED
        BY <2>6, <4>2
    <3> QED
      BY <1>1, <1>2, <2>1, <3>1, <3>2, <3>3
  <2>7. \A s \in inFlight' : s[1] # asked
    BY <2>1, <2>2 DEF Fresh
  <2>8. asked' = asked /\ \A s, t \in inFlight' : s[1] = t[1] => s = t
    BY <1>6, <2>1 DEF Answer, Fresh
  <2> QED
    BY <2>6, <2>7, <2>8 DEF Apart, Fresh
<1>7. CASE Browser
  <2>1. Takes /\ (HandleClear \/ HandleBase \/ HandleRep \/ HandlePlay)
    BY <1>7, BrowserSteps DEF Browser
  <2>2. \A j \in 1 .. Len(queue) : Clean(queue, streams, j + 1) => Clean(queue', streams', j)
    BY <2>1, CleanTake
  <2>3. /\ Len(queue) \in Nat \ {0} /\ Len(queue') = Len(queue) - 1 /\ DOMAIN queue' = 1 .. Len(queue) - 1
        /\ \A i \in 1 .. Len(queue) - 1 : queue'[i] = queue[i + 1]
    BY <2>1, TakesFacts
  <2>4. Apart'
    <3> SUFFICES ASSUME NEW j \in DOMAIN queue', queue'[j].kind = "BA"
                 PROVE  Clean(queue', streams', j)
      BY DEF Apart
    <3>1. j + 1 \in DOMAIN queue /\ queue[j + 1].kind = "BA" /\ j \in 1 .. Len(queue)
      BY <1>1, <2>3
    <3> QED
      BY <2>2, <3>1 DEF Apart
  <2>5. Clean(queue, streams, Len(queue) + 1) => Clean(queue', streams', Len(queue') + 1)
    <3>1. Len(queue) \in 1 .. Len(queue) /\ Len(queue') + 1 = Len(queue)
      BY <2>3
    <3> QED
      BY <2>2, <3>1
  <2>6. inFlight' = inFlight /\ asked' = asked
    BY <2>1 DEF Takes
  <2> QED
    BY <2>4, <2>5, <2>6 DEF Fresh
<1>8. CASE UNCHANGED vars
  BY <1>8 DEF vars, Apart, Fresh
<1> QED
  BY <1>3, <1>4, <1>5, <1>6, <1>7, <1>8 DEF Next, Page

\* A representation at the head is the first of what is left of the file of
\* baseUrl; nothing else can be at the head while something is left.
LEMMA HeadFacts ==
  ASSUME Shape, Takes, NEW r \in 0 .. Len(queue), Left(queue, base, streams, crashed, r)
  PROVE  /\ queue[1].kind # "REP" => r = 0
         /\ queue[1].kind = "REP" => /\ r >= 1 /\ base \in Manifests /\ r <= Length(base)
                                     /\ queue[1] = Described(base)[Length(base) - r + 1]
                                     /\ queue[1].of = base /\ queue[1].idx = Length(base) - r
<1>1. 1 \in DOMAIN queue /\ DOMAIN queue = 1 .. Len(queue) /\ Len(queue) \in Nat
  BY TakesFacts
<1>2. base # NaN => base \in Manifests /\ Length(base) \in Nat
  BY DescribedFacts DEF Shape
<1>3. ASSUME r >= 1
      PROVE  /\ base \in Manifests /\ r <= Length(base)
             /\ queue[1] = Described(base)[Length(base) - r + 1]
             /\ queue[1].kind = "REP" /\ queue[1].of = base /\ queue[1].idx = Length(base) - r
  <2>1. base \in Manifests /\ r <= Length(base) /\ Length(base) \in Nat
    BY <1>2, <1>3 DEF Left
  <2>2. queue[1] = Described(base)[Length(base) - r + 1]
    <3>1. 1 \in 1 .. r
      BY <1>3
    <3> QED
      BY <2>1, <3>1, NaNAssumption DEF Left
  <2>3. Length(base) - r + 1 \in 1 .. Length(base) /\ (Length(base) - r + 1) - 1 = Length(base) - r
    BY <1>3, <2>1
  <2> QED
    BY <2>1, <2>2, <2>3, DescribedFacts
<1>4. ASSUME queue[1].kind = "REP"
      PROVE  r >= 1
  <2>1. ~Covered(queue, 1)
    BY <1>1 DEF Covered
  <2> QED
    BY <1>1, <1>4, <2>1 DEF Left
<1> QED
  BY <1>3, <1>4

\* What is in a table stays there when the streams that are known stay.
LEMMA InTableKeeps ==
  ASSUME \A h \in Handlers : Range(streams[h]) \subseteq Range(streams'[h]), NEW q, InTable(streams, q)
  PROVE  InTable(streams', q)
BY DEF InTable

\* Rest: what is left of a file is sent in one piece and leaves the queue in order.
LEMMA RestStep ==
  ASSUME Shape, InOnePiece, Rest, [Next]_vars, ~overtaken'
  PROVE  Rest'
<1>1. PICK r \in 0 .. Len(queue) : Left(queue, base, streams, crashed, r)
  BY DEF Rest
<1>2. queue \in Seq(Reqs) /\ Len(queue) \in Nat /\ DOMAIN queue = 1 .. Len(queue)
  BY DEF Shape
<1>3. base # NaN => base \in Manifests /\ Length(base) \in Nat
  BY DescribedFacts DEF Shape
<1>4. ASSUME Sends, \A p \in DOMAIN queue' : p > Len(queue) /\ queue'[p].kind = "REP" => Covered(queue', p)
      PROVE  Rest'
  <2>1. /\ Extends(queue', queue) /\ base' = base /\ streams' = streams /\ crashed' = crashed
        /\ DOMAIN queue' = 1 .. Len(queue') /\ Len(queue') \in Nat /\ Len(queue) <= Len(queue')
        /\ \A i \in 1 .. Len(queue) : queue'[i] = queue[i]
    BY <1>4 DEF Sends, Extends
  <2>2. r \in 0 .. Len(queue')
    BY <1>2, <2>1
  <2>3. ASSUME NEW p \in DOMAIN queue', queue'[p].kind = "REP"
        PROVE  p <= r \/ Covered(queue', p)
    <3>1. CASE p > Len(queue)
      BY <1>4, <2>3, <3>1
    <3>2. CASE p \in 1 .. Len(queue)
      <4>1. p <= r \/ Covered(queue, p)
        BY <1>1, <1>2, <2>1, <2>3, <3>2 DEF Left
      <4>2. p \in Int
        BY <3>2
      <4> QED
        BY <2>1, <4>1, <4>2, ExtendsKeeps
    <3> QED
      BY <1>2, <2>1, <3>1, <3>2
  <2>4. \A j \in 1 .. r : queue'[j] = queue[j]
    BY <1>2, <2>1
  <2>5. ~crashed => \A j \in 1 .. Length(base) - r : InTable(streams, Described(base)[j]) => InTable(streams', Described(base)[j])
    BY <2>1 DEF InTable
  <2>6. Left(queue', base', streams', crashed', r)
    BY <1>1, <2>1, <2>3, <2>4, <2>5 DEF Left
  <2> QED
    BY <2>2, <2>6 DEF Rest
<1>5. CASE (\E m \in Manifests : Ask(m)) \/ AskToPlay \/ AnswerFails
  <2>1. /\ Sends
        /\ \/ queue' = queue
           \/ Len(queue') = Len(queue) + 1 /\ queue'[Len(queue) + 1].kind # "REP"
    BY <1>5, PageSteps
  <2>2. DOMAIN queue' = 1 .. Len(queue')
    BY <2>1 DEF Sends, Extends
  <2>3. ASSUME NEW p \in DOMAIN queue', p > Len(queue)
        PROVE  queue'[p].kind # "REP"
    <3>1. CASE queue' = queue
      BY <1>2, <2>2, <2>3, <3>1
    <3>2. CASE Len(queue') = Len(queue) + 1 /\ queue'[Len(queue) + 1].kind # "REP"
      <4>1. p = Len(queue) + 1
        BY <1>2, <2>2, <2>3, <3>2
      <4> QED
        BY <3>2, <4>1
    <3> QED
      BY <2>1, <3>1, <3>2
  <2> QED
    BY <1>4, <2>1, <2>3
<1>6. CASE Answer
  <2>1. PICK a \in inFlight :
          /\ Sends /\ a[2] \in Manifests
          /\ Len(queue') = Len(queue) + 1 + Length(a[2])
          /\ queue'[Len(queue) + 1].kind = "BA" /\ queue'[Len(queue) + 1].of = a[2]
    BY <1>6, PageSteps
  <2>2. DOMAIN queue' = 1 .. Len(queue') /\ Length(a[2]) \in Nat
    BY <2>1, DescribedFacts DEF Sends, Extends
  <2>3. ASSUME NEW p \in DOMAIN queue', p > Len(queue), queue'[p].kind = "REP"
        PROVE  Covered(queue', p)
    <3>1. p # Len(queue) + 1
      BY <2>1, <2>3
    <3>2. Len(queue) + 1 \in DOMAIN queue' /\ Len(queue) + 1 < p /\ p <= (Len(queue) + 1) + Length(a[2])
      BY <1>2, <2>1, <2>2, <2>3, <3>1
    <3> QED
      BY <2>1, <3>2 DEF Covered
  <2> QED
    BY <1>4, <2>1, <2>3
<1>7. ASSUME Takes
      PROVE  /\ queue' = Tail(queue) /\ queue \in Seq(Reqs) /\ queue # <<>> /\ queue[1] \in Reqs
             /\ Len(queue) \in Nat \ {0} /\ DOMAIN queue = 1 .. Len(queue)
             /\ Len(queue') = Len(queue) - 1 /\ DOMAIN queue' = 1 .. Len(queue) - 1
             /\ \A i \in 1 .. Len(queue) - 1 : queue'[i] = queue[i + 1]
             /\ \A p \in DOMAIN queue' : queue'[p].kind = "REP" =>
                  \/ p + 1 <= r \/ Covered(queue', p)
                  \/ queue[1].kind = "BA" /\ p <= Length(queue[1].of)
  <2>1. /\ queue' = Tail(queue) /\ queue \in Seq(Reqs) /\ queue # <<>> /\ queue[1] \in Reqs
        /\ Len(queue) \in Nat \ {0} /\ DOMAIN queue = 1 .. Len(queue)
        /\ Len(queue') = Len(queue) - 1 /\ DOMAIN queue' = 1 .. Len(queue) - 1
        /\ \A i \in 1 .. Len(queue) - 1 : queue'[i] = queue[i + 1]
    BY <1>7, TakesFacts
  <2>2. ASSUME NEW p \in DOMAIN queue', queue'[p].kind = "REP"
        PROVE  \/ p + 1 <= r \/ Covered(queue', p)
               \/ queue[1].kind = "BA" /\ p <= Length(queue[1].of)
    <3>1. p + 1 \in DOMAIN queue /\ queue[p + 1].kind = "REP" /\ p \in Nat
      BY <2>1, <2>2
    <3>2. p + 1 <= r \/ Covered(queue, p + 1)
      BY <1>1, <3>1 DEF Left
    <3> QED
      BY <2>1, <3>1, <3>2, TailKeeps
  <2> QED
    BY <2>1, <2>2
<1>8. CASE HandleClear
  <2>1. Takes /\ queue[1].kind = "CLEAR" /\ base' = NaN
    BY <1>8, BrowserSteps
  <2>2. r = 0
    BY <1>1, <2>1, HeadFacts
  <2>3. \A p \in DOMAIN queue' : queue'[p].kind = "REP" => Covered(queue', p)
    BY <1>7, <2>1, <2>2
  <2>4. Left(queue', base', streams', crashed', 0) /\ 0 \in 0 .. Len(queue')
    BY <1>7, <2>1, <2>3 DEF Left
  <2> QED
    BY <2>4 DEF Rest
<1>9. CASE HandleBase
  <2> DEFINE m == queue[1].of
             n == Length(m)
  <2>1. Takes /\ queue[1].kind = "BA" /\ base' = m
    BY <1>9, BrowserSteps
  <2>2. r = 0
    BY <1>1, <2>1, HeadFacts
  <2>3. m \in Manifests /\ n \in Nat
    BY <1>7, <2>1, ReqFacts, DescribedFacts
  <2>4. Piece(queue, 1)
    BY <1>7, <2>1 DEF InOnePiece
  <2>5. n \in 0 .. Len(queue') /\ \A j \in 1 .. n : queue'[j] = Described(m)[j]
    <3>1. 1 + n <= Len(queue) /\ \A j \in 1 .. n : queue[1 + j] = Described(m)[j]
      BY <2>4 DEF Piece
    <3> HIDE DEF n, m
    <3> QED
      BY <1>7, <2>1, <2>3, <3>1
  <2>6. \A p \in DOMAIN queue' : queue'[p].kind = "REP" => p <= n \/ Covered(queue', p)
    <3> HIDE DEF n
    <3>1. \A p \in DOMAIN queue' : ~(p + 1 <= r)
      BY <1>7, <2>1, <2>2
    <3> QED
      BY <1>7, <2>1, <3>1 DEF n
  <2>7. m # NaN
    BY <2>3, NaNAssumption
  <2> HIDE DEF m
  <2>8. Left(queue', base', streams', crashed', n)
    <3>1. base' # NaN /\ Length(base') = n
      BY <2>1, <2>7
    <3>2. n <= Length(base') /\ \A j \in 1 .. n : queue'[j] = Described(base')[Length(base') - n + j]
      <4>1. \A j \in 1 .. n : n - n + j = j
        BY <2>3
      <4> QED
        BY <2>1, <2>3, <2>5, <3>1, <4>1
    <3>3. 1 .. Length(base') - n = {}
      BY <2>3, <3>1
    <3> HIDE DEF n
    <3> QED
      BY <2>6, <3>1, <3>2, <3>3 DEF Left
  <2> QED
    BY <2>5, <2>8 DEF Rest
<1>10. CASE HandlePlay
  <2>1. Takes /\ queue[1].kind = "PLAY" /\ base' = base
    BY <1>10, BrowserSteps
  <2>2. r = 0 /\ ~HandleClear
    BY <1>1, <2>1, HeadFacts, BrowserSteps
  <2>3. \A p \in DOMAIN queue' : queue'[p].kind = "REP" => Covered(queue', p)
    BY <1>7, <2>1, <2>2
  <2>4. \A q : InTable(streams, q) => InTable(streams', q)
    BY <1>10, <2>2, TableSteps, InTableKeeps
  <2>5. ~crashed
    BY <2>1 DEF Takes
  <2>6. Left(queue', base', streams', crashed', 0)
    BY <1>1, <2>1, <2>2, <2>3, <2>4, <2>5 DEF Left
  <2>7. 0 \in 0 .. Len(queue')
    BY <1>7, <2>1
  <2> QED
    BY <2>6, <2>7 DEF Rest
<1>11. CASE HandleRep
  <2> DEFINE q == queue[1]
             n == Length(base)
  <2>1. Takes /\ q.kind = "REP" /\ base' = base
    BY <1>11, BrowserSteps
  <2>2. /\ r >= 1 /\ base \in Manifests /\ r <= n /\ n \in Nat
        /\ q = Described(base)[n - r + 1] /\ q.idx = n - r
    BY <1>1, <2>1, HeadFacts, DescribedFacts
  <2>3. r - 1 \in 0 .. Len(queue')
    BY <1>7, <2>1, <2>2
  <2>4. \A j \in 1 .. r - 1 : queue'[j] = Described(base)[n - (r - 1) + j]
    <3> SUFFICES ASSUME NEW j \in 1 .. r - 1
                 PROVE  queue'[j] = Described(base)[n - (r - 1) + j]
      OBVIOUS
    <3>1. j \in 1 .. Len(queue) - 1 /\ j + 1 \in 1 .. r
      BY <1>7, <2>1, <2>2
    <3>2. queue'[j] = queue[j + 1]
      BY <1>7, <2>1, <3>1
    <3>3. queue[j + 1] = Described(base)[n - r + (j + 1)]
      BY <1>1, <2>2, <3>1, NaNAssumption DEF Left
    <3>4. n - r + (j + 1) = n - (r - 1) + j
      BY <2>2, <3>1
    <3> QED
      BY <3>2, <3>3, <3>4
  <2>5. \A p \in DOMAIN queue' : queue'[p].kind = "REP" => p <= r - 1 \/ Covered(queue', p)
    <3>1. \A p \in DOMAIN queue' : p + 1 <= r => p <= r - 1
      BY <1>7, <2>1, <2>2
    <3> QED
      BY <1>7, <2>1, <3>1
  <2>6. ASSUME ~crashed', NEW j \in 1 .. n - (r - 1)
        PROVE  InTable(streams', Described(base)[j])
    <3> DEFINE d == Described(base)[j]
    <3>1. /\ q.prefix \in Handlers /\ q.numbers.duration # NaN
          /\ \A h \in Handlers : h # q.prefix => streams'[h] = streams[h]
          /\ StreamOf(q) \in Range(streams'[q.prefix])
          /\ \A s \in Range(streams[q.prefix]) : s.idx # q.idx => s \in Range(streams'[q.prefix])
      BY <1>11, <2>6, RepTables
    <3>2. CASE j = n - r + 1
      <4>1. d = q
        BY <2>2, <3>2
      <4> QED
        BY <3>1, <4>1 DEF InTable
    <3>3. CASE j # n - r + 1
      <4>1. j \in 1 .. n - r /\ j \in 1 .. n /\ j - 1 # n - r
        BY <2>2, <3>3
      <4>2. InTable(streams, d)
        BY <1>1, <2>1, <2>2, <4>1, NaNAssumption DEF Left, Takes
      <4>3. d.idx = j - 1 /\ StreamOf(d).idx = d.idx
        BY <2>2, <4>1, DescribedFacts DEF StreamOf
      <4> HIDE DEF d, q
      <4>4. StreamOf(d) \in Range(streams[d.prefix]) /\ d.prefix \in Handlers /\ d.numbers.duration # NaN
        BY <4>2 DEF InTable
      <4>5. StreamOf(d).idx # q.idx
        BY <2>2, <4>1, <4>3
      <4>6. StreamOf(d) \in Range(streams'[d.prefix])
        BY <3>1, <4>4, <4>5
      <4> QED
        BY <4>4, <4>6 DEF InTable, d
    <3> QED
      BY <3>2, <3>3
  <2>7. Left(queue', base', streams', crashed', r - 1)
    <3>1. base' # NaN /\ r - 1 <= Length(base')
      BY <2>1, <2>2, NaNAssumption
    <3> QED
      BY <2>1, <2>4, <2>5, <2>6, <3>1 DEF Left
  <2> QED
    BY <2>3, <2>7 DEF Rest
<1>12. CASE UNCHANGED vars
  BY <1>12 DEF vars, Rest, Left, InTable
<1> QED
  BY <1>5, <1>6, <1>8, <1>9, <1>10, <1>11, <1>12 DEF Next, Page, Browser

\* OneManifest: a file gets into the tables only while baseUrl is that file.
LEMMA OneManifestStep ==
  ASSUME Shape, Apart, Rest, OneManifest, [Next]_vars, ~overtaken, ~overtaken'
  PROVE  OneManifest'
<1>1. \A h \in Handlers : \A s \in Known(streams[h]) : s.of = base
  BY FilledIsKnown DEF OneManifest
<1>2. ASSUME \A h \in Handlers : \A s \in Known(streams'[h]) : s.of = base'
      PROVE  OneManifest'
  BY <1>2 DEF OneManifest, Filled, Known, Range
<1>3. CASE Sends \/ UNCHANGED vars
  BY <1>1, <1>2, <1>3 DEF Sends, vars
<1>4. CASE HandleClear
  <2>1. \A h \in Handlers : Known(streams'[h]) = {}
    BY <1>4, TableSteps
  <2> QED
    BY <1>2, <2>1
<1>5. CASE HandleBase
  <2>1. Takes /\ queue[1].kind = "BA" /\ ~HandleClear
    BY <1>5, BrowserSteps
  <2>2. Clean(queue, streams, 1)
    BY <2>1, TakesFacts DEF Apart
  <2>3. ~Cleared(queue, 0, 1)
    BY <2>1, TakesFacts DEF Cleared
  <2>4. \A h \in Handlers : Known(streams'[h]) = {}
    BY <1>5, <2>1, <2>2, <2>3, TableSteps DEF Clean
  <2> QED
    BY <1>2, <2>4
<1>6. CASE HandlePlay
  <2>1. base' = base /\ queue[1].kind = "PLAY" /\ ~HandleClear
    BY <1>6, BrowserSteps
  <2>2. \A h \in Handlers : Known(streams'[h]) = Known(streams[h])
    BY <1>6, <2>1, TableSteps
  <2> QED
    BY <1>1, <1>2, <2>1, <2>2
<1>7. CASE HandleRep
  <2> DEFINE q == queue[1]
  <2>1. Takes /\ q.kind = "REP" /\ base' = base
    BY <1>7, BrowserSteps
  <2>2. CASE crashed'
    <3>1. streams' = streams
      BY <1>7, <2>1, <2>2, BrowserSteps DEF Takes
    <3> QED
      BY <1>1, <1>2, <2>1, <3>1
  <2>3. CASE ~crashed'
    <3>1. /\ q.prefix \in Handlers
          /\ \A h \in Handlers : h # q.prefix => streams'[h] = streams[h]
          /\ Known(streams'[q.prefix]) \subseteq Known(streams[q.prefix]) \cup {StreamOf(q)}
      BY <1>7, <2>3, RepTables
    <3>2. StreamOf(q).of = base
      <4>1. PICK r \in 0 .. Len(queue) : Left(queue, base, streams, crashed, r)
        BY DEF Rest
      <4>2. q.of = base
        BY <2>1, <4>1, HeadFacts
      <4> QED
        BY <4>2 DEF StreamOf
    <3> QED
      BY <1>1, <1>2, <2>1, <3>1, <3>2
  <2> QED
    BY <2>2, <2>3
<1> QED
  BY <1>3, <1>4, <1>5, <1>6, <1>7, StepKinds

\* Before anything was asked for.
LEMMA InitIInv == Init => IInv
<1> SUFFICES ASSUME Init
             PROVE  IInv
  OBVIOUS
<1>1. \A h \in Handlers : streams[h] = <<>> /\ Table(h, streams[h]) /\ Known(streams[h]) = {}
  BY EmptyTable DEF Init
<1>2. queue = <<>> /\ Len(queue) = 0 /\ DOMAIN queue = {} /\ queue \in Seq(Reqs)
  BY DEF Init
<1>3. Shape
  BY <1>1, <1>2 DEF Init, Shape
<1>4. InOnePiece /\ Apart
  BY <1>2 DEF InOnePiece, Apart
<1>5. Fresh
  BY DEF Init, Fresh
<1>6. Left(queue, base, streams, crashed, 0) /\ 0 \in 0 .. Len(queue)
  BY <1>2 DEF Init, Left
<1>7. OneManifest
  BY <1>1, FilledIsKnown DEF OneManifest
<1> QED
  BY <1>3, <1>4, <1>5, <1>6, <1>7 DEF IInv, Rest

\* The invariant is inductive.
LEMMA IInvStep == IInv /\ [Next]_vars => IInv'
<1> SUFFICES ASSUME IInv, [Next]_vars
             PROVE  IInv'
  OBVIOUS
<1>1. Shape' /\ InOnePiece'
  BY ShapeStep, PieceStep DEF IInv
<1>2. ASSUME ~overtaken'
      PROVE  Apart' /\ Fresh' /\ Rest' /\ OneManifest'
  <2>1. ~overtaken
    BY <1>2, StepKinds DEF IInv, Takes, vars
  <2> QED
    BY <1>2, <2>1, ApartStep, RestStep, OneManifestStep DEF IInv
<1> QED
  BY <1>1, <1>2 DEF IInv

\* It holds in every reachable state.
LEMMA Invariance == Spec => []IInv
BY InitIInv, IInvStep, PTL DEF Spec

\* The two tables never mix files, as long as no answer is overtaken by the
\* next request: HandleManifest and the OipfAVControlMapper, the DASH: messages.
THEOREM TablesAreOfOneFile == Spec => []OneManifest
<1>1. IInv => OneManifest
  BY DEF IInv, OneManifest
<1> QED
  BY <1>1, Invariance, PTL

-----------------------------------------------------------------------------
(***************************************************************************)
(* What is played.                                                         *)
(***************************************************************************)
\* The stream of index idx after GetStream.
Picked(t, idx) == GetStreamOf(GetStream(t, idx), idx)

\* Playing a stream ends the browser.
Unplayable(s) == s.duration = 0 \/ ~HasNextUrl(s)

\* A stream with a file is a representation of its file, of the table's kind.
OfRep(h, s) ==
  /\ s.of \in Manifests
  /\ \E j \in 1 .. Length(s.of) : LET q == Described(s.of)[j] IN
       q.prefix = h /\ q.numbers.duration # NaN /\ s = StreamOf(q)

\* An entry is new, or such a stream.
LEMMA EntryFacts ==
  ASSUME NEW h, NEW s, Entry(h, s)
  PROVE  \/ s.bandwidth = 0 /\ s.duration = 0 /\ s.of = NaN
         \/ OfRep(h, s) /\ s.bandwidth \in Nat \ {0} /\ s.of # NaN /\ s.idx # -1
<1>1. CASE s = NewStream(s.idx)
  <2>1. LET n == NewStream(s.idx) IN n.bandwidth = 0 /\ n.duration = 0 /\ n.of = NaN
    BY NewStreamFacts
  <2> QED
    BY <1>1, <2>1
<1>2. ASSUME NEW m \in Manifests, NEW q \in Range(Described(m)),
             q.prefix = h, q.numbers.duration # NaN, s = StreamOf(q)
      PROVE  OfRep(h, s) /\ s.bandwidth \in Nat \ {0} /\ s.of # NaN /\ s.idx # -1
  <2>1. PICK j \in 1 .. Length(m) : q = Described(m)[j]
    BY DescribedFacts DEF Range
  <2>2. q.of = m /\ q.idx = j - 1 /\ \E i \in 1 .. SetsDescribed(m) : OfSet(q, m, m.sets[i])
    BY <2>1, DescribedFacts
  <2>3. PICK i \in 1 .. SetsDescribed(m) : OfSet(q, m, m.sets[i])
    BY <2>2
  <2>4. m.sets[i] \in Range(m.sets)
    <3>1. SetsDescribed(m) \in 0 .. Len(m.sets) /\ m.sets \in Seq(Range(m.sets))
      BY DescribedFacts, ManifestAssumption
    <3>2. i \in DOMAIN m.sets
      BY <3>1
    <3> QED
      BY <3>2 DEF Range
  <2>5. q.rep.bandwidth \in Nat \ {0}
    <3>1. q.rep \in Range(m.sets[i].reps)
      BY <2>3 DEF OfSet, Range
    <3> QED
      BY <2>4, <3>1, ManifestAssumption
  <2>6. s.of = m /\ s.bandwidth = q.rep.bandwidth /\ s.idx = q.idx
    BY <1>2, <2>2 DEF StreamOf
  <2>7. s.idx # -1 /\ s.of # NaN
    BY <2>2, <2>6, NaNAssumption
  <2>8. OfRep(h, s)
    BY <1>2, <2>1, <2>6 DEF OfRep
  <2> QED
    BY <2>5, <2>6, <2>7, <2>8
<1> QED
  BY <1>1, <1>2 DEF Entry

\* What set_input chooses is the best of the streams that are there, or empty
\* when none of them is of a file.
LEMMA PickedFacts ==
  ASSUME NEW h, NEW t, Table(h, t)
  PROVE  LET s == Picked(t, GetBestStream(t)) IN
         /\ \/ s.duration = 0 /\ Known(t) = {}
            \/ s \in Known(t) /\ OfRep(h, s) /\ s.of # NaN
         /\ \A u \in Known(t) : u.bandwidth <= s.bandwidth
<1> DEFINE b == GetBestStream(t)
           g == GetStream(t, b)
           s == Picked(t, b)
<1>1. /\ Table(h, g) /\ Range(t) \subseteq Range(g) /\ Range(g) \subseteq Range(t) \cup {NewStream(b)}
      /\ \E i \in DOMAIN g : g[i].idx = b
  BY GetStreamFacts
<1>2. PICK i \in DOMAIN g : g[i].idx = b
  BY <1>1
<1>3. s = g[i]
  <2>1. GetStreamOf(g, g[i].idx) = g[i]
    BY <1>1, GetStreamOfFacts
  <2> QED
    BY <1>2, <2>1 DEF Picked
<1>4. \A u \in Range(t) : \/ u.bandwidth = 0 /\ u.of = NaN
                          \/ OfRep(h, u) /\ u.bandwidth \in Nat \ {0} /\ u.of # NaN /\ u.idx # -1
  BY EntryFacts DEF Table
<1>5. DOMAIN t = 1 .. Len(t) /\ Len(t) \in Nat /\ \A j \in 1 .. Len(t) : t[j] \in Range(t)
  BY DEF Table, Range
<1>6. \A j \in 1 .. Len(t) : t[j].bandwidth \in Nat
  BY <1>4, <1>5
<1>7. CASE \E k \in DOMAIN t : Best(t, k)
  <2>1. PICK k \in DOMAIN t : Best(t, k) /\ b = t[k].idx
    <3>1. b = t[CHOOSE k \in DOMAIN t : Best(t, k)].idx
      BY <1>7 DEF GetBestStream, Best
    <3> QED
      BY <1>7, <3>1
  <2>2. t[k] \in Range(g) /\ t[k] \in Range(t)
    BY <1>1, <1>5, <2>1
  <2>3. PICK l \in DOMAIN g : g[l] = t[k]
    BY <2>2 DEF Range
  <2>4. l = i
    BY <1>1, <1>2, <2>1, <2>3 DEF Table
  <2>5. s = t[k]
    BY <1>3, <2>3, <2>4
  <2>6. s.bandwidth > 0 /\ \A j \in DOMAIN t : t[j].bandwidth <= s.bandwidth
    BY <1>5, <1>6, <2>1, <2>5 DEF Best
  <2>7. s \in Known(t) /\ OfRep(h, s) /\ s.of # NaN
    BY <1>4, <2>2, <2>5, <2>6 DEF Known
  <2>8. \A u \in Known(t) : u.bandwidth <= s.bandwidth
    BY <2>6 DEF Known, Range
  <2> HIDE DEF s
  <2> QED
    BY <2>7, <2>8 DEF s
<1>8. CASE ~ \E k \in DOMAIN t : Best(t, k)
  <2>1. b = -1
    BY <1>8 DEF GetBestStream, Best
  <2>2. \A j \in 1 .. Len(t) : ~(t[j].bandwidth > 0)
    BY <1>5, <1>6, <1>8, BestExists
  <2>3. \A u \in Range(t) : u.bandwidth = 0 /\ u.of = NaN
    BY <1>4, <1>5, <1>6, <2>2 DEF Range
  <2>4. Known(t) = {}
    BY <2>3 DEF Known
  <2>5. s.duration = 0
    <3>1. Entry(h, s)
      BY <1>1, <1>2, <1>3 DEF Table, Range
    <3>2. s.idx = -1
      BY <1>2, <1>3, <2>1
    <3> HIDE DEF s
    <3> QED
      BY <3>1, <3>2, EntryFacts
  <2> HIDE DEF s
  <2> QED
    BY <2>4, <2>5 DEF s
<1> QED
  BY <1>7, <1>8

\* The steps of playing.
LEMMA PlaySteps ==
  ASSUME Shape, HandlePlay
  PROVE  /\ Takes /\ queue[1].kind = "PLAY" /\ ~crashed /\ base' = base
         /\ crashed' => \E h \in Handlers : Unplayable(Picked(streams[h], GetBestStream(streams[h])))
         /\ played' # played => \A h \in Handlers :
              LET s == Picked(streams[h], GetBestStream(streams[h]))
              IN s.duration # 0 /\ played'[h].stream = s /\ played'[h].of = base
<1>1. Takes /\ queue[1].kind = "PLAY" /\ ~crashed /\ base' = base
  BY BrowserSteps DEF Takes
<1>2. /\ crashed' => \E h \in Handlers : Unplayable(Picked(streams[h], GetBestStream(streams[h])))
      /\ played' # played => \A h \in Handlers :
           LET s == Picked(streams[h], GetBestStream(streams[h]))
           IN s.duration # 0 /\ played'[h].stream = s /\ played'[h].of = base
  BY <1>1 DEF HandlePlay, Picked, Unplayable
<1> QED
  BY <1>1, <1>2

\* What is played of a file that is described to the end is its best.
LEMMA BestStep ==
  ASSUME Shape, Rest, OneManifest, HandlePlay, ~overtaken, played' # played,
         NEW h \in Handlers, SetsDescribed(played'[h].of) = Len(played'[h].of.sets)
  PROVE  /\ played'[h].stream.rep \in RepsOf(played'[h].of, h)
         /\ \A r \in RepsOf(played'[h].of, h) : r.bandwidth <= played'[h].stream.rep.bandwidth
<1> DEFINE t == streams[h]
           s == Picked(t, GetBestStream(t))
<1>1. /\ Takes /\ queue[1].kind = "PLAY" /\ ~crashed
      /\ s.duration # 0 /\ played'[h].stream = s /\ played'[h].of = base
  BY PlaySteps
<1>2. Table(h, t)
  BY DEF Shape
<1>3. s \in Known(t) /\ OfRep(h, s) /\ s.of # NaN /\ \A u \in Known(t) : u.bandwidth <= s.bandwidth
  BY <1>1, <1>2, PickedFacts
<1> HIDE DEF s
<1>4. s.of = base /\ base \in Manifests /\ base # NaN
  BY <1>3, FilledIsKnown DEF OneManifest, OfRep
<1>5. /\ SetsDescribed(base) = Len(base.sets)
      /\ base.sets \in Seq(Range(base.sets)) /\ DOMAIN base.sets = 1 .. Len(base.sets)
  BY <1>1, <1>4, ManifestAssumption
<1>6. PICK j \in 1 .. Length(base) : Described(base)[j].prefix = h /\ s = StreamOf(Described(base)[j])
  BY <1>3, <1>4 DEF OfRep
<1>7. s.rep \in RepsOf(base, h) /\ s.bandwidth = s.rep.bandwidth
  <2> DEFINE q == Described(base)[j]
  <2>1. s.rep = q.rep /\ s.bandwidth = q.rep.bandwidth
    BY <1>6 DEF StreamOf
  <2>2. PICK i \in 1 .. SetsDescribed(base) : OfSet(q, base, base.sets[i])
    BY <1>4, DescribedFacts
  <2>3. i \in DOMAIN base.sets
    BY <1>5
  <2>4. q.rep \in Range(base.sets[i].reps) /\ getPrefixForMimeType(q.rep, base.sets[i]) = h
    BY <1>6, <2>2 DEF OfSet, Range
  <2> QED
    BY <2>1, <2>3, <2>4 DEF RepsOf
<1>8. ASSUME NEW r \in RepsOf(base, h)
      PROVE  r.bandwidth <= s.bandwidth
  <2>1. PICK i \in DOMAIN base.sets : r \in Range(base.sets[i].reps) /\ getPrefixForMimeType(r, base.sets[i]) = h
    BY DEF RepsOf
  <2>2. PICK k \in DOMAIN base.sets[i].reps : r = base.sets[i].reps[k]
    BY <2>1 DEF Range
  <2>3. i \in 1 .. SetsDescribed(base)
    BY <1>5
  <2>4. PICK l \in 1 .. Length(base) :
          /\ Described(base)[l].rep = base.sets[i].reps[k]
          /\ Described(base)[l].prefix = getPrefixForMimeType(base.sets[i].reps[k], base.sets[i])
    BY <1>4, <2>3, DescribedFacts
  <2> DEFINE d == Described(base)[l]
  <2>5. d.rep = r /\ d.prefix = h /\ d.of = base
    BY <1>4, <2>1, <2>2, <2>4, DescribedFacts
  <2>6. PICK n \in 0 .. Len(queue) : Left(queue, base, streams, crashed, n)
    BY DEF Rest
  <2>7. n = 0
    BY <1>1, <2>6, HeadFacts
  <2>8. l \in 1 .. Length(base) - n
    BY <1>4, <2>7, DescribedFacts
  <2>9. InTable(streams, d)
    BY <1>1, <1>4, <2>6, <2>8 DEF Left
  <2>10. StreamOf(d) \in Range(t)
    BY <2>5, <2>9 DEF InTable
  <2>11. StreamOf(d).of = base /\ StreamOf(d).bandwidth = r.bandwidth
    BY <2>5 DEF StreamOf
  <2>12. StreamOf(d) \in Known(t)
    BY <1>4, <2>10, <2>11 DEF Known
  <2> QED
    BY <1>3, <2>11, <2>12
<1> QED
  BY <1>1, <1>7, <1>8

\* What is played of a file the page describes to the end is the representation
\* with the highest bandwidth of it, as long as no answer is overtaken:
\* GetBestStream over tables that one running number indexes.
THEOREM BestIsPlayed == Spec => []PlaysBest
<1>1. Init => PlaysBest
  BY DEF Init, PlaysBest
<1>2. ASSUME IInv, PlaysBest, [Next]_vars
      PROVE  PlaysBest'
  <2>1. Shape
    BY <1>2 DEF IInv
  <2>2. overtaken => overtaken'
    BY <1>2, <2>1, StepKinds DEF Takes, vars
  <2>3. CASE played' = played
    BY <1>2, <2>2, <2>3 DEF PlaysBest
  <2>4. CASE played' # played
    <3>1. HandlePlay
      BY <1>2, <2>1, <2>4, StepKinds, BrowserSteps DEF Sends, vars
    <3> SUFFICES ASSUME ~overtaken', NEW h \in Handlers,
                        SetsDescribed(played'[h].of) = Len(played'[h].of.sets)
                 PROVE  /\ played'[h].stream.rep \in RepsOf(played'[h].of, h)
                        /\ \A r \in RepsOf(played'[h].of, h) : r.bandwidth <= played'[h].stream.rep.bandwidth
      BY DEF PlaysBest
    <3> QED
      BY <1>2, <2>1, <2>2, <2>4, <3>1, BestStep DEF IInv
  <2> QED
    BY <2>3, <2>4
<1> QED
  BY <1>1, <1>2, Invariance, PTL DEF Spec

-----------------------------------------------------------------------------
(***************************************************************************)
(* What ends the browser.                                                  *)
(***************************************************************************)
\* A length of segments of a second and more is some whole seconds.
LEMMA WholeSeconds ==
  ASSUME NEW t \in Nat \ {0}, NEW d \in Nat, d >= t
  PROVE  d \div t \in 1 .. d
<1>1. d \div t \in Int /\ t * (d \div t) <= d /\ d < t * ((d \div t) + 1)
  OBVIOUS
<1> DEFINE x == d \div t
<1>2. x \in Int /\ t * x <= d /\ d < t * (x + 1)
  BY <1>1
<1> HIDE DEF x
<1>3. x >= 1
  <2> SUFFICES ASSUME x + 1 <= 1
               PROVE  FALSE
    BY <1>2
  <2>1. t * (x + 1) <= t * 1
    BY <1>2
  <2> QED
    BY <1>2, <2>1
<1>4. x <= t * x
  BY <1>2, <1>3
<1> QED
  BY <1>2, <1>3, <1>4 DEF x

\* A representation of a regular file has a table, a length of segments that
\* survives stoul and an address that takes a number.
LEMMA RegularFacts ==
  ASSUME NEW m \in Manifests, Regular(m), NEW j \in 1 .. Length(m)
  PROVE  LET q == Described(m)[j] IN
         /\ q.prefix # NaN /\ q.numbers.duration # NaN
         /\ Stoul(q.numbers.duration) # 0 /\ HasNextUrl(StreamOf(q))
<1> DEFINE q == Described(m)[j]
<1>1. PICK i \in 1 .. SetsDescribed(m) : OfSet(q, m, m.sets[i])
  BY DescribedFacts
<1> DEFINE set == m.sets[i]
<1>2. i \in DOMAIN m.sets /\ set \in Range(m.sets)
  <2>1. SetsDescribed(m) \in 0 .. Len(m.sets) /\ m.sets \in Seq(Range(m.sets))
    BY DescribedFacts, ManifestAssumption
  <2>2. i \in DOMAIN m.sets
    BY <2>1
  <2> QED
    BY <2>2 DEF Range
<1>3. /\ NaN \notin {m.age, set.timescale, set.duration, set.startNumber}
      /\ set.duration >= set.timescale
      /\ \A r \in Range(set.reps) : /\ getPrefixForMimeType(r, set) # NaN
                                    /\ getMediaInit(r, set).media[1] \in Numbered
  BY <1>2 DEF Regular
<1>4. q.prefix # NaN
  BY <1>1, <1>3 DEF OfSet, Range
<1>5. set.timescale \in Nat \ {0} /\ set.duration \in 1 .. Wide - 1
  BY <1>2, <1>3, ManifestAssumption
<1>6. q.numbers.duration = set.duration \div set.timescale
  <2>1. q.numbers = Numbers(m, set)
    BY <1>1 DEF OfSet
  <2>2. Numbers(m, set).duration = set.duration \div set.timescale
    BY <1>3 DEF Numbers
  <2> HIDE DEF q, set
  <2> QED
    BY <2>1, <2>2
<1> HIDE DEF q, set
<1>7. q.numbers.duration \in 1 .. Wide - 1
  <2>1. set.duration \div set.timescale \in 1 .. set.duration
    BY <1>3, <1>5, WholeSeconds
  <2> QED
    BY <1>5, <1>6, <2>1, WideAssumption
<1>8. q.numbers.duration # NaN
  BY <1>7, NaNAssumption
<1>9. Stoul(q.numbers.duration) # 0
  BY <1>7, WideAssumption DEF Stoul
<1>10. q.rep \in Range(set.reps) /\ q.urls = getMediaInit(q.rep, set)
  BY <1>1 DEF OfSet, Range, q, set
<1>11. StreamOf(q).segmentUrl = q.urls.media
  BY DEF StreamOf
<1>12. HasNextUrl(StreamOf(q))
  BY <1>3, <1>10, <1>11 DEF HasNextUrl
<1> QED
  BY <1>4, <1>8, <1>9, <1>12 DEF q

\* Regular files end the browser in one order of requests and answers only:
\* playing before a video and an audio stream are described.  stoi and stoul of
\* dashhandler.cpp throw for other files, InitLoadThread divides by 0, and the
\* replace() of GetNextUrl throws for an address without "$Number$".
THEOREM OnlyIrregularCrash == Spec => RegularFilesPlay
<1>1. Shape /\ [Next]_vars =>
        [(crashed' /\ ~crashed) =>
           LET q == Head(queue) IN
             \/ q.kind = "REP" /\ ~Regular(q.of)
             \/ q.kind = "PLAY" /\ \E h \in Handlers :
                  Filled(h) = {} \/ \E s \in Filled(h) : ~Regular(s.of)]_vars
  <2> SUFFICES ASSUME Shape, [Next]_vars, crashed', ~crashed
               PROVE  LET q == Head(queue) IN
                        \/ q.kind = "REP" /\ ~Regular(q.of)
                        \/ q.kind = "PLAY" /\ \E h \in Handlers :
                             Filled(h) = {} \/ \E s \in Filled(h) : ~Regular(s.of)
    OBVIOUS
  <2>1. HandleRep \/ HandlePlay
    <3>1. HandleClear \/ HandleBase => crashed' = crashed
      BY DEF HandleClear, HandleBase
    <3> QED
      BY <3>1, StepKinds DEF Sends, vars
  <2>2. Head(queue) = queue[1] /\ queue[1] \in Reqs
    <3>1. Takes
      BY <2>1, BrowserSteps
    <3>2. queue \in Seq(Reqs) /\ queue # <<>>
      BY <3>1, TakesFacts
    <3> QED
      BY <3>2, TailFacts
  <2>3. CASE HandleRep
    <3> DEFINE q == queue[1]
    <3>1. q.kind = "REP" /\ (q.prefix = NaN \/ q.numbers.duration = NaN)
      BY <2>3, BrowserSteps
    <3>2. q.of \in Manifests /\ q \in Range(Described(q.of))
      BY <2>2, <3>1, ReqFacts
    <3>3. PICK j \in 1 .. Length(q.of) : q = Described(q.of)[j]
      <4>1. DOMAIN Described(q.of) = 1 .. Length(q.of)
        BY <3>2, DescribedFacts
      <4> HIDE DEF q
      <4> QED
        BY <3>2, <4>1 DEF Range
    <3>4. ~Regular(q.of)
      BY <3>1, <3>2, <3>3, RegularFacts
    <3> QED
      BY <2>2, <3>1, <3>4
  <2>4. CASE HandlePlay
    <3>1. queue[1].kind = "PLAY"
      BY <2>4, PlaySteps
    <3>2. PICK h \in Handlers : Unplayable(Picked(streams[h], GetBestStream(streams[h])))
      BY <2>4, PlaySteps
    <3> DEFINE s == Picked(streams[h], GetBestStream(streams[h]))
    <3>3. \/ Known(streams[h]) = {}
          \/ s \in Known(streams[h]) /\ OfRep(h, s)
      BY PickedFacts DEF Shape
    <3> HIDE DEF s
    <3>4. OfRep(h, s) => ~Regular(s.of)
      <4> SUFFICES ASSUME OfRep(h, s), Regular(s.of)
                   PROVE  FALSE
        OBVIOUS
      <4>1. PICK j \in 1 .. Length(s.of) : s = StreamOf(Described(s.of)[j])
        BY DEF OfRep
      <4>2. s.duration = Stoul(Described(s.of)[j].numbers.duration)
        BY <4>1 DEF StreamOf
      <4>3. Stoul(Described(s.of)[j].numbers.duration) # 0 /\ HasNextUrl(s)
        BY <4>1, RegularFacts DEF OfRep
      <4> QED
        BY <3>2, <4>2, <4>3 DEF s, Unplayable
    <3>5. Filled(h) = {} \/ \E u \in Filled(h) : ~Regular(u.of)
      BY <3>3, <3>4, FilledIsKnown
    <3> QED
      BY <2>2, <3>1, <3>5
  <2> QED
    BY <2>1, <2>3, <2>4
<1>2. IInv => Shape
  BY DEF IInv
<1> QED
  BY <1>1, <1>2, Invariance, PTL DEF Spec, RegularFilesPlay

-----------------------------------------------------------------------------
(***************************************************************************)
(* What is preloaded.                                                      *)
(***************************************************************************)
\* A duration is some whole seconds.
LEMMA DurationType ==
  ASSUME NEW groups, \A u \in DOMAIN groups : groups[u] \in Nat
  PROVE  ParseDuration(groups) \in Nat
<1> DEFINE Part(u) == IF u \in DOMAIN groups THEN groups[u] * Seconds[u] ELSE 0
<1>1. \A u \in {"Y", "M", "D", "TH", "TM", "TS"} : Seconds[u] \in Nat
  BY DEF Seconds
<1>2. \A u \in {"Y", "M", "D", "TH", "TM", "TS"} : Part(u) \in Nat
  BY <1>1
<1>3. ParseDuration(groups) = Part("Y") + Part("M") + Part("D") + Part("TH") + Part("TM") + Part("TS")
  BY DEF ParseDuration
<1> HIDE DEF Part
<1> QED
  BY <1>2, <1>3

\* What is below 2^w is left as it is by stoul.
LEMMA StoulFits ==
  ASSUME NEW n \in Nat, n < Wide
  PROVE  n % Wide = n
BY WideAssumption

\* The segments that are complete, times what one lasts, are the time there was
\* but for less than one.
LEMMA Complete ==
  ASSUME NEW a \in Int, NEW d \in Nat \ {0}, a >= 13 * d
  PROVE  /\ a \div d \in Nat /\ a \div d >= 13
         /\ (a \div d) * d <= a /\ a < (a \div d) * d + d
<1> DEFINE x == a \div d
<1>1. x \in Int /\ d * x <= a /\ a < d * (x + 1)
  OBVIOUS
<1> HIDE DEF x
<1>2. x >= 13
  <2> SUFFICES ASSUME x + 1 <= 13
               PROVE  FALSE
    BY <1>1
  <2>1. d * (x + 1) <= d * 13
    BY <1>1
  <2> QED
    BY <1>1, <2>1
<1>3. x * d <= a /\ a < x * d + d
  BY <1>1
<1> QED
  BY <1>1, <1>2, <1>3 DEF x

\* A segment that is at least two and at most twelve behind the last one, of the
\* c that are complete, is on the server.
LEMMA StillThere ==
  ASSUME NEW m, NEW set, NEW c \in Nat, NEW k \in 2 .. 12, c >= 13,
         set.duration \in Nat \ {0}, set.timescale \in Nat \ {0}, set.startNumber \in Nat,
         m.age \in Int, ParseDuration(m.depth) \in Int, ParseDuration(m.period) = 0,
         c * set.duration <= m.age * set.timescale,
         m.age * set.timescale < c * set.duration + set.duration,
         ParseDuration(m.depth) * set.timescale >= 13 * set.duration
  PROVE  OnServer(m, set, set.startNumber + c - k)
<1> DEFINE d == set.duration
           t == set.timescale
           A == m.age * t
           D == ParseDuration(m.depth) * t
           P == c * d
           begins == (set.startNumber + c - k - set.startNumber) * d
<1>1. d \in Nat \ {0} /\ t \in Nat /\ A \in Int /\ D \in Int /\ P \in Nat
  OBVIOUS
<1>2. begins = P - k * d
  <2>1. set.startNumber + c - k - set.startNumber = c - k
    OBVIOUS
  <2>2. (c - k) * d = c * d - k * d
    BY <1>1
  <2> QED
    BY <2>1, <2>2
<1>3. k * d >= 2 * d /\ k * d <= 12 * d /\ k * d \in Nat
  BY <1>1
<1>4. P >= 13 * d
  BY <1>1
<1>5. (m.age - ParseDuration(m.period)) * t = A
  OBVIOUS
<1>6. (m.age - ParseDuration(m.depth)) * t = A - D
  BY <1>1
<1>7. P <= A /\ A < P + d /\ D >= 13 * d
  OBVIOUS
<1> DEFINE K == k * d
<1> HIDE DEF A, D, P, begins, K
<1>8. begins >= 0 /\ begins + d <= A /\ begins + d > A - D
  <2>1. begins = P - K /\ K >= 2 * d /\ K <= 12 * d /\ K \in Nat
    BY <1>2, <1>3 DEF K
  <2> HIDE DEF d
  <2> QED
    BY <1>1, <1>4, <1>7, <2>1
<1> QED
  BY <1>5, <1>6, <1>8 DEF OnServer, begins

\* Of a stream whose start is one segment before the last InitLoadThread loads
\* segments that are up to twelve behind the newest.
LEMMA PreloadIs ==
  ASSUME NEW s, s.last \in Nat, s.last < Wide, s.last >= 12, s.start = s.last - 1,
         s.duration \in Nat \ {0}
  PROVE  \A n \in Preload(s).from .. Preload(s).from + Preload(s).count - 1 :
           n \in s.last - 11 .. s.last - 1
<1> DEFINE L == s.last
           desired == 60 \div s.duration + 1
<1>1. 60 \div s.duration \in Nat
  <2> DEFINE e == s.duration
             x == 60 \div e
  <2>1. e \in Nat \ {0} /\ x \in Int /\ 60 < e * (x + 1)
    OBVIOUS
  <2> HIDE DEF e, x
  <2>2. x >= 0
    <3> SUFFICES ASSUME x + 1 <= 0
                 PROVE  FALSE
      BY <2>1
    <3>1. e * (x + 1) <= e * 0
      BY <2>1
    <3> QED
      BY <2>1, <3>1
  <2> QED
    BY <2>1, <2>2 DEF e, x
<1>2. (s.last - s.start) % Wide = 1
  <2>1. 1 \in Nat /\ 1 < Wide /\ s.last - s.start = 1
    BY WideAssumption
  <2> QED
    BY <2>1, StoulFits
<1>3. (s.start - 10) % Wide = L - 11
  <2>1. L - 11 \in Nat /\ L - 11 < Wide /\ s.start - 10 = L - 11
    BY WideAssumption
  <2> QED
    BY <2>1, StoulFits
<1>4. Preload(s) = IF 1 < desired THEN [from |-> L - 11, count |-> 1 + 5]
                   ELSE [from |-> s.start, count |-> desired]
  BY <1>2, <1>3 DEF Preload
<1>5. desired \in Nat /\ desired >= 1
  BY <1>1
<1> HIDE DEF desired
<1>6. CASE 1 < desired
  <2>1. Preload(s).from = L - 11 /\ Preload(s).count = 6
    BY <1>4, <1>6
  <2> QED
    BY <2>1
<1>7. CASE ~(1 < desired)
  <2>1. Preload(s).from = L - 1 /\ Preload(s).count = 1
    BY <1>4, <1>5, <1>7
  <2> QED
    BY <2>1
<1> QED
  BY <1>6, <1>7

\* The numbers of a set of a file that is older than thirteen segments.
LEMMA NumbersOld ==
  ASSUME NEW m \in Manifests, NEW set \in Range(m.sets), Numbers(m, set).duration # NaN,
         ParseDuration(m.period) = 0, m.age * set.timescale >= 13 * set.duration
  PROVE  LET c == (m.age * set.timescale) \div set.duration
             n == Numbers(m, set)
         IN  /\ c \in Nat /\ c >= 13
             /\ c * set.duration <= m.age * set.timescale
             /\ m.age * set.timescale < c * set.duration + set.duration
             /\ set.duration \in Nat \ {0} /\ set.timescale \in Nat \ {0}
             /\ set.startNumber \in Nat /\ m.age \in Int
             /\ n.last = set.startNumber + c - 1 /\ n.start = n.last - 1
             /\ n.last \in Nat /\ n.last < Wide
<1> DEFINE d == set.duration
           A == m.age * set.timescale
           c == A \div d
<1>1. NaN \notin {m.age, set.timescale, set.duration, set.startNumber}
  BY DEF Numbers
<1>2. /\ d \in Nat \ {0} /\ set.timescale \in Nat \ {0}
      /\ set.startNumber \in Nat /\ m.age \in Int
  <2>1. /\ m.age \in Int \cup {NaN} /\ set.timescale \in (Nat \ {0}) \cup {NaN}
        /\ set.duration \in (1 .. Wide - 1) \cup {NaN} /\ set.startNumber \in Nat \cup {NaN}
    BY ManifestAssumption
  <2> QED
    BY <1>1, <2>1, WideAssumption
<1>3. A \in Int /\ A >= 13 * d
  BY <1>2
<1>4. /\ c \in Nat /\ c >= 13 /\ c * d <= A /\ A < c * d + d
  <2> HIDE DEF d, A
  <2> QED
    BY <1>2, <1>3, Complete
<1>5. 0 \div d = 0
  <2> DEFINE x == 0 \div d
  <2> HIDE DEF A
  <2>1. x \in Int /\ d * x <= 0 /\ 0 < d * (x + 1)
    BY <1>2
  <2> HIDE DEF x, d
  <2>2. x = 0
    <3>1. CASE x >= 1
      <4>1. d * x >= d * 1
        BY <1>2, <2>1, <3>1
      <4> QED
        BY <1>2, <2>1, <4>1
    <3>2. CASE x + 1 <= 0
      <4>1. d * (x + 1) <= d * 0
        BY <1>2, <2>1, <3>2
      <4> QED
        BY <1>2, <2>1, <4>1
    <3> QED
      BY <2>1, <3>1, <3>2
  <2> QED
    BY <2>2 DEF x
<1> DEFINE B == (-ParseDuration(m.period)) * set.timescale
           N == Numbers(m, set)
<1>6. B = 0
  BY <1>2
<1>7. N.last = c + set.startNumber - 1 /\ N.start = N.last - 1 + (B \div d)
  <2>1. NaN \notin {m.age, set.timescale, set.duration, set.startNumber}
    BY <1>1
  <2>2. N.last = c + set.startNumber - 1
    BY <2>1 DEF Numbers
  <2>3. N.start = N.last - 1 + (B \div d)
    BY <2>1 DEF Numbers
  <2> QED
    BY <2>2, <2>3
<1>8. N.last = set.startNumber + c - 1 /\ N.start = N.last - 1
  <2> DEFINE sN == set.startNumber
  <2>1. B \div d = 0
    BY <1>5, <1>6
  <2>2. c \in Nat /\ sN \in Nat
    BY <1>2, <1>4
  <2>3. N.last = c + sN - 1 /\ N.start = N.last - 1 + 0
    BY <1>7, <2>1
  <2> HIDE DEF N, c, sN
  <2>4. N.last = sN + c - 1 /\ N.start = N.last - 1
    BY <2>2, <2>3
  <2> QED
    BY <2>4 DEF sN
<1> HIDE DEF c
<1>9. Numbers(m, set).last \in Nat /\ Numbers(m, set).last < Wide
  <2>1. Numbers(m, set).last \in Nat
    BY <1>2, <1>4, <1>8
  <2>2. Numbers(m, set).last # NaN
    BY <2>1, NaNAssumption
  <2> QED
    BY <2>1, <2>2, NumbersAssumption
<1> QED
  BY <1>2, <1>4, <1>8, <1>9 DEF c

\* What is preloaded of a stream that a table has, of a file that is old enough.
LEMMA LoadsWhatIs ==
  ASSUME NEW h, NEW p, OfRep(h, p.stream), p.stream.duration # 0, p.load = Preload(p.stream),
         ParseDuration(p.stream.of.period) = 0,
         p.stream.of.age * SetOf(p).timescale >= 13 * SetOf(p).duration,
         ParseDuration(p.stream.of.depth) * SetOf(p).timescale >= 13 * SetOf(p).duration
  PROVE  \A n \in p.load.from .. p.load.from + p.load.count - 1 :
           OnServer(p.stream.of, SetOf(p), n)
<1> DEFINE s == p.stream
           m == s.of
           set == SetOf(p)
<1>1. PICK j \in 1 .. Length(m) :
        LET q == Described(m)[j] IN q.numbers.duration # NaN /\ s = StreamOf(q)
  BY DEF OfRep
<1> DEFINE q == Described(m)[j]
<1>2. m \in Manifests
  BY DEF OfRep
<1>3. PICK i \in 1 .. SetsDescribed(m) : OfSet(q, m, m.sets[i])
  BY <1>2, DescribedFacts
<1>4. /\ s.rep = q.rep /\ s.duration = Stoul(q.numbers.duration)
      /\ s.last = Stoul(q.numbers.last) /\ s.start = Stoul(q.numbers.start)
  BY <1>1 DEF StreamOf
<1>5. i \in DOMAIN m.sets /\ m.sets[i] \in Range(m.sets)
  <2>1. SetsDescribed(m) \in 0 .. Len(m.sets) /\ m.sets \in Seq(Range(m.sets))
    BY <1>2, DescribedFacts, ManifestAssumption
  <2>2. i \in DOMAIN m.sets
    BY <2>1
  <2> QED
    BY <2>2 DEF Range
<1>6. s.rep \in Range(m.sets[i].reps) /\ q.numbers = Numbers(m, m.sets[i])
  BY <1>3, <1>4 DEF OfSet, Range
<1>7. set = m.sets[i]
  <2>1. \A k \in DOMAIN m.sets : s.rep \in Range(m.sets[k].reps) => k = i
    BY <1>2, <1>5, <1>6, RepresentationAssumption
  <2>2. (CHOOSE k \in DOMAIN m.sets : s.rep \in Range(m.sets[k].reps)) = i
    BY <1>5, <1>6, <2>1
  <2> QED
    BY <2>2 DEF SetOf
<1>8. Numbers(m, set).duration # NaN /\ set \in Range(m.sets)
  BY <1>1, <1>5, <1>6, <1>7
<1> DEFINE c == (m.age * set.timescale) \div set.duration
           N == Numbers(m, set)
<1>9. /\ c \in Nat /\ c >= 13
      /\ c * set.duration <= m.age * set.timescale
      /\ m.age * set.timescale < c * set.duration + set.duration
      /\ set.duration \in Nat \ {0} /\ set.timescale \in Nat \ {0}
      /\ set.startNumber \in Nat /\ m.age \in Int
      /\ N.last = set.startNumber + c - 1 /\ N.start = N.last - 1
      /\ N.last \in Nat /\ N.last < Wide
  <2> HIDE DEF set, m
  <2>1. m \in Manifests /\ set \in Range(m.sets) /\ Numbers(m, set).duration # NaN
        /\ ParseDuration(m.period) = 0 /\ m.age * set.timescale >= 13 * set.duration
    BY <1>2, <1>8 DEF set, m
  <2> QED
    BY <2>1, NumbersOld
<1>10. s.last = N.last /\ s.start = N.last - 1 /\ N.last >= 12
  <2>1. s.last = Stoul(N.last) /\ s.start = Stoul(N.start)
    BY <1>4, <1>6, <1>7
  <2> HIDE DEF N, c, set, m, s
  <2>2. N.last >= 12 /\ N.start \in Nat /\ N.start < Wide
    BY <1>9, WideAssumption
  <2> QED
    BY <1>9, <2>1, <2>2, StoulFits DEF Stoul
<1>11. s.duration \in Nat \ {0}
  <2>1. s.duration = (set.duration \div set.timescale) % Wide
    <3>1. N.duration = set.duration \div set.timescale
      BY <1>8 DEF Numbers
    <3> QED
      BY <1>4, <1>6, <1>7, <3>1 DEF Stoul
  <2>2. set.duration \div set.timescale \in Int
    BY <1>9
  <2>3. s.duration \in Nat
    <3> DEFINE x == set.duration \div set.timescale
    <3>1. s.duration = x % Wide /\ x \in Int
      BY <2>1, <2>2
    <3> HIDE DEF x
    <3> QED
      BY <3>1, WideAssumption
  <2> QED
    BY <2>3
<1>12. \A n \in Preload(s).from .. Preload(s).from + Preload(s).count - 1 :
         n \in s.last - 11 .. s.last - 1
  <2>1. s.last \in Nat /\ s.last < Wide /\ s.last >= 12 /\ s.start = s.last - 1
    BY <1>9, <1>10
  <2> HIDE DEF s
  <2> QED
    BY <1>11, <2>1, PreloadIs
<1>13. ParseDuration(m.depth) \in Int
  BY <1>2, DurationType, ManifestAssumption
<1>14. ASSUME NEW n \in s.last - 11 .. s.last - 1
       PROVE  OnServer(m, set, n)
  <2> DEFINE k == set.startNumber + c - n
  <2>1. k \in 2 .. 12 /\ n = set.startNumber + c - k
    <3> DEFINE sN == set.startNumber
               L == s.last
    <3>1. L = sN + c - 1 /\ sN \in Nat /\ c \in Nat
      BY <1>9, <1>10
    <3>2. n \in L - 11 .. L - 1
      BY <1>14
    <3>3. k = sN + c - n
      OBVIOUS
    <3> HIDE DEF sN, L, c, k
    <3>4. k \in 2 .. 12 /\ n = sN + c - k
      BY <3>1, <3>2, <3>3
    <3> QED
      BY <3>4 DEF sN
  <2>2. ParseDuration(m.period) = 0 /\ ParseDuration(m.depth) * set.timescale >= 13 * set.duration
    OBVIOUS
  <2> HIDE DEF k, c, set, m, s, N
  <2>3. OnServer(m, set, set.startNumber + c - k)
    BY <1>9, <1>13, <2>1, <2>2, StillThere
  <2> QED
    BY <2>1, <2>3
<1> QED
  BY <1>12, <1>14

\* What is played is a stream a table has, and preloaded what InitLoadThread makes
\* of it.
PlayedInv ==
  played # <<>> => \A h \in Handlers :
    /\ OfRep(h, played[h].stream) /\ played[h].stream.duration # 0
    /\ played[h].load = Preload(played[h].stream)

\* Every segment that InitLoadThread preloads exists, of files that are older, and
\* kept for longer, than what it looks back.
THEOREM PreloadedIsThere == Spec => []PreloadExists
<1>1. Init => PlayedInv
  BY DEF Init, PlayedInv
<1>2. ASSUME IInv, PlayedInv, [Next]_vars
      PROVE  PlayedInv'
  <2>1. Shape
    BY <1>2 DEF IInv
  <2>2. CASE played' = played
    BY <1>2, <2>2 DEF PlayedInv
  <2>3. CASE played' # played
    <3>1. HandlePlay
      BY <1>2, <2>1, <2>3, StepKinds, BrowserSteps DEF Sends, vars
    <3> SUFFICES ASSUME NEW h \in Handlers
                 PROVE  /\ OfRep(h, played'[h].stream) /\ played'[h].stream.duration # 0
                        /\ played'[h].load = Preload(played'[h].stream)
      BY DEF PlayedInv
    <3> DEFINE s == Picked(streams[h], GetBestStream(streams[h]))
    <3>2. s.duration # 0 /\ played'[h].stream = s
      BY <2>1, <2>3, <3>1, PlaySteps
    <3>3. played'[h].load = Preload(s)
      BY <2>3, <3>1 DEF HandlePlay, Picked
    <3>4. OfRep(h, s)
      <4>1. Table(h, streams[h])
        BY <2>1 DEF Shape
      <4> QED
        BY <3>2, <4>1, PickedFacts
    <3> HIDE DEF s
    <3> QED
      BY <3>2, <3>3, <3>4
  <2> QED
    BY <2>2, <2>3
<1>3. PlayedInv => PreloadExists
  BY LoadsWhatIs DEF PlayedInv, PreloadExists
<1> QED
  BY <1>1, <1>2, <1>3, Invariance, PTL DEF Spec
=============================================================================
