---------------------------- MODULE DashManifest ----------------------------
(***************************************************************************)
(* The way of a DASH manifest (MPD) from the page to the segments that are *)
(* loaded: the page asks for the file, computes segment numbers, and       *)
(* describes every representation to the browser                           *)
(* (a-v-control-embedded-object.js), which keeps them in a table per       *)
(* DashHandler, picks one to play and preloads from it (browserclient.cpp, *)
(* dashhandler.cpp).                                                       *)
(*                                                                         *)
(* A file is a record: age and, per adaptation set, timescale, duration    *)
(* and startNumber are what its attributes say, NaN when one is missing;   *)
(* depth and period are ISO durations.  The four requests that describe    *)
(* one representation are one record of the queue: nothing comes between.  *)
(***************************************************************************)
EXTENDS Integers, Sequences, SequencesExt

CONSTANTS
  Manifests,   \* the files pages may ask for
  NaN,         \* what is missing, "undefined" or not a number
  Numbered,    \* the templates of a segment's address that hold "$Number$"
  Wide,        \* values of an unsigned long, scaled down from 2^64
  MaxAsked     \* bound: manifests asked for, and videos played

ASSUME NaNAssumption == NaN \notin Int \cup Manifests

ASSUME WideAssumption == Wide \in Nat \ {0}

\* A file's elements are lists, a representation has a bandwidth, which DASH
\* requires, attributes that are there are numbers of their kind, and a length of
\* segments fits the number that takes it.
ASSUME ManifestAssumption ==
  \A m \in Manifests :
    /\ m.age \in Int \cup {NaN}
    /\ \A groups \in {m.depth, m.period} : \A u \in DOMAIN groups : groups[u] \in Nat
    /\ m.sets \in Seq(Range(m.sets))
    /\ \A set \in Range(m.sets) :
         /\ set.reps \in Seq(Range(set.reps))
         /\ \A r \in Range(set.reps) : r.bandwidth \in Nat \ {0}
         /\ set.timescale \in (Nat \ {0}) \cup {NaN}
         /\ set.duration \in (1 .. Wide - 1) \cup {NaN}
         /\ set.startNumber \in Nat \cup {NaN}

\* A representation is an element of one set: its id tells it from the others.
ASSUME RepresentationAssumption ==
  \A m \in Manifests : \A i, j \in DOMAIN m.sets :
    i # j => Range(m.sets[i].reps) \cap Range(m.sets[j].reps) = {}

ASSUME AskedAssumption == MaxAsked \in Nat

VARIABLES
  inFlight,    \* the XMLHttpRequests without an answer, each <<number, file>>
  queue,       \* cefQuery requests on their way to the browser
  base,        \* baseUrl of both handlers: the file it comes from, or NaN
  streams,     \* DashHandler::streams of the video and of the audio handler
  crashed,     \* the browser died of an exception or a division by 0
  asked,       \* manifests asked for so far
  plays,       \* videos asked to play so far
  played,      \* history: the streams set_input chose last and what it preloads
  overtaken    \* history: a file was answered after another had been asked for

vars == <<inFlight, queue, base, streams, crashed, asked, plays, played, overtaken>>

Handlers == {"V", "A"}

-----------------------------------------------------------------------------
(***************************************************************************)
(* The page.                                                               *)
(***************************************************************************)
Seconds == [Y |-> 31536000, M |-> 2592000, D |-> 86400, TH |-> 3600, TM |-> 60, TS |-> 1]

\* ParseDuration: the groups that are there; none for a missing attribute.
ParseDuration(groups) ==
  LET Part(u) == IF u \in DOMAIN groups THEN groups[u] * Seconds[u] ELSE 0
  IN Part("Y") + Part("M") + Part("D") + Part("TH") + Part("TM") + Part("TS")

\* xmlToJson: one child of a name becomes an object, several become an array.
\* A loop over the keys of an object finds attributes, no adaptation sets.
xmlToJson(children) == IF Len(children) = 1 THEN <<>> ELSE children

\* getPrefixForMimeType: the set's type goes before the representation's.
getPrefixForMimeType(rep, set) ==
  LET type == IF set.type # NaN THEN set.type ELSE rep.type
  IN CASE type = "video" -> "V" [] type = "audio" -> "A" [] OTHER -> NaN

\* getMediaInit: the representation's template goes before the set's; only the
\* media has its $RepresentationID$ replaced.
getMediaInit(rep, set) ==
  LET st == IF rep.template = NaN THEN set.template ELSE rep.template
  IN [media |-> <<st, rep.id>>, init |-> st]

\* The numbers of a set's segments now, with floors of fractions of seconds:
\* a segment lasts set.duration / set.timescale seconds.  One attribute that is
\* missing makes a NaN in the message of the duration and the numbers.
Numbers(m, set) ==
  IF NaN \in {m.age, set.timescale, set.duration, set.startNumber}
  THEN [duration |-> NaN, first |-> NaN, last |-> NaN, start |-> NaN]
  ELSE LET Segments(time) == (time * set.timescale) \div set.duration
           last == Segments(m.age) + set.startNumber - 1
       IN [duration |-> set.duration \div set.timescale,
           first |-> set.startNumber + Segments(m.age - ParseDuration(m.depth)),
           last |-> last,
           start |-> last - 1 + Segments(-ParseDuration(m.period))]

\* The number of the newest segment fits the number that takes it.
ASSUME NumbersAssumption ==
  \A m \in Manifests : \A set \in Range(m.sets) :
    LET last == Numbers(m, set).last IN last = NaN \/ last < Wide

\* Mutant of Described: the representations are counted per adaptation set.
DescribedPerSet(m) ==
  LET Of(set) == [k \in DOMAIN set.reps |->
        [kind |-> "REP", of |-> m, rep |-> set.reps[k], idx |-> k - 1,
         prefix |-> getPrefixForMimeType(set.reps[k], set),
         numbers |-> Numbers(m, set), urls |-> getMediaInit(set.reps[k], set)]]
      sets == xmlToJson(m.sets)
  IN FlattenSeq([i \in DOMAIN sets |-> Of(sets[i])])

\* The adaptation sets the loop gets to: one without a SegmentTemplate of its
\* own ends it with a TypeError.
SetsDescribed(m) ==
  LET sets == xmlToJson(m.sets)
  IN Max({n \in 0 .. Len(sets) : \A i \in 1 .. n : sets[i].template # NaN})

\* The requests of one adaptation set, not numbered yet.
RepsOfSet(m, set) ==
  [k \in DOMAIN set.reps |->
     [kind |-> "REP", of |-> m, rep |-> set.reps[k], idx |-> 0,
      prefix |-> getPrefixForMimeType(set.reps[k], set),
      numbers |-> Numbers(m, set), urls |-> getMediaInit(set.reps[k], set)]]

\* The loop over adaptation sets and representations, with one running number.
Described(m) ==
  LET all == FlattenSeq([i \in 1 .. SetsDescribed(m) |-> RepsOfSet(m, m.sets[i])])
  IN [j \in DOMAIN all |-> [all[j] EXCEPT !.idx = j - 1]]

\* GetAndParseMpd: the request; OipfAVControlMapper has CLEAR_DASH sent before.
Ask(m) ==
  /\ asked < MaxAsked
  /\ asked' = asked + 1
  /\ queue' = Append(queue, [kind |-> "CLEAR"])
  /\ inFlight' = inFlight \cup {<<asked + 1, m>>}
  /\ UNCHANGED <<base, streams, crashed, plays, played, overtaken>>

\* Its 'load' event: BA first, then what there is to describe.
Answer ==
  /\ \E r \in inFlight :
       /\ inFlight' = inFlight \ {r}
       /\ queue' = queue \o <<[kind |-> "BA", of |-> r[2]]>> \o Described(r[2])
       /\ overtaken' = (overtaken \/ r[1] # asked)
  /\ UNCHANGED <<base, streams, crashed, asked, plays, played>>

\* A status that is not 2xx, and a page that is left, describe nothing.
AnswerFails ==
  /\ \E r \in inFlight : inFlight' = inFlight \ {r}
  /\ UNCHANGED <<queue, base, streams, crashed, asked, plays, played, overtaken>>

\* VIDEO_URL: an object of another type is given the URL of the manifest.
AskToPlay ==
  /\ plays < MaxAsked
  /\ plays' = plays + 1
  /\ queue' = Append(queue, [kind |-> "PLAY"])
  /\ UNCHANGED <<inFlight, base, streams, crashed, asked, played, overtaken>>

-----------------------------------------------------------------------------
(***************************************************************************)
(* The browser.                                                            *)
(***************************************************************************)
\* A DashStream of GetStream: all fields 0.
NewStream(idx) == [idx |-> idx, of |-> NaN, rep |-> NaN, bandwidth |-> 0, duration |-> 0,
                   first |-> 0, last |-> 0, start |-> 0, segmentUrl |-> <<NaN, NaN>>]

\* GetStream: the stream with this index, which is made when there is none.
GetStream(table, idx) ==
  IF \E i \in DOMAIN table : table[i].idx = idx THEN table ELSE Append(table, NewStream(idx))

\* What it returns: the first stream with this index.
GetStreamOf(table, idx) ==
  table[CHOOSE i \in DOMAIN table : table[i].idx = idx /\ \A j \in 1 .. i - 1 : table[j].idx # idx]

Took(kind) == /\ ~crashed
              /\ queue # <<>> /\ Head(queue).kind = kind
              /\ queue' = Tail(queue)
              /\ UNCHANGED <<inFlight, asked, plays, overtaken>>

\* Mutant of HandleClear: the streams stay.
HandleClearBase == /\ Took("CLEAR")
                   /\ base' = NaN
                   /\ UNCHANGED <<streams, crashed, played>>

\* CLEAR_DASH, ClearAll of both handlers.
HandleClear == /\ Took("CLEAR")
               /\ base' = NaN
               /\ streams' = [h \in Handlers |-> <<>>]
               /\ UNCHANGED <<crashed, played>>

\* DASH:BA:0: is not V, so that the audio handler gets a stream 0.
HandleBase == /\ Took("BA")
              /\ base' = Head(queue).of
              /\ streams' = [streams EXCEPT !["A"] = GetStream(@, 0)]
              /\ UNCHANGED <<crashed, played>>

\* stoul takes the integer part, and a negative number modulo 2^64.
Stoul(n) == n % Wide

\* What the four requests of a representation leave of a stream.
StreamOf(q) ==
  LET n == q.numbers
  IN [idx |-> q.idx, of |-> q.of, rep |-> q.rep, bandwidth |-> q.rep.bandwidth,
      duration |-> Stoul(n.duration), first |-> Stoul(n.first), last |-> Stoul(n.last),
      start |-> Stoul(n.start), segmentUrl |-> q.urls.media]

\* DASH:VC, VD, VI and VM, or AC ...  Of a prefix that is undefined stoi, and
\* of NaN stoul, makes an exception nobody catches.
HandleRep ==
  /\ Took("REP")
  /\ LET q == Head(queue)
         Describe(table) == [i \in DOMAIN table |-> IF table[i].idx = q.idx THEN StreamOf(q) ELSE table[i]]
     IN IF q.prefix = NaN \/ q.numbers.duration = NaN
        THEN /\ crashed' = TRUE
             /\ UNCHANGED streams
        ELSE /\ streams' = [streams EXCEPT ![q.prefix] = Describe(GetStream(@, q.idx))]
             /\ UNCHANGED crashed
  /\ UNCHANGED <<base, played>>

\* Mutant of GetBestStream: the first of the list, described or not.
GetFirstStream(table) == IF table = <<>> THEN -1 ELSE table[1].idx

\* GetBestStream: the first with the highest bandwidth above 0.
GetBestStream(table) ==
  LET Best(i) == /\ table[i].bandwidth > 0
                 /\ \A j \in DOMAIN table : \/ table[j].bandwidth < table[i].bandwidth
                                            \/ table[j].bandwidth = table[i].bandwidth /\ i <= j
  IN IF \E i \in DOMAIN table : Best(i) THEN table[CHOOSE i \in DOMAIN table : Best(i)].idx ELSE -1

\* Mutant of Preload: a live stream is not looked back into.
PreloadAhead(s) ==
  IF (s.last - s.start) % Wide < 60 \div s.duration + 1
  THEN [from |-> s.start, count |-> ((s.last - s.start) % Wide) + 5]
  ELSE [from |-> s.start, count |-> 60 \div s.duration + 1]

\* InitLoadThread: where loading starts and how many segments come first.
Preload(s) ==
  LET available == (s.last - s.start) % Wide
      desired == 60 \div s.duration + 1
  IN IF available < desired
     THEN [from |-> (s.start - 10) % Wide, count |-> available + 5]
     ELSE [from |-> s.start, count |-> desired]

\* GetNextUrl: the number takes the place of "$Number$", and without that
\* literal (with "$Number%05d$", say) replace() throws an exception nobody catches.
HasNextUrl(s) == s.segmentUrl[1] \in Numbered

\* set_input of a manifest: both handlers, a stream of duration 0 divides by 0;
\* at least one segment is preloaded.
HandlePlay ==
  /\ Took("PLAY")
  /\ LET table == [h \in Handlers |-> GetStream(streams[h], GetBestStream(streams[h]))]
         Chosen(h) == GetStreamOf(table[h], GetBestStream(streams[h]))
     IN /\ streams' = table
        /\ IF \E h \in Handlers : Chosen(h).duration = 0 \/ ~HasNextUrl(Chosen(h))
           THEN crashed' = TRUE /\ UNCHANGED played
           ELSE /\ played' = [h \in Handlers |->
                                [stream |-> Chosen(h), of |-> base, load |-> Preload(Chosen(h))]]
                /\ UNCHANGED crashed
  /\ UNCHANGED base

-----------------------------------------------------------------------------
Init ==
  /\ inFlight = {} /\ queue = <<>>
  /\ base = NaN /\ streams = [h \in Handlers |-> <<>>]
  /\ crashed = FALSE
  /\ asked = 0 /\ plays = 0 /\ overtaken = FALSE
  /\ played = <<>>

Page == (\E m \in Manifests : Ask(m)) \/ Answer \/ AnswerFails \/ AskToPlay
Browser == HandleClear \/ HandleBase \/ HandleRep \/ HandlePlay
Next == Page \/ Browser

Spec == Init /\ [][Next]_vars

-----------------------------------------------------------------------------
Filled(h) == {streams[h][i] : i \in {j \in DOMAIN streams[h] : streams[h][j].of # NaN}}

\* The two tables never mix files: every representation the handlers know is
\* of the file baseUrl was set from.  Answers that were overtaken by the next
\* request are described all the same, after its CLEAR_DASH, and do mix.
OneManifest == ~overtaken => \A h \in Handlers : \A s \in Filled(h) : s.of = base

RepsOf(m, h) ==
  {r \in UNION {Range(m.sets[i].reps) : i \in DOMAIN m.sets} :
     \E i \in DOMAIN m.sets : /\ r \in Range(m.sets[i].reps)
                              /\ getPrefixForMimeType(r, m.sets[i]) = h}

\* What is played is the representation with the highest bandwidth of the whole
\* file, whatever adaptation set it is in, although one running number indexes
\* both tables and BA puts an empty stream 0 into one of them; if the page gets
\* to the end of the file, that is.
PlaysBest ==
  (played # <<>> /\ ~overtaken) =>
    \A h \in Handlers : LET p == played[h] IN
      SetsDescribed(p.of) = Len(p.of.sets) =>
      /\ p.stream.rep \in RepsOf(p.of, h)
      /\ \A r \in RepsOf(p.of, h) : r.bandwidth <= p.stream.rep.bandwidth

SetOf(p) == LET sets == p.stream.of.sets
            IN sets[CHOOSE i \in DOMAIN sets : p.stream.rep \in Range(sets[i].reps)]

\* Segment n is on the server: it has been complete for less than the time
\* shift buffer is long.
OnServer(m, set, n) ==
  LET begins == (n - set.startNumber) * set.duration
  IN /\ begins >= 0
     /\ begins + set.duration <= (m.age - ParseDuration(m.period)) * set.timescale
     /\ begins + set.duration > (m.age - ParseDuration(m.depth)) * set.timescale

\* Every segment that is preloaded exists, when the period starts with the
\* stream and the buffer, and the stream, are older than the twelve segments
\* InitLoadThread looks back: below that its "startSegment - 10" leaves the
\* buffer, or the numbers of an unsigned long.  The clock stands still between
\* the answer, which the numbers are computed from, and the play; a page that
\* plays later asks for older segments by as much.
PreloadExists ==
  (played # <<>>) =>
    \A h \in Handlers :
      LET p == played[h]
          m == p.stream.of
          set == SetOf(p)
          Old(time) == time * set.timescale >= 13 * set.duration
      IN (ParseDuration(m.period) = 0 /\ Old(m.age) /\ Old(ParseDuration(m.depth))) =>
           \A n \in p.load.from .. p.load.from + p.load.count - 1 : OnServer(m, set, n)

\* A file with a live stream's clock, a SegmentTemplate in every set with its
\* numbers, segments of at least a second, addresses with the literal "$Number$",
\* and nothing but video and audio.
Regular(m) ==
  /\ m.age # NaN
  /\ \A i \in DOMAIN m.sets : LET set == m.sets[i] IN
       /\ NaN \notin {set.template, set.timescale, set.duration, set.startNumber}
       /\ set.duration >= set.timescale
       /\ \A r \in Range(set.reps) : /\ getPrefixForMimeType(r, set) # NaN
                                     /\ getMediaInit(r, set).media[1] \in Numbered

\* Regular files end the browser in no order of requests and answers but one:
\* playing before a video and an audio stream are described.  Other files do:
\* subtitles (stoi of "undefined"), no availabilityStartTime, or no timescale,
\* duration or startNumber, which DASH leaves out for 1 (stoul of "NaN"),
\* segments of less than a second (a division by 0), a template with a width
\* for its number or with its time instead (replace of what is not there).
RegularFilesPlay ==
  [][(crashed' /\ ~crashed) =>
       LET q == Head(queue) IN
         \/ q.kind = "REP" /\ ~Regular(q.of)
         \/ q.kind = "PLAY" /\ \E h \in Handlers :
              Filled(h) = {} \/ \E s \in Filled(h) : ~Regular(s.of)]_vars
=============================================================================
