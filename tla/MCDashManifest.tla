--------------------------- MODULE MCDashManifest ---------------------------
(***************************************************************************)
(* Nine files: a regular one with two video sets and segments of 3.84 s,   *)
(* the same just old enough to look back twelve segments, a younger one    *)
(* whose period starts after the stream, the same with                     *)
(* segments below a second, one without a clock (a static one) and with    *)
(* subtitles, one with a single adaptation set, one with a set that leaves *)
(* its template to its representations, one without a startNumber, one     *)
(* whose audio template gives its number a width.                          *)
(***************************************************************************)
EXTENDS DashManifest

CONSTANTS tVideo, tAudio, tOwn, tPadded

Rep(id, bandwidth) == [id |-> id, bandwidth |-> bandwidth, type |-> NaN, template |-> NaN]

VideoSet(reps) == [type |-> "video", template |-> tVideo, timescale |-> 25, duration |-> 96,
                   startNumber |-> 1, reps |-> reps]
AudioSet(reps) == [type |-> NaN, template |-> tAudio, timescale |-> 1, duration |-> 4,
                   startNumber |-> 1, reps |-> reps]
TextSet == [AudioSet(<<Rep("t1", 1)>>) EXCEPT !.type = "text"]

OwnType(rep) == [rep EXCEPT !.type = "audio", !.template = tOwn]

Live == [age |-> 3600, depth |-> [TM |-> 30, TS |-> 0], period |-> [TS |-> 0],
         sets |-> <<VideoSet(<<Rep("v1", 700), Rep("v2", 300)>>),
                    VideoSet(<<Rep("v3", 500)>>),
                    AudioSet(<<OwnType(Rep("a1", 64)), OwnType(Rep("a2", 64))>>)>>]

\* As young as PreloadExists allows.
Edge == [Live EXCEPT !.age = 52, !.depth = [TS |-> 52]]

Young == [Live EXCEPT !.age = 20, !.depth = [TS |-> 15], !.period = [TS |-> 10],
                      !.sets = <<VideoSet(<<Rep("y1", 900)>>), AudioSet(<<OwnType(Rep("y2", 32))>>)>>]

Static == [Live EXCEPT !.age = NaN, !.depth = <<>>, !.period = <<>>, !.sets = @ \o <<TextSet>>]

Single == [Live EXCEPT !.sets = <<VideoSet(<<Rep("s1", 800)>>)>>]

Short == [Young EXCEPT !.sets[1].duration = 24]

Partial == [Young EXCEPT !.sets = @ \o <<[VideoSet(<<Rep("p1", 950)>>) EXCEPT !.template = NaN]>>]

Plain == [Live EXCEPT !.sets[1].startNumber = NaN]

Padded == [Young EXCEPT !.sets[2].reps = <<[Rep("w1", 48) EXCEPT !.type = "audio", !.template = tPadded]>>]

AllOfThem == {Live, Edge, Young, Single, Static, Short, Partial, Plain, Padded}
=============================================================================
