------------------------- MODULE TranscodeSettings -------------------------
(***************************************************************************)
(* How a TranscodeFFmpeg object comes to the ffmpeg command it runs        *)
(* (transcodeffmpeg.cpp): the constructor reads vdr-osr-ffmpeg.config line *)
(* by line, set_input asks ffprobe what the video is, fork_ffmpeg builds   *)
(* the command.  The initial states and the steps are SettingsInit and     *)
(* SettingsNext, so that TranscodeProofs can extend this module and        *)
(* VideoControl, which is about the same file.                             *)
(***************************************************************************)
EXTENDS Integers

CONSTANTS
  Word,       \* values of a uint32_t; TLC's integers leave room for less than 2^32
  Numbers,    \* what the numbers in the configuration file say
  Starts,     \* positions, in ms, the page asks for
  MaxLines,   \* bound: lines of the configuration file
  MaxOutput   \* bound: lines ffprobe prints

ASSUME WordAssumption == Word \in Nat /\ Word > 65424
ASSUME NumbersAssumption == Numbers \subseteq Nat
ASSUME StartsAssumption == Starts \subseteq Nat
ASSUME LinesAssumption == MaxLines \in Nat /\ MaxOutput \in Nat

VARIABLES
  phase,         \* "config", "ffprobe", "ready" and "started"; or "failed", "refused"
  lines,         \* lines read in this phase
  protocol,      \* TranscodeFFmpeg::protocol
  packetSize,    \* udp_packet_size
  bufferSize,    \* udp_buffer_size
  always,        \* alwaysEncodeVideo and alwaysEncodeAudio, as a set
  isDash,        \* the input is a DASH manifest
  copying,       \* copy_video and copy_audio, as a set
  due,           \* what ffprobe prints next: a stream's "codec" or "duration"
  known,         \* the duration is not 0
  reported,      \* history: the codecs ffprobe reported
  noisy,         \* history: ffprobe printed an error message
  asked,         \* history: where the page wants the video to go on, in ms
  resumed,       \* history: it asked so with RESUME_VIDEO
  ffmpeg         \* the command of the ffmpeg that runs

configVars == <<protocol, packetSize, bufferSize, always>>
probeVars  == <<isDash, copying, due, known, reported, noisy>>
runVars    == <<asked, resumed, ffmpeg>>
settingsVars == <<phase, lines, configVars, probeVars, runVars>>

Kinds == {"video", "audio"}
Protocols == {"UDP", "TCP", "UNIX"}
NotRunning == [video |-> "none", audio |-> "none", start |-> <<0, 0, 0, 0>>, output |-> <<"none">>]

-----------------------------------------------------------------------------
(***************************************************************************)
(* The numbers.                                                            *)
(***************************************************************************)
\* The value of strtoul, an unsigned long, in a uint32_t.
ToUint(n) == n % Word

\* Mutant of PacketSize: small values are not counted in packets of 188 bytes.
PacketSizeAsIs(n) == IF n > 65424 THEN 1316 ELSE n

\* udp_packet_size: below 188 it counts packets; out of range, and what is no
\* multiple of 188, becomes 1316.
PacketSize(n) ==
  LET size == IF n \in 1 .. 187 THEN 188 * n ELSE IF n > 65424 THEN 1316 ELSE n
  IN IF size % 188 # 0 THEN 1316 ELSE size

\* Mutant of TimeOf: the minutes are those since the start.
TimeOfLong(ms) == <<ms \div 3600000, ms \div 60000, (ms \div 1000) % 60, ms % 1000>>

\* ms_to_ffmpeg_time: hours, minutes, seconds and milliseconds.
TimeOf(ms) ==
  LET s == ms \div 1000
      hours == s \div 3600
  IN <<hours, (s - hours * 3600) \div 60, s % 60, ms % 1000>>

-----------------------------------------------------------------------------
\* BrowserClient's constructor has set vproto, and TranscodeFFmpeg's leaves
\* copy_video and copy_audio as they are in memory.
SettingsInit ==
  /\ phase = "config" /\ lines = 0
  /\ protocol \in Protocols
  /\ packetSize = 1316 /\ bufferSize = 31960
  /\ always = {}
  /\ isDash = FALSE /\ copying \in SUBSET Kinds
  /\ due = "codec" /\ known = FALSE
  /\ reported = {} /\ noisy = FALSE
  /\ asked = 0 /\ resumed = FALSE /\ ffmpeg = NotRunning

-----------------------------------------------------------------------------
(***************************************************************************)
(* read_configuration: a later line overrides an earlier one.              *)
(***************************************************************************)
ConfigLine == /\ phase = "config"
              /\ lines < MaxLines
              /\ lines' = lines + 1

ReadPacketSize ==
  /\ ConfigLine
  /\ \E n \in Numbers : packetSize' = PacketSize(ToUint(n))
  /\ UNCHANGED <<phase, protocol, bufferSize, always, probeVars, runVars>>

\* The test for ULONG_MAX is made on the uint32_t and never holds.
ReadBufferSize ==
  /\ ConfigLine
  /\ \E n \in Numbers : bufferSize' = ToUint(n)
  /\ UNCHANGED <<phase, protocol, packetSize, always, probeVars, runVars>>

\* Only TCP and UDP are known; anything else leaves the protocol.
ReadTransport ==
  /\ ConfigLine
  /\ \E t \in {"TCP", "UDP", "other"} : protocol' = IF t = "other" THEN protocol ELSE t
  /\ UNCHANGED <<phase, packetSize, bufferSize, always, probeVars, runVars>>

ReadAlwaysEncode ==
  /\ ConfigLine
  /\ \E k \in Kinds : \/ always' = always \cup {k}
                      \/ always' = always \ {k}
  /\ UNCHANGED <<phase, protocol, packetSize, bufferSize, probeVars, runVars>>

-----------------------------------------------------------------------------
(***************************************************************************)
(* set_input: a manifest is taken as it is; of anything else ffprobe       *)
(* prints, for each stream, a line with the codec and one with the         *)
(* duration.  Its error messages come through the same pipe, and which     *)
(* line is a codec is decided by counting.                                 *)
(***************************************************************************)
SetInputDash ==
  /\ phase = "config"
  /\ phase' = "ready"
  /\ isDash' = TRUE
  /\ known' = TRUE
  /\ UNCHANGED <<lines, configVars, copying, due, reported, noisy, runVars>>

\* client://movie/fail is refused before any field is set.
RefuseInput ==
  /\ phase = "config"
  /\ phase' = "refused"
  /\ isDash' \in BOOLEAN
  /\ UNCHANGED <<lines, configVars, copying, due, known, reported, noisy, runVars>>

StartFfprobe ==
  /\ phase = "config"
  /\ phase' = "ffprobe"
  /\ lines' = 0
  /\ copying' = {}
  /\ UNCHANGED <<configVars, isDash, due, known, reported, noisy, runVars>>

ProbeLine == /\ phase = "ffprobe"
             /\ lines < MaxOutput
             /\ lines' = lines + 1

\* idx % 2 == 0: the loop takes the line for a codec.
TakesAsCodec == lines % 2 = 0

\* Mutant of ProbeCodec: one codec is enough to copy everything.
ProbeCodecAny ==
  /\ ProbeLine
  /\ due = "codec"
  /\ due' = "duration"
  /\ \E k \in Kinds : /\ reported' = reported \cup {k}
                      /\ copying' = IF TakesAsCodec THEN Kinds ELSE copying
  /\ UNCHANGED <<phase, configVars, isDash, known, noisy, runVars>>

\* A stream's codec; h264 and aac can be copied.
ProbeCodec ==
  /\ ProbeLine
  /\ due = "codec"
  /\ due' = "duration"
  /\ \E k \in Kinds :
       \/ /\ reported' = reported \cup {k}
          /\ copying' = IF TakesAsCodec THEN copying \cup {k} ELSE copying
       \/ UNCHANGED <<reported, copying>>
  /\ UNCHANGED <<phase, configVars, isDash, known, noisy, runVars>>

\* A stream's duration: "N/A" stands for two hours, less than a second for 0.
ProbeDuration ==
  /\ ProbeLine
  /\ due = "duration"
  /\ due' = "codec"
  /\ IF TakesAsCodec THEN UNCHANGED known ELSE known' \in {known, TRUE}
  /\ UNCHANGED <<phase, configVars, isDash, copying, reported, noisy, runVars>>

\* An error message; at the place of a duration it reads as 0.
ProbeError ==
  /\ ProbeLine
  /\ noisy' = TRUE
  /\ UNCHANGED <<phase, configVars, isDash, copying, due, known, reported, runVars>>

ProbeEnds ==
  /\ phase = "ffprobe"
  /\ due = "codec"
  /\ phase' = IF known THEN "ready" ELSE "failed"
  /\ UNCHANGED <<lines, configVars, probeVars, runVars>>

-----------------------------------------------------------------------------
(***************************************************************************)
(* fork_ffmpeg: set_input ends with it, and seek_video and resume_video    *)
(* call it, also after an input that failed.  VideoControl tells when      *)
(* resume_video finds no ffmpeg; here there may always have been a pause.  *)
(***************************************************************************)
\* The sound of a DASH stream is always encoded.
Encoding(k) == IF k \in copying' /\ ~(isDash /\ k = "audio") THEN "copy" ELSE "encode"

Output == CASE protocol = "UDP"  -> <<"UDP", packetSize, bufferSize>>
            [] protocol = "TCP"  -> <<"TCP">>
            [] protocol = "UNIX" -> <<"UNIX">>

\* Mutant of BuildCommand: the configuration does not overrule ffprobe.
ForkUnforced(ms) ==
  /\ UNCHANGED copying
  /\ ffmpeg' = [video |-> Encoding("video"), audio |-> Encoding("audio"),
                start |-> TimeOf(ms), output |-> Output]
  /\ UNCHANGED <<lines, configVars, isDash, due, known, reported, noisy>>

BuildCommand(ms) ==
  /\ copying' = copying \ always
  /\ ffmpeg' = [video |-> Encoding("video"), audio |-> Encoding("audio"),
                start |-> TimeOf(ms), output |-> Output]
  /\ UNCHANGED <<lines, configVars, isDash, due, known, reported, noisy>>

\* The last step of set_input.
ForkAtInput ==
  /\ phase = "ready" /\ phase' = "started"
  /\ asked' = 0 /\ resumed' = FALSE
  /\ BuildCommand(0)

\* The input is set, or was given up; the page's next request finds the object.
Settled == phase \in {"started", "failed", "refused"}

\* SEEK_VIDEO carries milliseconds.
ForkAtSeek ==
  /\ Settled /\ UNCHANGED phase
  /\ \E ms \in Starts : asked' = ms /\ BuildCommand(ms)
  /\ resumed' = FALSE

\* RESUME_VIDEO carries the video element's currentTime, seconds with a fraction;
\* strtol stops reading at the point.
ForkAtResume ==
  /\ Settled /\ UNCHANGED phase
  /\ \E ms \in Starts : asked' = ms /\ BuildCommand((ms \div 1000) * 1000)
  /\ resumed' = TRUE

-----------------------------------------------------------------------------
Config == ReadPacketSize \/ ReadBufferSize \/ ReadTransport \/ ReadAlwaysEncode
ProbeInput == \/ SetInputDash \/ RefuseInput \/ StartFfprobe
            \/ ProbeCodec \/ ProbeDuration \/ ProbeError \/ ProbeEnds

Forks == ForkAtInput \/ ForkAtSeek \/ ForkAtResume

SettingsNext == Config \/ ProbeInput \/ Forks

SettingsSpec == SettingsInit /\ [][SettingsNext]_settingsVars

-----------------------------------------------------------------------------
Runs == ffmpeg # NotRunning

SettingsTypeOK ==
  /\ phase \in {"config", "ffprobe", "ready", "started", "failed", "refused"}
  /\ lines \in 0 .. MaxLines \cup 0 .. MaxOutput
  /\ protocol \in Protocols
  /\ packetSize \in 0 .. Word - 1
  /\ bufferSize \in 0 .. Word - 1
  /\ always \subseteq Kinds
  /\ isDash \in BOOLEAN
  /\ copying \subseteq Kinds
  /\ due \in {"codec", "duration"}
  /\ known \in BOOLEAN
  /\ reported \subseteq Kinds
  /\ noisy \in BOOLEAN
  /\ asked \in {0} \cup Starts
  /\ resumed \in BOOLEAN
  /\ DOMAIN ffmpeg = DOMAIN NotRunning

\* Whole MPEG-TS packets of 188 bytes, as many as the documentation allows, or 0.
Whole(size) == size % 188 = 0 /\ (size = 0 \/ (188 <= size /\ size <= 65424))

\* Whatever the file says, and in whatever order, ffmpeg sends whole MPEG-TS
\* packets of 188 bytes, and as many as vdr-osr-ffmpeg.config.sample:33 allows,
\* "Minimum is 188, Maximum is 65424"; only 0, which a word that is no number
\* becomes, slips through and is handed on.
WholePackets ==
  (Runs /\ ffmpeg.output[1] = "UDP") => Whole(ffmpeg.output[2])

\* What ffprobe, when it was asked, did not report as h264 or aac is never copied to VDR, which
\* plays nothing else; and without error messages in between, what it did
\* report is copied unless the file forces transcoding.
CopiesWhatVdrPlays ==
  (Runs /\ phase \in {"started", "failed"} /\ ~isDash) =>
    \A k \in Kinds : /\ ffmpeg[k] = "copy" => k \in reported \ always
                     /\ k \in reported \ always /\ ~noisy => ffmpeg[k] = "copy"

\* A DASH stream, whose copy flags nobody sets, is transcoded when the file
\* forces it; its sound is transcoded in any case.
ForcedTranscoding ==
  Runs => /\ \A k \in always : ffmpeg[k] = "encode"
          /\ isDash => ffmpeg.audio = "encode"

\* A new input starts at 0 and a seek at the very millisecond the page asked
\* for, hours, minutes and seconds in range; a resume never after the position it
\* had reached, and, as its fraction of a second is lost, less than a second before.
StartsWhereAsked ==
  Runs => LET t == ffmpeg.start
              at == ((t[1] * 60 + t[2]) * 60 + t[3]) * 1000 + t[4]
          IN /\ t[2] < 60 /\ t[3] < 60 /\ t[4] < 1000
             /\ IF resumed THEN at <= asked /\ asked < at + 1000 ELSE at = asked
=============================================================================
