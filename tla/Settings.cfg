SPECIFICATION SettingsSpec
CONSTANTS
  Word = 1000000
  Numbers = {0, 1, 7, 187, 188, 189, 1316, 65424, 65425, 65612, 1000000, 1000007}
  Starts = {0, 999, 1000, 59999, 60000, 3599999, 3600000, 359999999, 360000000}
  MaxLines = 2
  MaxOutput = 4
INVARIANTS WholePackets CopiesWhatVdrPlays ForcedTranscoding StartsWhereAsked
CHECK_DEADLOCK FALSE
