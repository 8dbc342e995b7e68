SPECIFICATION Spec
CONSTANTS
  tVideo = tVideo
  tAudio = tAudio
  tOwn = tOwn
  tPadded = tPadded
  Numbered = {tVideo, tAudio, tOwn}
  NaN = NaN
  Wide = 100000
  MaxAsked = 2
  Manifests <- AllOfThem
INVARIANTS OneManifest PlaysBest PreloadExists
PROPERTIES RegularFilesPlay
CHECK_DEADLOCK FALSE
