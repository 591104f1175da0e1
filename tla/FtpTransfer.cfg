SPECIFICATION Spec
CONSTANTS
  NoFile = NoFile
  Length = 3
  OldLengths = {1, 3, 4}
  Tries = 3
  Libcurls = {TRUE, FALSE}
  ReadsFail = TRUE
  MaxCrashes = 2
INVARIANTS
  ResumeInPlace
  DownloadInPlace
