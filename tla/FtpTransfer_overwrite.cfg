SPECIFICATION Spec
CONSTANTS
  NoFile = NoFile
  Length = 2
  OldLengths = {1}
  Tries = 3
  Libcurls = {FALSE}
  ReadsFail = FALSE
  MaxCrashes = 0
INVARIANTS
  UploadOverwrites
