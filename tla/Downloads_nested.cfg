SPECIFICATION Downloading
CONSTANT NoValue = NoValue
INVARIANTS
  DownloadedIsThere
CHECK_DEADLOCK FALSE
