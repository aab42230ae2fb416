SPECIFICATION Spec
CONSTANTS
  NULL = NULL
  LETTER_MAX_PAGE_COUNT = 2
  Uploads <- MCUploads
INVARIANTS TypeOK MeetsContract PassesIffPrintable NothingCutOff PassedIsReady RGBIsExplained
CHECK_DEADLOCK FALSE
