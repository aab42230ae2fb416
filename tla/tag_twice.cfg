SPECIFICATION Spec
CONSTANTS
  NULL = NULL
  LETTER_MAX_PAGE_COUNT = 2
  Uploads <- MCUploads
INVARIANTS TagOnlyAddedWhenAbsent
CHECK_DEADLOCK FALSE
