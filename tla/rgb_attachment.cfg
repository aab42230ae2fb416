SPECIFICATION Spec
CONSTANTS
  NULL = NULL
  LETTER_MAX_PAGE_COUNT = 2
  Uploads <- MCUploads
INVARIANTS AttachmentsAreInCMYK
CHECK_DEADLOCK FALSE
