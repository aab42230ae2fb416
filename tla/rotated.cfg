SPECIFICATION MCSpec
CONSTANTS
  NULL = NULL
  LETTER_MAX_PAGE_COUNT = 2
  Sheets <- MCSheets
  Dots <- MCDots
  MAX_LINES = 7
INVARIANT MarginsKept
