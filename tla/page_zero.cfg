SPECIFICATION Spec
CONSTANTS
  NULL = NULL
  word = word
  Letters <- MCLetters
  Scans = {1, 2}
  PageArgs <- MCPageArgs
  LETTER_MAX_PAGE_COUNT = 3
INVARIANT OnlyPagesThereAre
