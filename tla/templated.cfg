SPECIFICATION Spec
CONSTANTS
  NULL = NULL
  abroad = abroad
  long = long
  plain = plain
  bulky = bulky
  trial = trial
  annex = annex
  LETTER_MAX_PAGE_COUNT = 2
  Worker = {w1, w2}
  PrecompiledLetter = {}
  TemplatedLetter = {plain, trial}
  Attachment = {annex}
  Doc <- MCDoc
  Filename <- MCFilename
  FileLocation <- MCFileLocation
  KeyType <- MCKeyType
  RenderedPages <- MCRenderedPages
  AttachmentOf <- MCAttachmentOf
  Service <- MCService
  Requests <- TemplatedRequests
  MaxRetries = 1
  MaxRedeliveries = 1
INVARIANTS StoredBeforeTold OnlyPrintableLetters NoSilentLoss Inv
PROPERTIES MadeStays
CHECK_DEADLOCK FALSE
