SPECIFICATION Spec
CONSTANTS
  NULL = NULL
  abroad = abroad
  long = long
  plain = plain
  bulky = bulky
  trial = trial
  annex = annex
  LETTER_MAX_PAGE_COUNT = 2
  Worker = {w1, w2}
  PrecompiledLetter = {}
  TemplatedLetter = {bulky}
  Attachment = {annex}
  Doc <- MCDoc
  Filename <- MCFilename
  FileLocation <- MCFileLocation
  KeyType <- MCKeyType
  RenderedPages <- MCRenderedPages
  AttachmentOf <- MCAttachmentOf
  Service <- MCService
  Requests <- TemplatedRequests
  MaxRetries = 3
  MaxRedeliveries = 0
INVARIANTS RunOnce OnlyPrintableLetters
PROPERTIES RunsEnd EveryJobEnds ImplementsDelivery
CHECK_DEADLOCK FALSE
