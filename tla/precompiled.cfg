SPECIFICATION Spec
CONSTANTS
  NULL = NULL
  abroad = abroad
  long = long
  plain = plain
  bulky = bulky
  trial = trial
  annex = annex
  LETTER_MAX_PAGE_COUNT = 2
  Worker = {w1, w2}
  PrecompiledLetter = {abroad, long}
  TemplatedLetter = {}
  Attachment = {}
  Doc <- MCDoc
  Filename <- MCFilename
  FileLocation <- MCFileLocation
  KeyType <- MCKeyType
  RenderedPages <- MCRenderedPages
  AttachmentOf <- MCAttachmentOf
  Service <- MCService
  Requests <- PrecompiledRequests
  MaxRetries = 0
  MaxRedeliveries = 1
INVARIANTS TypeOK StoredBeforeTold OnlyPrintableLetters VerdictsAgree NoSilentLoss RunOnce
  PassesAgain
PROPERTIES ImplementsDelivery MadeStays
CHECK_DEADLOCK FALSE
