SPECIFICATION Spec
CONSTANTS
  NULL = NULL
  english = english
  annex = annex
  scan = scan
  Process = {p1, p2}
  Greenlet = {g1, g2}
  Html = {english}
  Attachment = {annex}
  Scan = {scan}
  Requests <- MCRequests
  MaxVersion = 2
  MaxSize = 1
SYMMETRY Symmetry
INVARIANTS TypeOK CacheSound LruSound
PROPERTIES ServiceSpec MakesProgress
