--------------------------- MODULE MCPreviewCache ---------------------------
(***************************************************************************)
(* A small instance of PreviewCache for TLC: two greenlets, each of which  *)
(* works for either of two processes, so both for the same or one for each.*)
(***************************************************************************)
EXTENDS PreviewCache, TLC

CONSTANTS english, annex, scan

Shows(parts, page, hide_notify) ==
  [parts |-> parts, page |-> page, hide_notify |-> hide_notify]

(* The page of a letter with an attachment, and the page of a scan with    *)
(* its tag hidden.                                                         *)
MCRequests == {Shows(<<english, annex>>, 1, FALSE), Shows(<<scan>>, 1, TRUE)}

(* Neither processes nor greenlets differ from one another.                *)
Symmetry == Permutations(Process) \cup Permutations(Greenlet)

=============================================================================
