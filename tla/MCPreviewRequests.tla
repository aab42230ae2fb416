------------------------- MODULE MCPreviewRequests -------------------------
(***************************************************************************)
(* Letters of one and two pages in each language, with and without an      *)
(* attachment of one page that the database and the bucket agree about or  *)
(* not.  The page limit is 3.                                              *)
(***************************************************************************)
EXTENDS PreviewRequests

CONSTANT word    \* a page argument that is no number

MCRendering == {[whole |-> 1, continued |-> 1], [whole |-> 2, continued |-> 1],
                [whole |-> 2, continued |-> 2]}

MCLetters ==
  [welsh_then_english : BOOLEAN, welsh : MCRendering, english : MCRendering,
   letter_attachment :
     [page_count : {1}, pages : {1, 2, NULL}] \cup {NULL}]

MCPageArgs == (-3 .. 4) \cup {word}

=============================================================================
