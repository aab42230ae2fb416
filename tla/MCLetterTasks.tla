--------------------------- MODULE MCLetterTasks ---------------------------
(***************************************************************************)
(* Small instances of LetterTasks for TLC.                                 *)
(***************************************************************************)
EXTENDS LetterTasks

CONSTANTS abroad, long, plain, bulky, trial, annex

CleanPage == [a4 |-> TRUE, ink |-> "inside", box |-> << >>]
StripPage == [a4 |-> TRUE, ink |-> "address_strip", box |-> << >>]
GoodAddress == [faults |-> {}, last_line |-> "postcode"]
ForeignAddress == [faults |-> {}, last_line |-> "country"]

(* The page limit is 2: "long" has one page too many, and so has "bulky"   *)
(* with its attachment, where "plain" has as many as it may; "abroad"      *)
(* passes only when letters may go abroad, and "trial" has a test key.     *)
MCDoc ==
  [id \in Uploaded |->
     CASE id = abroad -> [readable |-> TRUE, pages |-> <<CleanPage, StripPage>>,
                          address |-> ForeignAddress]
       [] id = long   -> [readable |-> TRUE, address |-> GoodAddress,
                          pages |-> <<CleanPage, CleanPage, CleanPage>>]
       [] id = annex  -> [readable |-> TRUE, pages |-> <<StripPage>>,
                          address |-> GoodAddress]]

NameOf == [id \in {abroad, long, plain, bulky, trial} |->
             CASE id = abroad -> "NOTIFY.ABROAD"
               [] id = long   -> "NOTIFY.LONG"
               [] id = plain  -> "NOTIFY.PLAIN"
               [] id = bulky  -> "NOTIFY.BULKY"
               [] id = trial  -> "NOTIFY.TRIAL"]

MCFilename ==
  [id \in Letter |-> IF id \in {plain, bulky} THEN <<"2018-01-13", NameOf[id]>>
                     ELSE <<NameOf[id]>>]
MCFileLocation == [id \in PrecompiledLetter |-> <<"2018-01-14", NameOf[id]>>]
MCKeyType ==
  [id \in TemplatedLetter |-> IF id = trial THEN "test" ELSE "normal"]
MCRenderedPages == [id \in TemplatedLetter |-> IF id = bulky THEN 2 ELSE 1]
MCAttachmentOf == [id \in TemplatedLetter |-> IF id = trial THEN NULL ELSE annex]
MCService == [a \in Attachment |-> "service"]

SanitiseJob(id, allow) ==
  [task |-> SanitiseTask, id |-> id, allow_international |-> allow]
RecreateJob(id, allow) ==
  [task |-> RecreateLetterTask, id |-> id, allow_international |-> allow]
CreateJob(id) ==
  [task |-> CreateTask, id |-> id, allow_international |-> FALSE]
RecreateAttachmentJob(a) ==
  [task |-> RecreateAttachmentTask, id |-> a, allow_international |-> FALSE]

(* A letter for abroad, its recreation under either setting, and a letter  *)
(* that fails, whose recreation the API must not come to ask for.          *)
PrecompiledRequests ==
  {SanitiseJob(abroad, TRUE), RecreateJob(abroad, TRUE),
   RecreateJob(abroad, FALSE), SanitiseJob(long, TRUE), RecreateJob(long, TRUE)}
TemplatedRequests ==
  {CreateJob(id) : id \in TemplatedLetter}
    \cup {RecreateAttachmentJob(a) : a \in Attachment}

===========================================================================
