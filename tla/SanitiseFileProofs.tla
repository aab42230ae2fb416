------------------------ MODULE SanitiseFileProofs ------------------------
(***************************************************************************)
(* Theorems about SanitiseFile, for every set of uploads and every page    *)
(* limit.                                                                  *)
(***************************************************************************)
EXTENDS SanitiseFile, SanitiseContractProofs

-----------------------------------------------------------------------------
(* The invariant: what is known of the upload and its file at each step.   *)

Letter == ~upload.is_an_attachment

(* The steps after the address of a letter has been read, and after it has *)
(* been written.                                                           *)
Rewriting == {"redact", "write_address"}
Finishing == {"cmyk", "rgb", "convert", "fonts", "embed", "tag_present",
              "add_tag", "return"}
ForLettersOnly == {"metadata", "address", "tag_present", "add_tag"} \cup Rewriting

(* The checks a run has made before a step, and their results.             *)
CheckedOK ==
  /\ pc \in Working \ {"count"} =>
       /\ UploadedDoc.readable
       /\ page_count = Len(UploadedDoc.pages)
       /\ ~IsLetterTooLong(Len(UploadedDoc.pages))
  /\ pc \in Working \ {"count", "size"} => WrongSizePages(UploadedDoc) = {}
  /\ pc \in Working \ {"count", "size", "bounds"} =>
       OutOfBoundsPages(UploadedDoc, upload.is_an_attachment) = {}
  /\ pc \in Working \ {"count", "size", "bounds", "tags"} =>
       PagesWithNotifyTag(UploadedDoc, upload.is_an_attachment) = {}
  /\ pc \in ForLettersOnly => Letter
  /\ pc \in Rewriting \cup Finishing /\ Letter =>
       Failures(AddressChecks(UploadedDoc.address,
                              upload.allow_international_letters)) = {}
  /\ pc = "add_tag" => UploadedDoc.pages[1].box # <<"NOTIFY">>
  /\ pc \in Working =>
       /\ recipient_address = IF Letter /\ pc \in Rewriting \cup Finishing
                              THEN UploadedDoc.address ELSE NULL
       /\ ~accident

(* The stream is whole, and at its start whenever somebody reads from its  *)
(* position.                                                               *)
StreamOK ==
  /\ file_data.pdf.whole
  /\ pc \in {"convert", "embed", "return"} => file_data.at_start

(* What has been done to the file.                                         *)
FileOK ==
  /\ pc \in Working =>
       (file_data.pdf.addressed <=> Letter /\ pc \in Finishing)
  /\ pc \in Working \ {"return"} => ~file_data.pdf.tag_added
  /\ pc = "return" =>
       IF Letter
       THEN file_data.pdf.tag_added <=> UploadedDoc.pages[1].box # <<"NOTIFY">>
       ELSE ~file_data.pdf.tag_added
  /\ pc \in {"fonts", "embed", "tag_present", "add_tag", "return"} =>
       "RGB" \notin file_data.pdf.images
  /\ pc \in {"tag_present", "add_tag", "return"} => ~file_data.pdf.unembedded

(* What was returned, and nothing before.                                  *)
ResultOK ==
  /\ pc # "done" => file = NULL
  /\ file # NULL => file.whole
  /\ MeetsContract
  /\ PassedIsReady

Inv == TypeOK /\ CheckedOK /\ StreamOK /\ FileOK /\ ResultOK

-----------------------------------------------------------------------------
LEMMA UploadTyped ==
  ASSUME TypeOK
  PROVE  /\ upload \in Upload /\ AsUploaded(upload.pdf)
         /\ UploadedDoc \in Document /\ UploadedDoc.address \in Address
         /\ Len(UploadedDoc.pages) \in Nat \ {0}
         /\ upload.is_an_attachment \in BOOLEAN
         /\ upload.allow_international_letters \in BOOLEAN
         /\ NULL \notin Pdf
<1>1. upload \in Upload /\ AsUploaded(upload.pdf) /\ NULL \notin Pdf
  BY UploadsAssumption DEF TypeOK
<1>2. UploadedDoc \in Document
  BY <1>1 DEF UploadedDoc, Upload, Pdf
<1>3. Len(UploadedDoc.pages) \in Nat \ {0}
  BY <1>2 DEF Document
<1> QED
  BY <1>1, <1>2, <1>3 DEF Upload, Document

LEMMA InitInv == ASSUME Init PROVE Inv
<1>1. upload \in Upload /\ AsUploaded(upload.pdf)
  BY UploadsAssumption DEF Init
<1>2. upload.pdf \in Pdf
  BY <1>1 DEF Upload
<1>3. TypeOK
  BY <1>2 DEF Init, TypeOK, Working, NewStream, Stream
<1>4. CheckedOK
  BY DEF Init, CheckedOK, Working, ForLettersOnly, Rewriting, Finishing
<1>5. StreamOK
  BY <1>1 DEF Init, StreamOK, NewStream, Stream, AsUploaded
<1>6. FileOK
  BY <1>1 DEF Init, FileOK, NewStream, Stream, AsUploaded, Working, Finishing
<1>7. ResultOK
  BY DEF Init, ResultOK, MeetsContract, PassedIsReady, Passed, Done
<1> QED
  BY <1>3, <1>4, <1>5, <1>6, <1>7 DEF Inv

(* A step that fails returns the message of the check and no file.         *)
LEMMA FailMeetsContract ==
  ASSUME TypeOK, UNCHANGED <<upload, accident>>, ~accident,
         NEW message \in Messages, NEW pages, Fail(message, pages),
         Verdict(UploadedDoc, upload.is_an_attachment,
                 upload.allow_international_letters)
           = Result(page_count', message, pages, NULL)
  PROVE  ResultOK' /\ pc' = "done" /\ file' = NULL
<1>1. pc' = "done" /\ file' = NULL
        /\ details' = Result(page_count', message, pages, NULL)
  BY DEF Fail, Return
<1>2. details'.message = message /\ message # NULL
  BY <1>1, NullAssumption DEF Result
<1>3. MeetsContract'
  BY <1>1, <1>2 DEF MeetsContract, UploadedDoc
<1>4. PassedIsReady'
  BY <1>2 DEF PassedIsReady, Passed
<1> QED
  BY <1>1, <1>3, <1>4 DEF ResultOK

(* A step that goes on has nothing to say of the result.                   *)
LEMMA GoOnResult ==
  ASSUME Inv, pc \in Working, NEW step \in Working, GoTo(step)
  PROVE  ResultOK' /\ pc' = step /\ UNCHANGED <<details, file>>
<1>1. pc' = step /\ UNCHANGED <<details, file>> /\ step # "done" /\ pc # "done"
  BY DEF GoTo, returned, Working
<1> QED
  BY <1>1 DEF Inv, ResultOK, MeetsContract, PassedIsReady, Passed, Done

(* After the end nothing is left to say but the types and the result.      *)
LEMMA EndInv ==
  ASSUME TypeOK', pc' = "done", file_data'.pdf.whole, ResultOK'
  PROVE  Inv'
<1>1. CheckedOK' /\ StreamOK' /\ FileOK'
  BY DEF CheckedOK, StreamOK, FileOK, Working, ForLettersOnly, Rewriting,
     Finishing
<1> QED
  BY <1>1 DEF Inv

(* A stream whose PDF stays the same.                                      *)
LEMMA SamePdf ==
  ASSUME Inv, NEW at_start \in BOOLEAN,
         file_data' = Stream(file_data.pdf, at_start)
  PROVE  /\ file_data' \in [pdf : Pdf, at_start : BOOLEAN]
         /\ file_data'.pdf = file_data.pdf /\ file_data'.at_start = at_start
         /\ file_data'.pdf.whole
BY DEF Inv, TypeOK, StreamOK, Stream

LEMMA ParsedPdf ==
  ASSUME Inv, Parsed
  PROVE  /\ file_data' \in [pdf : Pdf, at_start : BOOLEAN]
         /\ file_data'.pdf = file_data.pdf /\ file_data'.pdf.whole
BY SamePdf DEF Parsed

LEMMA RewoundPdf ==
  ASSUME Inv, Rewound
  PROVE  /\ file_data' \in [pdf : Pdf, at_start : BOOLEAN]
         /\ file_data'.pdf = file_data.pdf /\ file_data'.at_start
         /\ file_data'.pdf.whole
BY SamePdf DEF Rewound, NewStream

-----------------------------------------------------------------------------
(* The verdicts of the checks, one after the other.                        *)

LEMMA VerdictOfCheck ==
  ASSUME TypeOK, UploadedDoc.readable,
         NEW i \in DOMAIN Checks(UploadedDoc, upload.is_an_attachment,
                                 upload.allow_international_letters),
         NEW message, NEW pages,
         Checks(UploadedDoc, upload.is_an_attachment,
                upload.allow_international_letters)[i]
           = Check(message, pages, TRUE),
         \A j \in 1..(i - 1) :
           ~Checks(UploadedDoc, upload.is_an_attachment,
                   upload.allow_international_letters)[j].fails
  PROVE  Verdict(UploadedDoc, upload.is_an_attachment,
                 upload.allow_international_letters)
           = Result(Len(UploadedDoc.pages), message, pages, NULL)
<1> DEFINE check == Checks(UploadedDoc, upload.is_an_attachment,
                           upload.allow_international_letters)[i]
<1>1. check.fails /\ check.message = message /\ check.pages = pages
  BY DEF Check
<1>2. UploadedDoc \in Document /\ upload.is_an_attachment \in BOOLEAN
        /\ upload.allow_international_letters \in BOOLEAN
  BY UploadTyped
<1> HIDE DEF check
<1>3. Verdict(UploadedDoc, upload.is_an_attachment,
              upload.allow_international_letters)
        = Result(Len(UploadedDoc.pages), check.message, check.pages, NULL)
  BY <1>1, <1>2, VerdictOfFirst DEF check
<1> QED
  BY <1>1, <1>3

LEMMA TooLongVerdict ==
  ASSUME TypeOK, UploadedDoc.readable, IsLetterTooLong(Len(UploadedDoc.pages))
  PROVE  Verdict(UploadedDoc, upload.is_an_attachment,
                 upload.allow_international_letters)
           = Result(Len(UploadedDoc.pages), "letter-too-long", NULL, NULL)
<1> DEFINE checks == Checks(UploadedDoc, upload.is_an_attachment,
                            upload.allow_international_letters)
<1>1. checks \in Seq(CheckType) /\ Len(checks) >= 4
        /\ checks[1] = LengthCheck(UploadedDoc)
  BY UploadTyped, ChecksAt
<1>2. LengthCheck(UploadedDoc) = Check("letter-too-long", NULL, TRUE)
  BY DEF LengthCheck, IsLetterTooLong, Check
<1> HIDE DEF checks
<1>3. 1 \in DOMAIN checks /\ checks[1] = Check("letter-too-long", NULL, TRUE)
        /\ \A j \in 1..(1 - 1) : ~checks[j].fails
  BY <1>1, <1>2
<1> QED
  BY <1>3, VerdictOfCheck DEF checks

LEMMA ContentVerdict ==
  ASSUME TypeOK, UploadedDoc.readable, ~IsLetterTooLong(Len(UploadedDoc.pages))
  PROVE  LET sizes == WrongSizePages(UploadedDoc)
             bounds == OutOfBoundsPages(UploadedDoc, upload.is_an_attachment)
             tags == PagesWithNotifyTag(UploadedDoc, upload.is_an_attachment)
             verdict == Verdict(UploadedDoc, upload.is_an_attachment,
                                upload.allow_international_letters)
             Blames(message, pages) ==
               verdict = Result(Len(UploadedDoc.pages), message, pages, NULL)
         IN  /\ sizes # {} => Blames("letter-not-a4-portrait-oriented", sizes)
             /\ sizes = {} /\ bounds # {} =>
                  Blames("content-outside-printable-area", bounds)
             /\ sizes = {} /\ bounds = {} /\ tags # {} =>
                  Blames("notify-tag-found-in-content", tags)
<1> DEFINE checks == Checks(UploadedDoc, upload.is_an_attachment,
                            upload.allow_international_letters)
           sizes == WrongSizePages(UploadedDoc)
           bounds == OutOfBoundsPages(UploadedDoc, upload.is_an_attachment)
           tags == PagesWithNotifyTag(UploadedDoc, upload.is_an_attachment)
<1>1. /\ checks \in Seq(CheckType) /\ Len(checks) >= 4
      /\ checks[1] = LengthCheck(UploadedDoc)
      /\ checks[2] = PageCheck("letter-not-a4-portrait-oriented", sizes)
      /\ checks[3] = PageCheck("content-outside-printable-area", bounds)
      /\ checks[4] = PageCheck("notify-tag-found-in-content", tags)
  BY UploadTyped, ChecksAt
<1>2. /\ 2 \in DOMAIN checks /\ 3 \in DOMAIN checks /\ 4 \in DOMAIN checks
      /\ ~LengthCheck(UploadedDoc).fails
  <2>1. LengthCheck(UploadedDoc).fails = IsLetterTooLong(Len(UploadedDoc.pages))
    BY DEF LengthCheck, Check
  <2> HIDE DEF checks
  <2> QED
    BY <1>1, <2>1
<1>3. \A message, pages :
        PageCheck(message, pages) = Check(message, pages, pages # {})
  BY DEF PageCheck
<1>4. \A message, pages : ~Check(message, pages, FALSE).fails
  BY DEF Check
<1> HIDE DEF checks, sizes, bounds, tags
<1>5. ~checks[1].fails
  BY <1>1, <1>2
<1>6. sizes = {} => ~checks[2].fails
  BY <1>1, <1>3, <1>4
<1>7. bounds = {} => ~checks[3].fails
  BY <1>1, <1>3, <1>4
<1>8. ASSUME sizes # {}
      PROVE  Verdict(UploadedDoc, upload.is_an_attachment,
                     upload.allow_international_letters)
               = Result(Len(UploadedDoc.pages),
                        "letter-not-a4-portrait-oriented", sizes, NULL)
  <2>1. checks[2] = Check("letter-not-a4-portrait-oriented", sizes, TRUE)
    BY <1>1, <1>3, <1>8
  <2>2. \A j \in 1..(2 - 1) : ~checks[j].fails
    BY <1>5
  <2> QED
    BY <1>2, <2>1, <2>2, VerdictOfCheck DEF checks
<1>9. ASSUME sizes = {}, bounds # {}
      PROVE  Verdict(UploadedDoc, upload.is_an_attachment,
                     upload.allow_international_letters)
               = Result(Len(UploadedDoc.pages),
                        "content-outside-printable-area", bounds, NULL)
  <2>1. checks[3] = Check("content-outside-printable-area", bounds, TRUE)
    BY <1>1, <1>3, <1>9
  <2>2. \A j \in 1..(3 - 1) : ~checks[j].fails
    BY <1>5, <1>6, <1>9
  <2> QED
    BY <1>2, <2>1, <2>2, VerdictOfCheck DEF checks
<1>10. ASSUME sizes = {}, bounds = {}, tags # {}
       PROVE  Verdict(UploadedDoc, upload.is_an_attachment,
                      upload.allow_international_letters)
                = Result(Len(UploadedDoc.pages),
                         "notify-tag-found-in-content", tags, NULL)
  <2>1. checks[4] = Check("notify-tag-found-in-content", tags, TRUE)
    BY <1>1, <1>3, <1>10
  <2>2. \A j \in 1..(4 - 1) : ~checks[j].fails
    BY <1>5, <1>6, <1>7, <1>10
  <2> QED
    BY <1>2, <2>1, <2>2, VerdictOfCheck DEF checks
<1> QED
  BY <1>8, <1>9, <1>10 DEF sizes, bounds, tags

(* The first fault of the address is the verdict when all else is right.   *)
LEMMA AddressVerdict ==
  ASSUME TypeOK, UploadedDoc.readable, Letter,
         ~IsLetterTooLong(Len(UploadedDoc.pages)),
         WrongSizePages(UploadedDoc) = {},
         OutOfBoundsPages(UploadedDoc, FALSE) = {},
         PagesWithNotifyTag(UploadedDoc, FALSE) = {},
         Failures(AddressChecks(UploadedDoc.address,
                                upload.allow_international_letters)) # {}
  PROVE  LET first == FirstFailure(AddressChecks(UploadedDoc.address,
                                     upload.allow_international_letters))
         IN  /\ first.message \in Messages
             /\ Verdict(UploadedDoc, upload.is_an_attachment,
                        upload.allow_international_letters)
                  = Result(Len(UploadedDoc.pages), first.message, first.pages,
                           NULL)
<1> DEFINE checks == Checks(UploadedDoc, FALSE,
                            upload.allow_international_letters)
           address == AddressChecks(UploadedDoc.address,
                                    upload.allow_international_letters)
           first == FirstFailure(address)
<1>1. upload.is_an_attachment = FALSE /\ UploadedDoc \in Document
        /\ upload.allow_international_letters \in BOOLEAN
  BY UploadTyped DEF Letter
<1>2. /\ checks \in Seq(CheckType) /\ address \in Seq(CheckType)
      /\ Len(checks) = 4 + Len(address)
      /\ \A k \in 1..Len(address) : checks[4 + k] = address[k]
  BY <1>1, ChecksAt
<1>3. /\ ~checks[1].fails /\ ~checks[2].fails /\ ~checks[3].fails
      /\ ~checks[4].fails
  <2>1. /\ checks[1] = LengthCheck(UploadedDoc)
        /\ checks[2] = PageCheck("letter-not-a4-portrait-oriented", {})
        /\ checks[3] = PageCheck("content-outside-printable-area", {})
        /\ checks[4] = PageCheck("notify-tag-found-in-content", {})
    BY <1>1, ChecksAt
  <2>2. LengthCheck(UploadedDoc).fails = IsLetterTooLong(Len(UploadedDoc.pages))
    BY DEF LengthCheck, Check
  <2>3. \A message : ~PageCheck(message, {}).fails
    BY DEF PageCheck, Check
  <2> HIDE DEF checks
  <2> QED
    BY <2>1, <2>2, <2>3
<1> HIDE DEF checks, address
<1>4. PICK k \in DOMAIN address :
        /\ address[k].fails
        /\ \A j \in 1..(k - 1) : ~address[j].fails
        /\ first = address[k]
  <2>1. Failures(address) # {}
    BY DEF address
  <2> QED
    BY <1>2, <2>1, FirstFailureExists
<1>5. k \in 1..Len(address) /\ Len(address) \in Nat /\ first \in CheckType
  BY <1>2, <1>4
<1>6. 4 + k \in DOMAIN checks /\ checks[4 + k] = first /\ first.fails
  BY <1>2, <1>4, <1>5
<1>7. \A j \in 1..((4 + k) - 1) : ~checks[j].fails
  <2>1. ASSUME NEW j \in 1..((4 + k) - 1)
        PROVE  ~checks[j].fails
    <3>1. CASE j \in 1..4
      <4>1. j = 1 \/ j = 2 \/ j = 3 \/ j = 4
        BY <3>1
      <4> QED
        BY <4>1, <1>3
    <3>2. CASE j > 4
      <4>1. j - 4 \in 1..Len(address) /\ j - 4 \in 1..(k - 1)
              /\ j = 4 + (j - 4)
        BY <2>1, <3>2, <1>5
      <4> QED
        BY <4>1, <1>2, <1>4
    <3> QED
      BY <2>1, <3>1, <3>2, <1>5
  <2> QED
    BY <2>1
<1>8. Verdict(UploadedDoc, FALSE, upload.allow_international_letters)
        = Result(Len(UploadedDoc.pages), checks[4 + k].message,
                 checks[4 + k].pages, NULL)
  BY <1>1, <1>6, <1>7, VerdictOfFirst DEF checks
<1>9. first.message \in Messages
  BY <1>5 DEF CheckType
<1> QED
  BY <1>1, <1>6, <1>8, <1>9 DEF address

LEMMA PassedVerdict ==
  ASSUME TypeOK, UploadedDoc.readable,
         ~IsLetterTooLong(Len(UploadedDoc.pages)),
         WrongSizePages(UploadedDoc) = {},
         OutOfBoundsPages(UploadedDoc, upload.is_an_attachment) = {},
         PagesWithNotifyTag(UploadedDoc, upload.is_an_attachment) = {},
         Letter => Failures(AddressChecks(UploadedDoc.address,
                                upload.allow_international_letters)) = {}
  PROVE  Verdict(UploadedDoc, upload.is_an_attachment,
                 upload.allow_international_letters)
           = Result(Len(UploadedDoc.pages), NULL, NULL,
                    IF Letter THEN UploadedDoc.address ELSE NULL)
<1>1. Failures(Checks(UploadedDoc, upload.is_an_attachment,
                      upload.allow_international_letters)) = {}
  BY UploadTyped, ChecksPassIff DEF Letter
<1> QED
  BY <1>1 DEF Verdict, Letter

-----------------------------------------------------------------------------
(* Every step preserves the invariant.                                     *)

LEMMA CountPagesInv == ASSUME Inv, CountPages PROVE Inv'
<1>1. pc = "count" /\ pc \in Working /\ UNCHANGED <<upload, accident, recipient_address>>
  BY DEF CountPages, input, Working
<1>2. TypeOK /\ ~accident /\ recipient_address = NULL
        /\ UploadedDoc \in Document /\ Len(UploadedDoc.pages) \in Nat \ {0}
        /\ UploadedDoc' = UploadedDoc
  BY <1>1, UploadTyped
     DEF Inv, CheckedOK, Rewriting, Finishing, UploadedDoc
<1>3. /\ file_data' \in [pdf : Pdf, at_start : BOOLEAN]
      /\ file_data'.pdf = file_data.pdf /\ file_data'.pdf.whole
  BY ParsedPdf DEF CountPages
<1>4. CASE ~UploadedDoc.readable
  <2>1. pc' = "done" /\ details' = Unreadable /\ file' = NULL
    BY <1>4 DEF CountPages, Return
  <2>2. Unreadable.message # NULL
    BY NullAssumption DEF Unreadable, Result, Messages
  <2>3. MeetsContract' /\ PassedIsReady'
    BY <1>1, <1>2, <1>4, <2>1, <2>2
       DEF MeetsContract, PassedIsReady, Passed, Verdict
  <2>4. TypeOK'
    BY <1>1, <1>2, <1>3, <2>1 DEF TypeOK, Working
  <2> QED
    BY <1>3, <2>1, <2>3, <2>4, EndInv DEF ResultOK
<1>5. CASE UploadedDoc.readable /\ IsLetterTooLong(Len(UploadedDoc.pages))
  <2>1. page_count' = Len(UploadedDoc.pages) /\ Fail("letter-too-long", NULL)
    BY <1>5 DEF CountPages
  <2>2. ResultOK' /\ pc' = "done" /\ file' = NULL
    BY <1>1, <1>2, <1>5, <2>1, TooLongVerdict, FailMeetsContract DEF Messages
  <2>3. TypeOK'
    BY <1>1, <1>2, <1>3, <2>2 DEF TypeOK, Working
  <2> QED
    BY <1>3, <2>2, <2>3, EndInv
<1>6. CASE UploadedDoc.readable /\ ~IsLetterTooLong(Len(UploadedDoc.pages))
  <2>1. page_count' = Len(UploadedDoc.pages) /\ GoTo("size")
    BY <1>6 DEF CountPages
  <2>2. ResultOK' /\ pc' = "size" /\ UNCHANGED <<details, file>>
    BY <1>1, <2>1, GoOnResult DEF Working
  <2>3. page_count' \in 1..LETTER_MAX_PAGE_COUNT
    BY <1>2, <1>6, <2>1, PageLimitAssumption DEF IsLetterTooLong
  <2>4. TypeOK'
    BY <1>1, <1>2, <1>3, <2>2, <2>3 DEF TypeOK, Working
  <2>5. CheckedOK'
    BY <1>1, <1>2, <1>6, <2>1, <2>2
       DEF CheckedOK, ForLettersOnly, Rewriting, Finishing
  <2>6. StreamOK' /\ FileOK'
    BY <1>1, <1>3, <2>2 DEF Inv, StreamOK, FileOK, Working, Finishing
  <2> QED
    BY <2>2, <2>4, <2>5, <2>6 DEF Inv
<1> QED
  BY <1>4, <1>5, <1>6

(* A step that goes on with the same PDF and learns nothing but the result *)
(* of its check.                                                           *)
LEMMA GoOnTyped ==
  ASSUME Inv, pc \in Working \ {"count"}, NEW step \in Working \ {"count"},
         GoTo(step), UNCHANGED <<input, page_count>>,
         recipient_address' \in Address \cup {NULL},
         file_data' \in [pdf : Pdf, at_start : BOOLEAN]
  PROVE  /\ TypeOK' /\ ResultOK' /\ pc' = step
         /\ UNCHANGED <<upload, accident, UploadedDoc, Letter>>
<1>1. ResultOK' /\ pc' = step /\ UNCHANGED <<details, file>>
  BY GoOnResult
<1>2. UNCHANGED <<upload, accident, UploadedDoc, Letter>>
  BY DEF input, UploadedDoc, Letter
<1>3. TypeOK'
  BY <1>1, <1>2 DEF Inv, TypeOK
<1> QED
  BY <1>1, <1>2, <1>3

(* A check of the pages.                                                   *)
LEMMA CheckFails ==
  ASSUME Inv, pc \in Working \ {"count"}, UNCHANGED <<input, page_count>>,
         recipient_address' = recipient_address,
         file_data' \in [pdf : Pdf, at_start : BOOLEAN], file_data'.pdf.whole,
         NEW message \in Messages, NEW pages, Fail(message, pages),
         Verdict(UploadedDoc, upload.is_an_attachment,
                 upload.allow_international_letters)
           = Result(Len(UploadedDoc.pages), message, pages, NULL)
  PROVE  Inv'
<1>1. TypeOK /\ ~accident /\ page_count' = Len(UploadedDoc.pages)
        /\ UNCHANGED <<upload, accident>>
  BY DEF Inv, CheckedOK, input
<1>2. ResultOK' /\ pc' = "done" /\ file' = NULL
  BY <1>1, FailMeetsContract
<1>3. TypeOK'
  BY <1>1, <1>2 DEF TypeOK, Working
<1> QED
  BY <1>2, <1>3, EndInv

LEMMA CheckSizeInv == ASSUME Inv, CheckSize PROVE Inv'
<1> DEFINE pages == WrongSizePages(UploadedDoc)
<1>1. pc = "size" /\ pc \in Working \ {"count"}
        /\ UNCHANGED <<input, page_count>> /\ recipient_address' = recipient_address
  BY DEF CheckSize, CheckPages, Working
<1>2. /\ file_data' \in [pdf : Pdf, at_start : BOOLEAN]
      /\ file_data'.pdf = file_data.pdf /\ file_data'.pdf.whole
  BY ParsedPdf DEF CheckSize
<1>3. UploadedDoc.readable /\ ~IsLetterTooLong(Len(UploadedDoc.pages)) /\ TypeOK
  BY <1>1 DEF Inv, CheckedOK
<1>4. CASE pages # {}
  <2>1. Fail("letter-not-a4-portrait-oriented", pages)
    BY <1>4 DEF CheckSize, CheckPages
  <2>2. Verdict(UploadedDoc, upload.is_an_attachment,
                upload.allow_international_letters)
          = Result(Len(UploadedDoc.pages), "letter-not-a4-portrait-oriented",
                   pages, NULL)
    BY <1>3, <1>4, ContentVerdict
  <2>3. "letter-not-a4-portrait-oriented" \in Messages
    BY DEF Messages
  <2> QED
    BY <1>1, <1>2, <2>1, <2>2, <2>3, CheckFails
<1>5. CASE pages = {}
  <2>1. GoTo("bounds") /\ "bounds" \in Working \ {"count"}
    BY <1>5 DEF CheckSize, CheckPages, Working
  <2>2. recipient_address' \in Address \cup {NULL}
    BY <1>1, <1>3 DEF TypeOK
  <2>3. /\ TypeOK' /\ ResultOK' /\ pc' = "bounds"
        /\ UNCHANGED <<upload, accident, UploadedDoc, Letter>>
    BY <1>1, <1>2, <2>1, <2>2, GoOnTyped
  <2>4. CheckedOK'
    BY <1>1, <1>5, <2>3 DEF Inv, CheckedOK, ForLettersOnly, Rewriting, Finishing, Working
  <2>5. StreamOK' /\ FileOK'
    BY <1>1, <1>2, <2>3 DEF Inv, StreamOK, FileOK, Working, Finishing
  <2> QED
    BY <2>3, <2>4, <2>5 DEF Inv
<1> QED
  BY <1>4, <1>5

LEMMA CheckBoundsInv == ASSUME Inv, CheckBounds PROVE Inv'
<1> DEFINE pages == OutOfBoundsPages(UploadedDoc, upload.is_an_attachment)
<1>1. pc = "bounds" /\ pc \in Working \ {"count"}
        /\ UNCHANGED <<input, page_count>> /\ recipient_address' = recipient_address
  BY DEF CheckBounds, CheckPages, Working
<1>2. /\ file_data' \in [pdf : Pdf, at_start : BOOLEAN]
      /\ file_data'.pdf = file_data.pdf /\ file_data'.pdf.whole
  BY RewoundPdf DEF CheckBounds
<1>3. UploadedDoc.readable /\ ~IsLetterTooLong(Len(UploadedDoc.pages)) /\ TypeOK
        /\ WrongSizePages(UploadedDoc) = {}
  BY <1>1 DEF Inv, CheckedOK
<1>4. CASE pages # {}
  <2>1. Fail("content-outside-printable-area", pages)
    BY <1>4 DEF CheckBounds, CheckPages
  <2>2. Verdict(UploadedDoc, upload.is_an_attachment,
                upload.allow_international_letters)
          = Result(Len(UploadedDoc.pages), "content-outside-printable-area",
                   pages, NULL)
    BY <1>3, <1>4, ContentVerdict
  <2>3. "content-outside-printable-area" \in Messages
    BY DEF Messages
  <2> QED
    BY <1>1, <1>2, <2>1, <2>2, <2>3, CheckFails
<1>5. CASE pages = {}
  <2>1. GoTo("tags") /\ "tags" \in Working \ {"count"}
    BY <1>5 DEF CheckBounds, CheckPages, Working
  <2>2. recipient_address' \in Address \cup {NULL}
    BY <1>1, <1>3 DEF TypeOK
  <2>3. /\ TypeOK' /\ ResultOK' /\ pc' = "tags"
        /\ UNCHANGED <<upload, accident, UploadedDoc, Letter>>
    BY <1>1, <1>2, <2>1, <2>2, GoOnTyped
  <2>4. CheckedOK'
    BY <1>1, <1>5, <2>3 DEF Inv, CheckedOK, ForLettersOnly, Rewriting, Finishing, Working
  <2>5. StreamOK' /\ FileOK'
    BY <1>1, <1>2, <2>3 DEF Inv, StreamOK, FileOK, Working, Finishing
  <2> QED
    BY <2>3, <2>4, <2>5 DEF Inv
<1> QED
  BY <1>4, <1>5

LEMMA CheckTagsInv == ASSUME Inv, CheckTags PROVE Inv'
<1> DEFINE pages == PagesWithNotifyTag(UploadedDoc, upload.is_an_attachment)
           next == IF upload.is_an_attachment THEN "cmyk" ELSE "metadata"
<1>1. pc = "tags" /\ pc \in Working \ {"count"}
        /\ UNCHANGED <<input, page_count>> /\ recipient_address' = recipient_address
  BY DEF CheckTags, CheckPages, Working
<1>2. /\ file_data' \in [pdf : Pdf, at_start : BOOLEAN]
      /\ file_data'.pdf = file_data.pdf /\ file_data'.pdf.whole
  BY DEF CheckTags, Inv, TypeOK, StreamOK
<1>3. UploadedDoc.readable /\ ~IsLetterTooLong(Len(UploadedDoc.pages)) /\ TypeOK
        /\ WrongSizePages(UploadedDoc) = {}
        /\ OutOfBoundsPages(UploadedDoc, upload.is_an_attachment) = {}
  BY <1>1 DEF Inv, CheckedOK
<1>4. CASE pages # {}
  <2>1. Fail("notify-tag-found-in-content", pages)
    BY <1>4 DEF CheckTags, CheckPages
  <2>2. Verdict(UploadedDoc, upload.is_an_attachment,
                upload.allow_international_letters)
          = Result(Len(UploadedDoc.pages), "notify-tag-found-in-content",
                   pages, NULL)
    BY <1>3, <1>4, ContentVerdict
  <2>3. "notify-tag-found-in-content" \in Messages
    BY DEF Messages
  <2> QED
    BY <1>1, <1>2, <2>1, <2>2, <2>3, CheckFails
<1>5. CASE pages = {}
  <2>1. GoTo(next) /\ next \in Working \ {"count"}
    BY <1>5 DEF CheckTags, CheckPages, Working
  <2>2. recipient_address' \in Address \cup {NULL}
    BY <1>1, <1>3 DEF TypeOK
  <2>3. /\ TypeOK' /\ ResultOK' /\ pc' = next
        /\ UNCHANGED <<upload, accident, UploadedDoc, Letter>>
    BY <1>1, <1>2, <2>1, <2>2, GoOnTyped
  <2>4. CheckedOK'
    BY <1>1, <1>5, <2>3
       DEF Inv, CheckedOK, ForLettersOnly, Rewriting, Finishing, Working, Letter
  <2>5. StreamOK' /\ FileOK'
    BY <1>1, <1>2, <2>3 DEF Inv, StreamOK, FileOK, Working, Finishing, Letter
  <2> QED
    BY <2>3, <2>4, <2>5 DEF Inv
<1> QED
  BY <1>4, <1>5

LEMMA LogMetadataInv == ASSUME Inv, LogMetadata PROVE Inv'
<1>1. pc = "metadata" /\ pc \in Working \ {"count"} /\ GoTo("address")
        /\ "address" \in Working \ {"count"}
        /\ UNCHANGED <<input, page_count>> /\ recipient_address' = recipient_address
  BY DEF LogMetadata, Working
<1>2. /\ file_data' \in [pdf : Pdf, at_start : BOOLEAN]
      /\ file_data'.pdf = file_data.pdf /\ file_data'.pdf.whole
  BY ParsedPdf DEF LogMetadata
<1>3. recipient_address' \in Address \cup {NULL}
  BY <1>1 DEF Inv, TypeOK
<1>4. /\ TypeOK' /\ ResultOK' /\ pc' = "address"
      /\ UNCHANGED <<upload, accident, UploadedDoc, Letter>>
  BY <1>1, <1>2, <1>3, GoOnTyped
<1>5. CheckedOK'
  BY <1>1, <1>4 DEF Inv, CheckedOK, ForLettersOnly, Rewriting, Finishing, Working
<1>6. StreamOK' /\ FileOK'
  BY <1>1, <1>2, <1>4 DEF Inv, StreamOK, FileOK, Working, Finishing
<1> QED
  BY <1>4, <1>5, <1>6 DEF Inv

LEMMA ReadAddressInv == ASSUME Inv, ReadAddress PROVE Inv'
<1> DEFINE checks == AddressChecks(UploadedDoc.address,
                                   upload.allow_international_letters)
<1>1. pc = "address" /\ pc \in Working \ {"count"}
        /\ UNCHANGED <<input, page_count>>
  BY DEF ReadAddress, Working
<1>2. /\ file_data' \in [pdf : Pdf, at_start : BOOLEAN]
      /\ file_data'.pdf = file_data.pdf /\ file_data'.pdf.whole
  BY RewoundPdf DEF ReadAddress
<1>3. /\ UploadedDoc.readable /\ ~IsLetterTooLong(Len(UploadedDoc.pages))
      /\ TypeOK /\ Letter /\ WrongSizePages(UploadedDoc) = {}
      /\ OutOfBoundsPages(UploadedDoc, upload.is_an_attachment) = {}
      /\ PagesWithNotifyTag(UploadedDoc, upload.is_an_attachment) = {}
  BY <1>1 DEF Inv, CheckedOK, ForLettersOnly
<1>4. CASE Failures(checks) # {}
  <2>1. /\ Fail(FirstFailure(checks).message, FirstFailure(checks).pages)
        /\ recipient_address' = recipient_address
    BY <1>4 DEF ReadAddress
  <2>2. upload.is_an_attachment = FALSE
    BY <1>3, UploadTyped DEF Letter
  <2>3. /\ FirstFailure(checks).message \in Messages
        /\ Verdict(UploadedDoc, upload.is_an_attachment,
                   upload.allow_international_letters)
             = Result(Len(UploadedDoc.pages), FirstFailure(checks).message,
                      FirstFailure(checks).pages, NULL)
    BY <1>3, <1>4, <2>2, AddressVerdict
  <2> HIDE DEF checks
  <2> QED
    BY <1>1, <1>2, <2>1, <2>3, CheckFails
<1>5. CASE Failures(checks) = {}
  <2>1. GoTo("redact") /\ "redact" \in Working \ {"count"}
          /\ recipient_address' = UploadedDoc.address
    BY <1>5 DEF ReadAddress, Working
  <2>2. recipient_address' \in Address \cup {NULL}
    BY <1>3, <2>1, UploadTyped
  <2>3. /\ TypeOK' /\ ResultOK' /\ pc' = "redact"
        /\ UNCHANGED <<upload, accident, UploadedDoc, Letter>>
    BY <1>1, <1>2, <2>1, <2>2, GoOnTyped
  <2>4. CheckedOK'
    <3>1. Failures(AddressChecks(UploadedDoc.address,
                     upload.allow_international_letters))' = {}
      BY <1>5, <2>3
    <3> QED
      BY <1>1, <1>3, <2>1, <2>3, <3>1
         DEF Inv, CheckedOK, ForLettersOnly, Rewriting, Finishing, Working
  <2>5. StreamOK' /\ FileOK'
    BY <1>1, <1>2, <2>3 DEF Inv, StreamOK, FileOK, Working, Finishing
  <2> QED
    BY <2>3, <2>4, <2>5 DEF Inv
<1> QED
  BY <1>4, <1>5

(* A step after all the checks: their results stay.                        *)
LEMMA AfterChecks ==
  ASSUME Inv, pc \in Rewriting \cup Finishing,
         NEW step \in Rewriting \cup Finishing, GoTo(step),
         UNCHANGED <<input, page_count, recipient_address>>,
         file_data' \in [pdf : Pdf, at_start : BOOLEAN],
         step \in ForLettersOnly => Letter,
         step = "add_tag" => UploadedDoc.pages[1].box # <<"NOTIFY">>
  PROVE  /\ TypeOK' /\ ResultOK' /\ CheckedOK' /\ pc' = step
         /\ UNCHANGED <<upload, UploadedDoc, Letter>>
<1>1. pc \in Working \ {"count", "size", "bounds", "tags"}
        /\ step \in Working \ {"count", "size", "bounds", "tags"}
        /\ recipient_address' \in Address \cup {NULL}
  BY DEF Inv, TypeOK, Rewriting, Finishing, Working
<1>2. /\ TypeOK' /\ ResultOK' /\ pc' = step
      /\ UNCHANGED <<upload, accident, UploadedDoc, Letter>>
  BY <1>1, GoOnTyped
<1>3. CheckedOK'
  BY <1>1, <1>2 DEF Inv, CheckedOK
<1> QED
  BY <1>2, <1>3

LEMMA RedactInv == ASSUME Inv, Redact PROVE Inv'
<1>1. pc = "redact" /\ GoTo("write_address") /\ Letter
        /\ UNCHANGED <<input, page_count, recipient_address>>
        /\ "write_address" \in Rewriting /\ "redact" \in Rewriting
  BY DEF Redact, Inv, CheckedOK, ForLettersOnly, Rewriting
<1>2. /\ file_data' \in [pdf : Pdf, at_start : BOOLEAN]
      /\ file_data'.pdf = file_data.pdf /\ file_data'.pdf.whole
  BY SamePdf DEF Redact, NewStream
<1>3. /\ TypeOK' /\ ResultOK' /\ CheckedOK' /\ pc' = "write_address"
      /\ UNCHANGED <<upload, UploadedDoc, Letter>>
  BY <1>1, <1>2, AfterChecks
<1>4. StreamOK' /\ FileOK'
  BY <1>1, <1>2, <1>3 DEF Inv, StreamOK, FileOK, Working, Finishing
<1> QED
  BY <1>3, <1>4 DEF Inv

LEMMA WriteAddressInv == ASSUME Inv, WriteAddress PROVE Inv'
<1> DEFINE pdf == [file_data.pdf EXCEPT !.addressed = TRUE,
                                        !.drawn = @ \cup {"RGB"}]
<1>1. pc = "write_address" /\ GoTo("cmyk") /\ Letter
        /\ UNCHANGED <<input, page_count, recipient_address>>
        /\ "write_address" \in Rewriting /\ "cmyk" \in Finishing
        /\ "cmyk" \notin ForLettersOnly
  BY DEF WriteAddress, Inv, CheckedOK, ForLettersOnly, Rewriting, Finishing
<1>2. file_data.pdf \in Pdf /\ file_data.pdf.whole /\ ~file_data.pdf.tag_added
  BY <1>1 DEF Inv, TypeOK, StreamOK, FileOK, Working
<1>3. /\ pdf \in Pdf /\ pdf.whole /\ pdf.addressed /\ ~pdf.tag_added
  BY <1>2 DEF Pdf, Colourspace
<1>4. file_data' = NewStream(pdf)
  BY DEF WriteAddress
<1> HIDE DEF pdf
<1>5. /\ file_data' \in [pdf : Pdf, at_start : BOOLEAN]
      /\ file_data'.pdf = pdf
  BY <1>3, <1>4 DEF NewStream, Stream
<1>6. /\ TypeOK' /\ ResultOK' /\ CheckedOK' /\ pc' = "cmyk"
      /\ UNCHANGED <<upload, UploadedDoc, Letter>>
  BY <1>1, <1>5, AfterChecks
<1>7. StreamOK' /\ FileOK'
  BY <1>1, <1>3, <1>5, <1>6 DEF StreamOK, FileOK, Working, Finishing
<1> QED
  BY <1>6, <1>7 DEF Inv

LEMMA DetectCMYKInv == ASSUME Inv, DetectCMYK PROVE Inv'
<1> DEFINE step == IF "CMYK" \in file_data.pdf.images THEN "rgb" ELSE "convert"
<1>1. pc = "cmyk" /\ GoTo(step) /\ step \in {"rgb", "convert"}
        /\ UNCHANGED <<input, page_count, recipient_address>>
        /\ pc \in Finishing /\ step \in Finishing /\ step \notin ForLettersOnly
  BY DEF DetectCMYK, Finishing, ForLettersOnly, Rewriting
<1>2. /\ file_data' \in [pdf : Pdf, at_start : BOOLEAN]
      /\ file_data'.pdf = file_data.pdf /\ file_data'.at_start
      /\ file_data'.pdf.whole
  BY RewoundPdf DEF DetectCMYK
<1> HIDE DEF step
<1>3. /\ TypeOK' /\ ResultOK' /\ CheckedOK' /\ pc' = step
      /\ UNCHANGED <<upload, UploadedDoc, Letter>>
  BY <1>1, <1>2, AfterChecks
<1>4. StreamOK' /\ FileOK'
  BY <1>1, <1>2, <1>3 DEF Inv, StreamOK, FileOK, Working, Finishing
<1> QED
  BY <1>3, <1>4 DEF Inv

LEMMA DetectRGBInv == ASSUME Inv, DetectRGB PROVE Inv'
<1> DEFINE step == IF "RGB" \in file_data.pdf.images THEN "convert" ELSE "fonts"
<1>1. pc = "rgb" /\ GoTo(step) /\ step \in {"convert", "fonts"}
        /\ (step = "fonts" => "RGB" \notin file_data.pdf.images)
        /\ UNCHANGED <<input, page_count, recipient_address>>
        /\ pc \in Finishing /\ step \in Finishing /\ step \notin ForLettersOnly
  BY DEF DetectRGB, Finishing, ForLettersOnly, Rewriting
<1>2. /\ file_data' \in [pdf : Pdf, at_start : BOOLEAN]
      /\ file_data'.pdf = file_data.pdf /\ file_data'.at_start
      /\ file_data'.pdf.whole
  BY RewoundPdf DEF DetectRGB
<1> HIDE DEF step
<1>3. /\ TypeOK' /\ ResultOK' /\ CheckedOK' /\ pc' = step
      /\ UNCHANGED <<upload, UploadedDoc, Letter>>
  BY <1>1, <1>2, AfterChecks
<1>4. StreamOK' /\ FileOK'
  BY <1>1, <1>2, <1>3 DEF Inv, StreamOK, FileOK, Working, Finishing
<1> QED
  BY <1>3, <1>4 DEF Inv

LEMMA ConvertInv == ASSUME Inv, Convert PROVE Inv'
<1> DEFINE pdf == [Read(file_data) EXCEPT !.images = InCMYK(@),
                                          !.drawn = InCMYK(@)]
<1>1. pc = "convert" /\ GoTo("fonts")
        /\ UNCHANGED <<input, page_count, recipient_address>>
        /\ pc \in Finishing /\ "fonts" \in Finishing
        /\ "fonts" \notin ForLettersOnly
  BY DEF Convert, Finishing, ForLettersOnly, Rewriting
<1>2. file_data.pdf \in Pdf /\ file_data.pdf.whole /\ file_data.at_start
  BY <1>1 DEF Inv, TypeOK, StreamOK
<1>3. \A used : InCMYK(used) \in SUBSET Colourspace /\ "RGB" \notin InCMYK(used)
  BY DEF InCMYK, Colourspace
<1>4. /\ pdf \in Pdf /\ pdf.whole /\ "RGB" \notin pdf.images
      /\ pdf.addressed = file_data.pdf.addressed
      /\ pdf.tag_added = file_data.pdf.tag_added
  BY <1>2, <1>3 DEF Pdf, Read
<1>5. file_data' = NewStream(pdf)
  BY DEF Convert
<1> HIDE DEF pdf
<1>6. /\ file_data' \in [pdf : Pdf, at_start : BOOLEAN]
      /\ file_data'.pdf = pdf
  BY <1>4, <1>5 DEF NewStream, Stream
<1>7. /\ TypeOK' /\ ResultOK' /\ CheckedOK' /\ pc' = "fonts"
      /\ UNCHANGED <<upload, UploadedDoc, Letter>>
  BY <1>1, <1>6, AfterChecks
<1>8. StreamOK' /\ FileOK'
  BY <1>1, <1>4, <1>6, <1>7 DEF Inv, StreamOK, FileOK, Working, Finishing
<1> QED
  BY <1>7, <1>8 DEF Inv

LEMMA FindFontsInv == ASSUME Inv, FindFonts PROVE Inv'
<1> DEFINE step == IF file_data.pdf.unembedded THEN "embed" ELSE AfterFonts
<1>1. pc = "fonts" /\ GoTo(step)
        /\ step \in {"embed", "return", "tag_present"}
        /\ (step # "embed" => ~file_data.pdf.unembedded)
        /\ (step = "return" => ~Letter) /\ (step = "tag_present" => Letter)
        /\ UNCHANGED <<input, page_count, recipient_address>>
        /\ pc \in Finishing /\ step \in Finishing
  BY DEF FindFonts, Finishing, AfterFonts, Letter
<1>2. /\ file_data' \in [pdf : Pdf, at_start : BOOLEAN]
      /\ file_data'.pdf = file_data.pdf /\ file_data'.at_start
      /\ file_data'.pdf.whole
  BY RewoundPdf DEF FindFonts
<1>3. step \in ForLettersOnly => Letter
  BY <1>1 DEF ForLettersOnly, Rewriting
<1> HIDE DEF step
<1>4. /\ TypeOK' /\ ResultOK' /\ CheckedOK' /\ pc' = step
      /\ UNCHANGED <<upload, UploadedDoc, Letter>>
  BY <1>1, <1>2, <1>3, AfterChecks
<1>5. StreamOK' /\ FileOK'
  BY <1>1, <1>2, <1>4 DEF Inv, StreamOK, FileOK, Working, Finishing
<1> QED
  BY <1>4, <1>5 DEF Inv

LEMMA EmbedFontsInv == ASSUME Inv, EmbedFonts PROVE Inv'
<1> DEFINE pdf == [Read(file_data) EXCEPT !.unembedded = FALSE]
           step == AfterFonts
<1>1. pc = "embed" /\ GoTo(step) /\ step \in {"return", "tag_present"}
        /\ (step = "return" => ~Letter) /\ (step = "tag_present" => Letter)
        /\ UNCHANGED <<input, page_count, recipient_address>>
        /\ pc \in Finishing /\ step \in Finishing
  BY DEF EmbedFonts, Finishing, AfterFonts, Letter
<1>2. file_data.pdf \in Pdf /\ file_data.pdf.whole /\ file_data.at_start
  BY <1>1 DEF Inv, TypeOK, StreamOK
<1>3. /\ pdf \in Pdf /\ pdf.whole /\ ~pdf.unembedded
      /\ pdf.images = file_data.pdf.images
      /\ pdf.addressed = file_data.pdf.addressed
      /\ pdf.tag_added = file_data.pdf.tag_added
  BY <1>2 DEF Pdf, Read
<1>4. file_data' = NewStream(pdf)
  BY DEF EmbedFonts
<1>5. step \in ForLettersOnly => Letter
  BY <1>1 DEF ForLettersOnly, Rewriting
<1> HIDE DEF pdf, step
<1>6. /\ file_data' \in [pdf : Pdf, at_start : BOOLEAN]
      /\ file_data'.pdf = pdf /\ file_data'.at_start
  BY <1>3, <1>4 DEF NewStream, Stream
<1>7. /\ TypeOK' /\ ResultOK' /\ CheckedOK' /\ pc' = step
      /\ UNCHANGED <<upload, UploadedDoc, Letter>>
  BY <1>1, <1>5, <1>6, AfterChecks
<1>8. StreamOK' /\ FileOK'
  BY <1>1, <1>3, <1>6, <1>7 DEF Inv, StreamOK, FileOK, Working, Finishing
<1> QED
  BY <1>7, <1>8 DEF Inv

LEMMA LookForTagInv == ASSUME Inv, LookForTag PROVE Inv'
<1> DEFINE step == IF IsTag(UploadedDoc.pages[1].box) THEN "return" ELSE "add_tag"
<1>1. pc = "tag_present" /\ GoTo(step) /\ step \in {"return", "add_tag"}
        /\ (step = "return" => UploadedDoc.pages[1].box = <<"NOTIFY">>)
        /\ (step = "add_tag" => UploadedDoc.pages[1].box # <<"NOTIFY">>)
        /\ UNCHANGED <<input, page_count, recipient_address>>
        /\ pc \in Finishing /\ step \in Finishing
  BY DEF LookForTag, Finishing, IsTag
<1>2. /\ file_data' \in [pdf : Pdf, at_start : BOOLEAN]
      /\ file_data'.pdf = file_data.pdf /\ file_data'.at_start
      /\ file_data'.pdf.whole
  BY RewoundPdf DEF LookForTag
<1>3. Letter
  BY <1>1 DEF Inv, CheckedOK, ForLettersOnly
<1> HIDE DEF step
<1>4. /\ TypeOK' /\ ResultOK' /\ CheckedOK' /\ pc' = step
      /\ UNCHANGED <<upload, UploadedDoc, Letter>>
  BY <1>1, <1>2, <1>3, AfterChecks
<1>5. StreamOK' /\ FileOK'
  BY <1>1, <1>2, <1>3, <1>4 DEF Inv, StreamOK, FileOK, Working, Finishing
<1> QED
  BY <1>4, <1>5 DEF Inv

(* The tag is added on no page where it is found alone already.            *)
LEMMA AddTagInv == ASSUME Inv, AddTag PROVE Inv'
<1> DEFINE pdf == [file_data.pdf EXCEPT !.tag_added = TRUE,
                                        !.drawn = @ \cup {"RGB"}]
<1>1. pc = "add_tag" /\ GoTo("return")
        /\ UNCHANGED <<input, page_count, recipient_address>>
        /\ pc \in Finishing /\ "return" \in Finishing
        /\ "return" \notin ForLettersOnly
  BY DEF AddTag, Finishing, ForLettersOnly, Rewriting
<1>2. file_data.pdf \in Pdf /\ file_data.pdf.whole /\ Letter
        /\ UploadedDoc.pages[1].box # <<"NOTIFY">>
  BY <1>1 DEF Inv, TypeOK, StreamOK, CheckedOK, ForLettersOnly
<1>3. /\ pdf \in Pdf /\ pdf.whole /\ pdf.tag_added
      /\ pdf.images = file_data.pdf.images
      /\ pdf.addressed = file_data.pdf.addressed
      /\ pdf.unembedded = file_data.pdf.unembedded
  BY <1>2 DEF Pdf, Colourspace
<1>4. file_data' = NewStream(pdf)
  BY DEF AddTag
<1> HIDE DEF pdf
<1>5. /\ file_data' \in [pdf : Pdf, at_start : BOOLEAN]
      /\ file_data'.pdf = pdf /\ file_data'.at_start
  BY <1>3, <1>4 DEF NewStream, Stream
<1>6. /\ TypeOK' /\ ResultOK' /\ CheckedOK' /\ pc' = "return"
      /\ UNCHANGED <<upload, UploadedDoc, Letter>>
  BY <1>1, <1>5, AfterChecks
<1>7. StreamOK' /\ FileOK'
  BY <1>1, <1>2, <1>3, <1>5, <1>6 DEF Inv, StreamOK, FileOK, Working, Finishing
<1> QED
  BY <1>6, <1>7 DEF Inv

LEMMA ReturnFileInv == ASSUME Inv, ReturnFile PROVE Inv'
<1> DEFINE pdf == Read(file_data)
<1>1. /\ pc = "return" /\ pc' = "done" /\ file' = pdf
      /\ details' = Result(page_count, NULL, NULL, recipient_address)
      /\ file_data' = Stream(file_data.pdf, FALSE)
      /\ UNCHANGED <<upload, accident, page_count, recipient_address>>
  BY DEF ReturnFile, Return, input
<1>2. file_data.pdf \in Pdf /\ file_data.pdf.whole /\ file_data.at_start /\ TypeOK
  BY <1>1 DEF Inv, TypeOK, StreamOK
<1>3. /\ pdf \in Pdf /\ pdf.whole /\ pdf # NULL
      /\ pdf.images = file_data.pdf.images
      /\ pdf.addressed = file_data.pdf.addressed
      /\ pdf.tag_added = file_data.pdf.tag_added
      /\ pdf.unembedded = file_data.pdf.unembedded
  BY <1>2, UploadTyped DEF Pdf, Read
<1> HIDE DEF pdf
<1>4. /\ file_data' \in [pdf : Pdf, at_start : BOOLEAN]
      /\ file_data'.pdf.whole
  BY <1>1, <1>2 DEF Stream
<1>5. TypeOK'
  BY <1>1, <1>2, <1>3, <1>4 DEF TypeOK, Working
<1>6. ~accident /\ page_count = Len(UploadedDoc.pages)
        /\ recipient_address = IF Letter THEN UploadedDoc.address ELSE NULL
  BY <1>1 DEF Inv, CheckedOK, Working, Finishing
<1>7. details' = Verdict(UploadedDoc, upload.is_an_attachment,
                         upload.allow_international_letters)
        /\ details'.message = NULL
  <2>1. Verdict(UploadedDoc, upload.is_an_attachment,
                upload.allow_international_letters)
          = Result(Len(UploadedDoc.pages), NULL, NULL,
                   IF Letter THEN UploadedDoc.address ELSE NULL)
    BY <1>1, <1>2, PassedVerdict DEF Inv, CheckedOK, Working, Finishing
  <2>2. details'.message = NULL
    BY <1>1 DEF Result
  <2> QED
    BY <1>1, <1>6, <2>1, <2>2
<1>8. MeetsContract'
  BY <1>1, <1>3, <1>6, <1>7 DEF MeetsContract, UploadedDoc
<1>9. PassedIsReady'
  <2>1. /\ "RGB" \notin pdf.images /\ ~pdf.unembedded
        /\ pdf.addressed <=> Letter
        /\ IF Letter
           THEN pdf.tag_added <=> UploadedDoc.pages[1].box # <<"NOTIFY">>
           ELSE ~pdf.tag_added
    BY <1>1, <1>3 DEF Inv, FileOK, Working, Finishing
  <2>2. upload'.is_an_attachment <=> ~Letter
    BY <1>1, UploadTyped, <1>2 DEF Letter
  <2> QED
    BY <1>1, <2>1, <2>2 DEF PassedIsReady, UploadedDoc, Letter
<1>10. ResultOK'
  BY <1>1, <1>3, <1>8, <1>9 DEF ResultOK
<1> QED
  BY <1>1, <1>4, <1>5, <1>10, EndInv

LEMMA UnexpectedInv == ASSUME Inv, Unexpected PROVE Inv'
<1>1. /\ pc' = "done" /\ file' = NULL /\ details' = Unreadable /\ accident'
      /\ accident' = TRUE
      /\ UNCHANGED <<upload, file_data, page_count, recipient_address>>
  BY DEF Unexpected, Return, locals
<1>2. details'.message # NULL
  BY <1>1, NullAssumption DEF Unreadable, Result, Messages
<1>3. TypeOK' /\ file_data'.pdf.whole
  BY <1>1 DEF Inv, TypeOK, StreamOK, Working
<1>4. ResultOK'
  BY <1>1, <1>2 DEF ResultOK, MeetsContract, PassedIsReady, Passed
<1> QED
  BY <1>1, <1>3, <1>4, EndInv

LEMMA StutterInv == ASSUME Inv, UNCHANGED vars PROVE Inv'
<1>1. UNCHANGED <<upload, pc, file_data, page_count, recipient_address,
                  details, file, accident, UploadedDoc, Letter>>
  BY DEF vars, UploadedDoc, Letter
<1>2. TypeOK' /\ CheckedOK'
  BY <1>1 DEF Inv, TypeOK, CheckedOK
<1>3. StreamOK' /\ FileOK'
  BY <1>1 DEF Inv, StreamOK, FileOK
<1>4. ResultOK'
  BY <1>1 DEF Inv, ResultOK, MeetsContract, PassedIsReady, Passed, Done
<1> QED
  BY <1>2, <1>3, <1>4 DEF Inv

THEOREM InvHolds == Spec => []Inv
<1>1. Init => Inv
  BY InitInv
<1>2. Inv /\ [Next]_vars => Inv'
  <2> SUFFICES ASSUME Inv, [Next]_vars
               PROVE  Inv'
    OBVIOUS
  <2>1. CASE CountPages \/ CheckSize \/ CheckBounds \/ CheckTags
    BY <2>1, CountPagesInv, CheckSizeInv, CheckBoundsInv, CheckTagsInv
  <2>2. CASE LogMetadata \/ ReadAddress \/ Redact \/ WriteAddress
    BY <2>2, LogMetadataInv, ReadAddressInv, RedactInv, WriteAddressInv
  <2>3. CASE DetectCMYK \/ DetectRGB \/ Convert \/ FindFonts \/ EmbedFonts
    BY <2>3, DetectCMYKInv, DetectRGBInv, ConvertInv, FindFontsInv,
       EmbedFontsInv
  <2>4. CASE LookForTag \/ AddTag \/ ReturnFile \/ Unexpected
    BY <2>4, LookForTagInv, AddTagInv, ReturnFileInv, UnexpectedInv
  <2>5. CASE UNCHANGED vars
    BY <2>5, StutterInv
  <2> QED
    BY <2>1, <2>2, <2>3, <2>4, <2>5 DEF Next
<1> QED
  BY <1>1, <1>2, PTL DEF Spec

-----------------------------------------------------------------------------
(* Every variable keeps its type, whatever is uploaded, and past the first *)
(* check no letter has more pages than it may.                             *)
THEOREM TypeCorrect == Spec => []TypeOK
<1>1. Inv => TypeOK
  BY DEF Inv
<1> QED
  BY <1>1, InvHolds, PTL

(* The steps keep the promise the callers rely on: the verdict of the      *)
(* first check that fails, and a file if and only if there is no message.  *)
THEOREM MeetsContractHolds == Spec => []MeetsContract
<1>1. Inv => MeetsContract
  BY DEF Inv, ResultOK
<1> QED
  BY <1>1, InvHolds, PTL

(* What LetterTasks takes sanitise_file_contents for is what its steps     *)
(* come to: one of the outcomes of the contract.                           *)
THEOREM ReturnsAnOutcome ==
  Spec => [](Done => details \in SanitiseOutcomes(UploadedDoc,
                                   upload.is_an_attachment,
                                   upload.allow_international_letters))
<1>1. Inv => (Done => details \in SanitiseOutcomes(UploadedDoc,
                                    upload.is_an_attachment,
                                    upload.allow_international_letters))
  BY DEF Inv, ResultOK, MeetsContract, SanitiseOutcomes
<1> QED
  BY <1>1, InvHolds, PTL

(* Ghostscript and the caller are given the whole file.                    *)
THEOREM NothingCutOffHolds == Spec => []NothingCutOff
<1>1. Inv => NothingCutOff
  BY DEF Inv, StreamOK, ResultOK, NothingCutOff
<1> QED
  BY <1>1, InvHolds, PTL

(* What passes has embedded fonts, no image in RGB, and in a letter, but   *)
(* never in an attachment, Notify's address and tag.                       *)
THEOREM PassedIsReadyHolds == Spec => []PassedIsReady
<1>1. Inv => PassedIsReady
  BY DEF Inv, ResultOK
<1> QED
  BY <1>1, InvHolds, PTL

(* A PDF passes if and only if it can be printed and nothing unexpected    *)
(* happens: no check is missing, stricter or looser than it should be.     *)
THEOREM PassesIffPrintableHolds == Spec => []PassesIffPrintable
<1>1. ASSUME Inv
      PROVE  PassesIffPrintable
  <2> SUFFICES ASSUME Done
               PROVE  details.message = NULL <=>
                        /\ ~accident
                        /\ Printable(UploadedDoc, upload.is_an_attachment,
                                     upload.allow_international_letters)
    BY DEF PassesIffPrintable, Passed
  <2>1. details = IF accident THEN Unreadable
                  ELSE Verdict(UploadedDoc, upload.is_an_attachment,
                               upload.allow_international_letters)
    BY <1>1 DEF Inv, ResultOK, MeetsContract
  <2>2. Unreadable.message # NULL
    BY NullAssumption DEF Unreadable, Result, Messages
  <2>3. Verdict(UploadedDoc, upload.is_an_attachment,
                upload.allow_international_letters).message = NULL
          <=> Printable(UploadedDoc, upload.is_an_attachment,
                        upload.allow_international_letters)
    BY <1>1, UploadTyped, AcceptedIffPrintable DEF Inv
  <2> QED
    BY <2>1, <2>2, <2>3
<1> QED
  BY <1>1, InvHolds, PTL

-----------------------------------------------------------------------------
(* The colours of a file, from the upload to the result.                   *)

(* The steps before the conversion, it included, and those after it.       *)
BeforeConversion == {"count", "size", "bounds", "tags", "metadata", "address",
                     "cmyk", "rgb", "convert"} \cup Rewriting
AfterConversion == {"fonts", "embed", "tag_present", "add_tag", "return"}

(* What was drawn in a file that is not converted: what was uploaded, and  *)
(* the address.                                                            *)
DrawnInRGB == Letter \/ "RGB" \in upload.pdf.drawn

ColoursExplained(pdf) ==
  /\ pdf.images = InCMYK(upload.pdf.images)
  /\ "RGB" \in pdf.drawn <=>
       pdf.tag_added \/ (upload.pdf.images = {"CMYK"} /\ DrawnInRGB)

ColoursOK ==
  /\ pc \in BeforeConversion =>
       /\ file_data.pdf.images = upload.pdf.images
       /\ "RGB" \in file_data.pdf.drawn <=>
            (Letter /\ pc \in Finishing) \/ "RGB" \in upload.pdf.drawn
  /\ pc = "rgb" => "CMYK" \in upload.pdf.images
  /\ pc = "convert" => upload.pdf.images # {"CMYK"}
  /\ pc \in AfterConversion => ColoursExplained(file_data.pdf)
  /\ Passed => ColoursExplained(file)

LEMMA OnlyCMYK ==
  ASSUME NEW used \in SUBSET Colourspace
  PROVE  /\ "CMYK" \in used /\ "RGB" \notin used <=> used = {"CMYK"}
         /\ "RGB" \notin InCMYK(used)
         /\ InCMYK({"CMYK"}) = {"CMYK"}
BY DEF Colourspace, InCMYK

LEMMA InitColours == ASSUME Init PROVE ColoursOK
<1>1. /\ pc = "count" /\ file_data.pdf = upload.pdf
      /\ pc \in BeforeConversion /\ pc \notin AfterConversion \cup Finishing
  BY DEF Init, NewStream, Stream, BeforeConversion, AfterConversion, Finishing
<1> QED
  BY <1>1 DEF ColoursOK, Passed, Done

(* A step that leaves the PDF alone, before its conversion.                *)
LEMMA SameColoursBefore ==
  ASSUME Inv, ColoursOK, pc \in BeforeConversion, UNCHANGED upload,
         file_data'.pdf = file_data.pdf, pc' \in BeforeConversion,
         Letter => (pc \in Finishing <=> pc' \in Finishing),
         pc' = "rgb" => "CMYK" \in upload.pdf.images,
         pc' = "convert" => upload.pdf.images # {"CMYK"}
  PROVE  ColoursOK'
<1>1. pc' \notin AfterConversion /\ pc' # "done"
  BY DEF BeforeConversion, AfterConversion, Rewriting
<1>2. Letter' = Letter
  BY DEF Letter
<1> QED
  BY <1>1, <1>2 DEF ColoursOK, Passed, Done

(* A step after the conversion, or from it, to a file that is explained.   *)
LEMMA ExplainedAfter ==
  ASSUME UNCHANGED upload, pc' \in AfterConversion,
         NEW pdf, file_data'.pdf = pdf, ColoursExplained(pdf)
  PROVE  ColoursOK'
<1>1. pc' \notin BeforeConversion /\ pc' \notin {"rgb", "convert", "done"}
  BY DEF BeforeConversion, AfterConversion, Rewriting
<1>2. ColoursExplained(file_data.pdf)'
  BY DEF ColoursExplained, DrawnInRGB, Letter
<1> QED
  BY <1>1, <1>2 DEF ColoursOK, Passed, Done

(* A run that ends without a file that passed.                             *)
LEMMA EndsWithout ==
  ASSUME pc' = "done", details'.message # NULL
  PROVE  ColoursOK'
BY DEF ColoursOK, BeforeConversion, AfterConversion, Rewriting, Passed

(* Before the conversion only the address is drawn.                        *)
LEMMA ColoursBefore ==
  ASSUME Inv, ColoursOK,
         CountPages \/ CheckSize \/ CheckBounds \/ CheckTags \/ LogMetadata
           \/ ReadAddress \/ Redact
  PROVE  ColoursOK'
<1>1. /\ UNCHANGED upload /\ file_data'.pdf = file_data.pdf
      /\ pc \in BeforeConversion \ Finishing
  BY DEF CountPages, CheckSize, CheckBounds, CheckTags, LogMetadata, ReadAddress,
     Redact, CheckPages, Parsed, Rewound, NewStream, Stream, input,
     BeforeConversion, Rewriting, Finishing
<1>2. \/ pc' = "done" /\ details'.message # NULL
      \/ pc' \in BeforeConversion \ (Finishing \cup {"rgb", "convert"})
      \/ pc' = "cmyk" /\ ~Letter
  <2>1. ASSUME NEW message \in Messages, NEW pages, Fail(message, pages)
        PROVE  pc' = "done" /\ details'.message # NULL
    BY <2>1, NullAssumption DEF Fail, Return, Result
  <2>2. ASSUME NEW step, GoTo(step)
        PROVE  pc' = step
    BY <2>2 DEF GoTo
  <2>3. CASE CountPages
    <3>1. CASE Return(Unreadable, NULL)
      BY <3>1, NullAssumption DEF Return, Unreadable, Result, Messages
    <3>2. CASE Fail("letter-too-long", NULL)
      BY <2>1, <3>2 DEF Messages
    <3>3. CASE GoTo("size")
      BY <2>2, <3>3 DEF BeforeConversion, Rewriting, Finishing
    <3> QED
      BY <2>3, <3>1, <3>2, <3>3 DEF CountPages
  <2>4. CASE CheckSize
    BY <2>1, <2>2, <2>4
       DEF CheckSize, CheckPages, Messages, BeforeConversion, Finishing
  <2>5. CASE CheckBounds
    BY <2>1, <2>2, <2>5
       DEF CheckBounds, CheckPages, Messages, BeforeConversion, Finishing
  <2>6. CASE CheckTags
    BY <2>1, <2>2, <2>6
       DEF CheckTags, CheckPages, Messages, BeforeConversion, Finishing, Letter
  <2>7. CASE LogMetadata \/ Redact
    BY <2>2, <2>7
       DEF LogMetadata, Redact, BeforeConversion, Rewriting, Finishing
  <2>8. CASE ReadAddress
    <3> DEFINE checks == AddressChecks(UploadedDoc.address,
                                       upload.allow_international_letters)
    <3>1. CASE Failures(checks) = {}
      <4>1. GoTo("redact")
        BY <2>8, <3>1 DEF ReadAddress
      <4> QED
        BY <2>2, <4>1 DEF BeforeConversion, Rewriting, Finishing
    <3>2. CASE Failures(checks) # {}
      <4>1. Fail(FirstFailure(checks).message, FirstFailure(checks).pages)
        BY <2>8, <3>2 DEF ReadAddress
      <4>2. checks \in Seq(CheckType)
        BY UploadTyped, ChecksAt DEF Inv
      <4> HIDE DEF checks
      <4>3. PICK i \in DOMAIN checks : FirstFailure(checks) = checks[i]
        BY <3>2, <4>2, FirstFailureExists
      <4>4. checks[i] \in CheckType
        BY <4>2
      <4>5. FirstFailure(checks).message \in Messages
        BY <4>3, <4>4 DEF CheckType
      <4> QED
        BY <2>1, <4>1, <4>5
    <3> QED
      BY <3>1, <3>2
  <2> QED
    BY <2>3, <2>4, <2>5, <2>6, <2>7, <2>8
<1> QED
  BY <1>1, <1>2, EndsWithout, SameColoursBefore DEF BeforeConversion

LEMMA WriteAddressColours ==
  ASSUME Inv, ColoursOK, WriteAddress
  PROVE  ColoursOK'
<1>1. /\ UNCHANGED upload /\ pc = "write_address" /\ pc' = "cmyk"
      /\ pc \in BeforeConversion
  BY DEF WriteAddress, GoTo, input, BeforeConversion, Rewriting
<1>2. Letter /\ file_data.pdf \in Pdf
  BY <1>1 DEF Inv, TypeOK, CheckedOK, ForLettersOnly, Rewriting
<1>3. /\ file_data'.pdf.images = file_data.pdf.images
      /\ "RGB" \in file_data'.pdf.drawn
  BY <1>2 DEF WriteAddress, NewStream, Stream, Pdf
<1>4. Letter' /\ pc' \in Finishing /\ pc' \notin AfterConversion /\ pc' # "done"
  BY <1>1, <1>2 DEF Letter, Finishing, AfterConversion
<1> QED
  BY <1>1, <1>2, <1>3, <1>4 DEF ColoursOK, Passed, Done

(* What decides on the conversion is what was uploaded.                    *)
LEMMA DetectColours ==
  ASSUME Inv, ColoursOK, DetectCMYK \/ DetectRGB
  PROVE  ColoursOK'
<1>1. /\ UNCHANGED upload /\ file_data'.pdf = file_data.pdf
      /\ pc \in BeforeConversion \cap Finishing
      /\ pc' \in {"rgb", "convert", "fonts"}
  BY DEF DetectCMYK, DetectRGB, GoTo, input, Rewound, NewStream, Stream,
     BeforeConversion, Finishing
<1>2. /\ upload.pdf.images \in SUBSET Colourspace
      /\ file_data.pdf.images = upload.pdf.images
      /\ "RGB" \in file_data.pdf.drawn <=> DrawnInRGB
  BY <1>1, UploadTyped DEF Inv, ColoursOK, Upload, Pdf, DrawnInRGB
<1>3. /\ pc' = "rgb" => "CMYK" \in upload.pdf.images
      /\ pc' = "convert" => upload.pdf.images # {"CMYK"}
      /\ pc' = "fonts" => upload.pdf.images = {"CMYK"}
  BY <1>1, <1>2, OnlyCMYK DEF DetectCMYK, DetectRGB, GoTo, ColoursOK
<1>4. CASE pc' = "fonts"
  <2>1. ~file_data.pdf.tag_added
    BY <1>1 DEF Inv, FileOK, Working, Finishing, BeforeConversion, Rewriting
  <2>2. ColoursExplained(file_data.pdf)
    BY <1>2, <1>3, <1>4, <2>1, OnlyCMYK DEF ColoursExplained
  <2> QED
    BY <1>1, <1>4, <2>2, ExplainedAfter DEF AfterConversion
<1>5. CASE pc' # "fonts"
  BY <1>1, <1>3, <1>5, SameColoursBefore DEF BeforeConversion, Finishing
<1> QED
  BY <1>4, <1>5

LEMMA ConvertColours ==
  ASSUME Inv, ColoursOK, Convert
  PROVE  ColoursOK'
<1>1. UNCHANGED upload /\ pc = "convert" /\ pc' = "fonts" /\ pc \in BeforeConversion
  BY DEF Convert, GoTo, input, BeforeConversion
<1>2. /\ file_data.pdf \in Pdf /\ ~file_data.pdf.tag_added
      /\ upload.pdf.images # {"CMYK"} /\ file_data.pdf.images = upload.pdf.images
  BY <1>1 DEF Inv, TypeOK, FileOK, Working, ColoursOK
<1> DEFINE pdf == file_data'.pdf
<1>3. /\ pdf.images = InCMYK(file_data.pdf.images)
      /\ pdf.drawn = InCMYK(file_data.pdf.drawn)
      /\ pdf.tag_added = file_data.pdf.tag_added
  BY <1>2 DEF Convert, NewStream, Stream, Read, Pdf
<1>4. "RGB" \notin InCMYK(file_data.pdf.drawn)
  BY DEF InCMYK
<1>5. ColoursExplained(pdf)
  BY <1>2, <1>3, <1>4 DEF ColoursExplained
<1> QED
  BY <1>1, <1>5, ExplainedAfter DEF AfterConversion

LEMMA ColoursAfter ==
  ASSUME Inv, ColoursOK, FindFonts \/ EmbedFonts \/ LookForTag \/ AddTag
  PROVE  ColoursOK'
<1>1. UNCHANGED upload /\ pc \in AfterConversion /\ pc' \in AfterConversion
  BY DEF FindFonts, EmbedFonts, LookForTag, AddTag, GoTo, input, AfterFonts,
     AfterConversion
<1>2. file_data.pdf \in Pdf /\ ColoursExplained(file_data.pdf)
  BY <1>1 DEF Inv, TypeOK, ColoursOK
<1> DEFINE pdf == file_data'.pdf
<1>3. /\ pdf.images = file_data.pdf.images
      /\ \/ pdf.drawn = file_data.pdf.drawn /\ pdf.tag_added = file_data.pdf.tag_added
         \/ "RGB" \in pdf.drawn /\ pdf.tag_added
  <2>1. CASE FindFonts \/ LookForTag
    BY <2>1 DEF FindFonts, LookForTag, Rewound, NewStream, Stream
  <2>2. CASE EmbedFonts
    BY <1>2, <2>2 DEF EmbedFonts, NewStream, Stream, Read, Pdf
  <2>3. CASE AddTag
    BY <1>2, <2>3 DEF AddTag, NewStream, Stream, Pdf
  <2> QED
    BY <2>1, <2>2, <2>3
<1>4. ColoursExplained(pdf)
  BY <1>2, <1>3 DEF ColoursExplained
<1> QED
  BY <1>1, <1>4, ExplainedAfter

LEMMA EndColours ==
  ASSUME Inv, ColoursOK, ReturnFile \/ Unexpected
  PROVE  ColoursOK'
<1>1. CASE ReturnFile
  <2>1. /\ UNCHANGED upload /\ pc = "return" /\ pc \in AfterConversion
        /\ pc' = "done" /\ file' = Read(file_data)
    BY <1>1 DEF ReturnFile, Return, input, AfterConversion
  <2>2. file_data.pdf \in Pdf /\ ColoursExplained(file_data.pdf)
    BY <2>1 DEF Inv, TypeOK, ColoursOK
  <2>3. /\ file'.images = file_data.pdf.images /\ file'.drawn = file_data.pdf.drawn
        /\ file'.tag_added = file_data.pdf.tag_added
    BY <2>1, <2>2 DEF Read, Pdf
  <2>4. ColoursExplained(file)'
    BY <2>1, <2>2, <2>3 DEF ColoursExplained, DrawnInRGB, Letter
  <2> QED
    BY <2>1, <2>4
       DEF ColoursOK, BeforeConversion, AfterConversion, Rewriting
<1>2. CASE Unexpected
  BY <1>2, EndsWithout, NullAssumption
     DEF Unexpected, Return, Unreadable, Result, Messages
<1> QED
  BY <1>1, <1>2

(* RGBIsExplained for any upload: what is drawn in RGB is left in a file   *)
(* that passes only if all its images were in CMYK and nothing else, or if *)
(* it is the tag.                                                          *)
THEOREM RGBIsExplainedHolds == Spec => []RGBIsExplained
<1>1. Init => ColoursOK
  BY InitColours
<1>2. Inv /\ ColoursOK /\ [Next]_vars => ColoursOK'
  <2> SUFFICES ASSUME Inv, ColoursOK, [Next]_vars
               PROVE  ColoursOK'
    OBVIOUS
  <2>1. CASE UNCHANGED vars
    BY <2>1 DEF vars, ColoursOK, ColoursExplained, DrawnInRGB, Letter, Passed, Done
  <2>2. CASE Next
    BY <2>2, ColoursBefore, WriteAddressColours, DetectColours, ConvertColours,
       ColoursAfter, EndColours DEF Next
  <2> QED
    BY <2>1, <2>2
<1>3. Inv /\ ColoursOK => RGBIsExplained
  BY DEF ColoursOK, ColoursExplained, RGBIsExplained, DrawnInRGB, Letter
<1> QED
  BY <1>1, <1>2, <1>3, InvHolds, PTL DEF Spec

=============================================================================
