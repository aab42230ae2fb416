-------------------------- MODULE PreviewRequests --------------------------
(***************************************************************************)
(* The HTTP endpoints as the admin app uses them: a user opens a letter,   *)
(* admin asks for its number of pages and then for one picture after the   *)
(* other, and in the end the letter is printed.  Between these requests    *)
(* others are made, right and wrong ones.                                  *)
(***************************************************************************)
EXTENDS Integers, Sequences

CONSTANTS
  NULL,                    \* Python's None
  Letters,                 \* templated letters, with all that is in their JSON
  Scans,                   \* precompiled PDFs: how many pages they have
  PageArgs,                \* what may be given for a page, besides nothing
  LETTER_MAX_PAGE_COUNT    \* notifications_utils: ten pages in production

(* How many pages WeasyPrint makes of a letter in a language, with the     *)
(* first page (address, date and heading) and without it.                  *)
Rendering == {r \in [whole : Nat \ {0}, continued : Nat \ {0}] :
                r.continued <= r.whole}

(* page_count is what the database says of the attachment, and pages what  *)
(* is in the bucket: NULL when there is nothing under its id, or no id.    *)
LetterAttachment == [page_count : Nat, pages : Nat \cup {NULL}]

Letter == [welsh_then_english : BOOLEAN, welsh : Rendering, english : Rendering,
           letter_attachment : LetterAttachment \cup {NULL}]

ASSUME RequestsAssumption ==
  /\ Letters \subseteq Letter
  /\ Scans \subseteq Nat \ {0}
  /\ NULL \notin Nat /\ NULL \notin LetterAttachment /\ NULL \notin PageArgs
  /\ LETTER_MAX_PAGE_COUNT \in Nat \ {0}

VARIABLES
  letter,     \* the letter the user looks at
  counts,     \* the answer to /get-page-count, which admin caches
  next_page,  \* the page admin will ask for
  seen,       \* the pages the user has seen, in order
  refused,    \* the pages admin asked for that the letter does not have
  printed,    \* the PDF of the letter that was sent, NULL before
  answer      \* the answer to the last request

session == <<letter, counts, next_page, seen, refused, printed>>
vars == <<letter, counts, next_page, seen, refused, printed, answer>>

-----------------------------------------------------------------------------
(* Answers.                                                                *)

(* What was asked for comes back with it.                                  *)
Answer(code, pages) == [code |-> code, pages |-> pages, page_arg |-> NULL]

OK(pages) == Answer(200, pages)

(* abort(400) and InvalidRequest; an exception nobody catches has no code. *)
BadRequest == Answer(400, << >>)
ServerError == Answer(500, << >>)
Unauthorised == Answer(401, << >>)

(* auth.login_required comes before anything else.                         *)
Reply(token, page_arg, response) ==
  [(IF token THEN response ELSE Unauthorised) EXCEPT !.page_arg = page_arg]

-----------------------------------------------------------------------------
(* Letters and their pages.                                                *)

(* A page is known by the part of the letter it is from and its number.    *)
Pages(part, n) == [i \in 1..n |-> <<part, i>>]

AttachmentOf(l) ==
  IF l.letter_attachment = NULL THEN << >>
  ELSE Pages("attachment", l.letter_attachment.pages)

(* S3ObjectNotFound, or KeyError for an attachment without an id.          *)
IsThere(l) ==
  l.letter_attachment # NULL => l.letter_attachment.pages # NULL

(* Mutant: the English part of a bilingual letter has a first page too.    *)
GenerateTemplatedPdf_TwoFirstPages(l) ==
  (IF l.welsh_then_english
   THEN Pages("welsh", l.welsh.whole) \o Pages("english whole", l.english.whole)
   ELSE Pages("english whole", l.english.whole)) \o AttachmentOf(l)

(* generate_templated_pdf, for previews and for print.                     *)
GenerateTemplatedPdf(l) ==
  (IF l.welsh_then_english
   THEN Pages("welsh", l.welsh.whole)
          \o Pages("english continued", l.english.continued)
   ELSE Pages("english whole", l.english.whole)) \o AttachmentOf(l)

PageCounts(welsh, english, attachment) ==
  [count |-> welsh + english + attachment, welsh_page_count |-> welsh,
   attachment_page_count |-> attachment]

(* Mutant: only the English pages are counted.                             *)
CountPages_EnglishOnly(l) ==
  PageCounts(0, l.english.whole,
    IF l.letter_attachment = NULL THEN 0 ELSE l.letter_attachment.page_count)

(* page_count: either language is rendered with a first page of its own,   *)
(* and the attachment is not looked at.                                    *)
CountPages(l) ==
  PageCounts(IF l.welsh_then_english THEN l.welsh.whole ELSE 0,
             l.english.whole,
             IF l.letter_attachment = NULL THEN 0
             ELSE l.letter_attachment.page_count)

-----------------------------------------------------------------------------
(* Pictures of a page.                                                     *)

(* Mutant: pages are counted from 0.                                       *)
PageOf_FromZero(pdf, page) ==
  IF page \in DOMAIN pdf /\ page + 1 \in DOMAIN pdf
  THEN OK(<<pdf[page + 1]>>) ELSE BadRequest

(* PdfReader(...).pages[page - 1]: pypdf takes an index below 0 from the   *)
(* end, and raises IndexError when there is no such page either.           *)
PageOf(pdf, page) ==
  LET index == IF page - 1 < 0 THEN page - 1 + Len(pdf) ELSE page - 1
  IN  IF index \in 0..(Len(pdf) - 1) THEN OK(<<pdf[index + 1]>>) ELSE BadRequest

(* int(request.args.get("page", 1)); ValueError when it is no number.      *)
Requested(arg) == IF arg = NULL THEN 1 ELSE arg

ViewLetterPng(l, valid, arg) ==
  CASE ~valid                                         -> BadRequest
    [] valid /\ ~IsThere(l)                           -> ServerError
    [] valid /\ IsThere(l) /\ Requested(arg) \notin Int -> ServerError
    [] valid /\ IsThere(l) /\ Requested(arg) \in Int  ->
         PageOf(GenerateTemplatedPdf(l), Requested(arg))

ViewLetterPdf(l, valid, arg) ==
  CASE arg # NULL \/ ~valid                           -> BadRequest
    [] arg = NULL /\ valid /\ ~IsThere(l)             -> ServerError
    [] arg = NULL /\ valid /\ IsThere(l)              -> OK(GenerateTemplatedPdf(l))

(* The letter's attachment by itself, in admin's page to manage it.        *)
ViewAttachment(l, valid, arg) ==
  CASE arg = NULL \/ ~valid                           -> BadRequest
    [] arg # NULL /\ valid /\ arg \notin Int          -> ServerError
    [] arg # NULL /\ valid /\ arg \in Int /\ ~IsThere(l) -> ServerError
    [] arg # NULL /\ valid /\ arg \in Int /\ IsThere(l)  ->
         IF arg <= Len(AttachmentOf(l)) THEN PageOf(AttachmentOf(l), arg)
         ELSE BadRequest

(* pages is NULL for a file that is no PDF: PdfReadError or                *)
(* MissingDelegateError; an empty body is answered alike.                  *)
ViewPrecompiled(pages, arg) ==
  CASE Requested(arg) \notin Int                      -> ServerError
    [] Requested(arg) \in Int /\ pages = NULL         -> BadRequest
    [] Requested(arg) \in Int /\ pages # NULL         ->
         PageOf(Pages("scan", pages), Requested(arg))

-----------------------------------------------------------------------------
(* Overlays.                                                               *)

(* Each page is sent by itself; is_first_page is not looked at for an      *)
(* attachment.                                                             *)
OverlayPng(pages, has_first_arg, page_arg, is_an_attachment) ==
  LET told == has_first_arg /\ ~is_an_attachment
  IN  CASE ~told /\ page_arg = NULL                     -> BadRequest
        [] ~told /\ page_arg # NULL /\ page_arg \notin Int -> ServerError
        [] told \/ page_arg \in Int                      ->
             IF pages = 1 THEN OK(Pages("scan", 1)) ELSE BadRequest

(* The whole file is sent; nobody catches the PdfReadError of this one.    *)
OverlayPdf(pages, has_args) ==
  CASE has_args                     -> BadRequest
    [] ~has_args /\ pages = NULL    -> ServerError
    [] ~has_args /\ pages # NULL    -> OK(Pages("scan", pages))

-----------------------------------------------------------------------------
Init ==
  /\ letter \in Letters
  /\ counts = NULL
  /\ next_page = 1
  /\ seen = << >>
  /\ refused = 0
  /\ printed = NULL
  /\ answer = NULL

(* /get-page-count, which admin asks for when it opens a letter.           *)
GetPageCount ==
  /\ counts = NULL
  /\ counts' = CountPages(letter)
  /\ answer' = OK(<< >>)
  /\ UNCHANGED <<letter, next_page, seen, refused, printed>>

(* Admin shows the pages one below the other, as many as were counted.     *)
TurnPage ==
  /\ counts # NULL /\ next_page <= counts.count
  /\ answer' = Reply(TRUE, next_page, ViewLetterPng(letter, TRUE, next_page))
  /\ next_page' = next_page + 1
  /\ seen' = seen \o answer'.pages
  /\ refused' = refused + (IF answer'.code = 400 THEN 1 ELSE 0)
  /\ UNCHANGED <<letter, counts, printed>>

(* WeasyPrint or S3 fail, and the user tries again.                        *)
Fails ==
  /\ answer' = ServerError
  /\ UNCHANGED session

(* create_pdf_for_templated_letter                                         *)
SendToPrint ==
  /\ printed = NULL /\ IsThere(letter)
  /\ printed' = GenerateTemplatedPdf(letter)
  /\ UNCHANGED <<letter, counts, next_page, seen, refused, answer>>

OptionalPage == PageArgs \cup {NULL}
Body == Scans \cup {NULL}

ViewsLetter ==
  /\ \E token, valid \in BOOLEAN, arg \in OptionalPage :
       answer' = Reply(token, arg, ViewLetterPng(letter, valid, arg))
  /\ UNCHANGED session

DownloadsLetter ==
  /\ \E token, valid \in BOOLEAN, arg \in OptionalPage :
       answer' = Reply(token, arg, ViewLetterPdf(letter, valid, arg))
  /\ UNCHANGED session

ViewsAttachment ==
  /\ letter.letter_attachment # NULL
  /\ \E token, valid \in BOOLEAN, arg \in OptionalPage :
       answer' = Reply(token, arg, ViewAttachment(letter, valid, arg))
  /\ UNCHANGED session

ViewsPrecompiled ==
  /\ \E token \in BOOLEAN, pages \in Body, arg \in OptionalPage :
       answer' = Reply(token, arg, ViewPrecompiled(pages, arg))
  /\ UNCHANGED session

ColoursPage ==
  /\ \E token, is_an_attachment, has_first_arg \in BOOLEAN,
        pages \in Body, arg \in OptionalPage :
       answer' = Reply(token, arg,
                   OverlayPng(pages, has_first_arg, arg, is_an_attachment))
  /\ UNCHANGED session

ColoursPdf ==
  /\ \E token, has_args \in BOOLEAN, pages \in Body :
       answer' = Reply(token, NULL, OverlayPdf(pages, has_args))
  /\ UNCHANGED session

Next ==
  \/ GetPageCount \/ TurnPage \/ SendToPrint \/ Fails
  \/ ViewsLetter \/ DownloadsLetter \/ ViewsAttachment \/ ViewsPrecompiled
  \/ ColoursPage \/ ColoursPdf

Spec == Init /\ [][Next]_vars

-----------------------------------------------------------------------------
(* Properties.                                                             *)

(* The pages the letter is made of: its own renderings, and one first page.*)
OwnPages(l) ==
  (IF l.welsh_then_english
   THEN ({"welsh"} \X (1..l.welsh.whole))
          \cup ({"english continued"} \X (1..l.english.continued))
   ELSE {"english whole"} \X (1..l.english.whole))
    \cup (IF IsThere(l) THEN {"attachment"} \X (1..Len(AttachmentOf(l))) ELSE {})

(* Every variable keeps its type, and no page is seen or printed that is   *)
(* not the letter's.                                                       *)
TypeOK ==
  /\ letter \in Letters
  /\ counts # NULL =>
       /\ counts \in [count : Nat, welsh_page_count : Nat,
                      attachment_page_count : Nat]
       /\ next_page <= counts.count + 1
  /\ next_page \in Nat \ {0} /\ refused \in 0..(next_page - 1)
  /\ seen \in Seq(OwnPages(letter))
  /\ printed # NULL => printed \in Seq(OwnPages(letter))

(* The database has the number of pages of the attachment in the bucket.   *)
AttachmentAsCounted ==
  letter.letter_attachment # NULL =>
    letter.letter_attachment.pages = letter.letter_attachment.page_count

(* Who looks at as many pages as were counted sees the letter as it is     *)
(* printed, every page of it once and in order; only for a bilingual       *)
(* letter may the count be too high, and the last pictures be missing.     *)
EveryPageSeen ==
  AttachmentAsCounted /\ counts # NULL /\ next_page > counts.count =>
    /\ seen = GenerateTemplatedPdf(letter)
    /\ refused > 0 => letter.welsh_then_english

(* No letter is turned down for its length when it is printed that was     *)
(* short enough when it was counted, and one in English only is turned     *)
(* down if and only if the count said so.                                  *)
TooLong(n) == n > LETTER_MAX_PAGE_COUNT

CountPredictsPrint ==
  AttachmentAsCounted /\ counts # NULL /\ printed # NULL =>
    /\ TooLong(Len(printed)) => TooLong(counts.count)
    /\ ~letter.welsh_then_english => Len(printed) = counts.count

(* test_view_letter_template_png_when_requested_page_out_of_range: a page  *)
(* the letter does not have is answered with 400.                          *)
OnlyPagesThereAre ==
  answer # NULL /\ answer.page_arg \in Int /\ answer.code = 200
    => answer.page_arg > 0

=============================================================================
