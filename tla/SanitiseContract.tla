------------------------- MODULE SanitiseContract -------------------------
(***************************************************************************)
(* What sanitise_file_contents promises its four callers: the endpoint     *)
(* /precompiled/sanitise and the three Celery tasks that sanitise a PDF.   *)
(* A document is abstracted to the features the checks look at, and the    *)
(* verdict on a document is the first check, in the order the code makes   *)
(* them, that the document fails.                                          *)
(***************************************************************************)
EXTENDS Naturals, Sequences

CONSTANTS
  NULL,                    \* Python's None
  LETTER_MAX_PAGE_COUNT    \* notifications_utils: ten pages in production

ASSUME PageLimitAssumption == LETTER_MAX_PAGE_COUNT \in Nat \ {0}

-----------------------------------------------------------------------------
(* Documents.                                                              *)

(* Where the ink of a page is: all of it inside the area every page may    *)
(* use, some of it in the strips around the address window that only the   *)
(* first page of a letter must leave blank, or some of it in the margin.   *)
Ink == {"inside", "address_strip", "margin"}

(* The words that touch the box where the print provider looks for a tag,  *)
(* in the order they are read: the same word may be there twice.           *)
Word == {"NOTIFY", "other"}

Page == [a4 : BOOLEAN, ink : Ink, box : Seq(Word)]

(* What PostalAddress can find wrong with an address before it looks at    *)
(* its last line, and after it: the code reports the first of them.        *)
EarlyAddressFaults ==
  <<"address-is-empty", "not-enough-address-lines", "too-many-address-lines",
    "invalid-address-line-1-or-2", "has-country-for-bfpo-address">>
LateAddressFaults == <<"invalid-char-in-address", "no-fixed-abode-address">>

SeqElements(s) == {s[i] : i \in DOMAIN s}

LastLineFaults == {"not-a-real-uk-postcode-or-country",
                   "cant-send-international-letters", "not-a-real-uk-postcode"}
AddressFaults == SeqElements(EarlyAddressFaults) \cup LastLineFaults
                   \cup SeqElements(LateAddressFaults)

Address == [faults : SUBSET (AddressFaults \ LastLineFaults),
            last_line : {"postcode", "country", "other"}]

Document == [readable : BOOLEAN, pages : Seq(Page) \ {<< >>}, address : Address]

-----------------------------------------------------------------------------
(* The checks.                                                             *)

(* A check of the document: its message, the pages it blames, whether it   *)
(* fails.                                                                  *)
Check(message, pages, fails) ==
  [message |-> message, pages |-> pages, fails |-> fails]

PageCheck(message, pages) == Check(message, pages, pages # {})

WrongSizePages(doc) == {n \in DOMAIN doc.pages : ~doc.pages[n].a4}

(* Mutant: an attachment has an address page as well.                      *)
OutOfBoundsPages_AddressPage(doc, is_an_attachment) ==
  {n \in DOMAIN doc.pages :
     \/ doc.pages[n].ink = "margin"
     \/ doc.pages[n].ink = "address_strip" /\ n = 1}

(* The first page of a letter has to leave the strips around the address   *)
(* window blank; an attachment has no address page.                        *)
OutOfBoundsPages(doc, is_an_attachment) ==
  {n \in DOMAIN doc.pages :
     \/ doc.pages[n].ink = "margin"
     \/ doc.pages[n].ink = "address_strip" /\ n = 1 /\ ~is_an_attachment}

(* The text of the box is compared with the tag as a whole.                *)
IsTag(box) == box = <<"NOTIFY">>

PagesWithNotifyTag(doc, is_an_attachment) ==
  {n \in DOMAIN doc.pages :
     IsTag(doc.pages[n].box) /\ (n > 1 \/ is_an_attachment)}

(* Mutant: nobody looks for a country.                                     *)
LastLineFault_CountryOverlooked(last_line, allow_international) ==
  IF allow_international THEN "not-a-real-uk-postcode-or-country"
  ELSE "not-a-real-uk-postcode"

LastLineFault(last_line, allow_international) ==
  CASE allow_international    -> "not-a-real-uk-postcode-or-country"
    [] last_line = "country"  -> "cant-send-international-letters"
    [] OTHER                  -> "not-a-real-uk-postcode"

HasValidLastLine(last_line, allow_international) ==
  \/ last_line = "postcode"
  \/ last_line = "country" /\ allow_international

FaultChecks(faults, address) ==
  [i \in DOMAIN faults |-> Check(faults[i], {1}, faults[i] \in address.faults)]

LastLineCheck(address, allow_international) ==
  Check(LastLineFault(address.last_line, allow_international), {1},
        ~HasValidLastLine(address.last_line, allow_international))

(* PrecompiledPostalAddress.error_code; the address is on page 1.          *)
AddressChecks(address, allow_international) ==
  FaultChecks(EarlyAddressFaults, address)
    \o << LastLineCheck(address, allow_international) >>
    \o FaultChecks(LateAddressFaults, address)

(* get_invalid_pages_with_message *)
ContentChecks(doc, is_an_attachment) ==
  << PageCheck("letter-not-a4-portrait-oriented", WrongSizePages(doc)),
     PageCheck("content-outside-printable-area",
               OutOfBoundsPages(doc, is_an_attachment)),
     PageCheck("notify-tag-found-in-content",
               PagesWithNotifyTag(doc, is_an_attachment)) >>

IsLetterTooLong(page_count) == page_count > LETTER_MAX_PAGE_COUNT

LengthCheck(doc) ==
  Check("letter-too-long", NULL, IsLetterTooLong(Len(doc.pages)))

(* Every check of a readable document, in the order the code makes them.   *)
Checks(doc, is_an_attachment, allow_international) ==
  << LengthCheck(doc) >>
    \o ContentChecks(doc, is_an_attachment)
    \o (IF is_an_attachment THEN << >>
        ELSE AddressChecks(doc.address, allow_international))

-----------------------------------------------------------------------------
(* Results.                                                                *)

Messages == {"unable-to-read-the-file", "letter-too-long",
             "letter-not-a4-portrait-oriented", "content-outside-printable-area",
             "notify-tag-found-in-content"} \cup AddressFaults

ASSUME NullAssumption == NULL \notin Messages /\ NULL \notin Nat

Result(page_count, message, invalid_pages, recipient_address) ==
  [page_count |-> page_count, message |-> message,
   invalid_pages |-> invalid_pages, recipient_address |-> recipient_address]

(* Any other exception "is probably a bug but usually infrequent, so       *)
(* pretend it's invalid".                                                  *)
Unreadable == Result(NULL, "unable-to-read-the-file", NULL, NULL)

Failures(checks) == {i \in DOMAIN checks : checks[i].fails}

FirstFailure(checks) ==
  checks[CHOOSE i \in Failures(checks) : \A j \in Failures(checks) : i <= j]

(* The verdict when nothing unexpected happens: that of the first check    *)
(* that fails.                                                             *)
Verdict(doc, is_an_attachment, allow_international) ==
  LET checks == Checks(doc, is_an_attachment, allow_international)
  IN  CASE ~doc.readable -> Unreadable
        [] doc.readable /\ Failures(checks) = {} ->
             Result(Len(doc.pages), NULL, NULL,
                    IF is_an_attachment THEN NULL ELSE doc.address)
        [] doc.readable /\ Failures(checks) # {} ->
             Result(Len(doc.pages), FirstFailure(checks).message,
                    FirstFailure(checks).pages, NULL)

(* Ghostscript killed by the out-of-memory killer, a page PyMuPDF cannot   *)
(* read, an exception of a library: each of them turns the verdict on any  *)
(* document into "unable-to-read-the-file", this time and perhaps not the  *)
(* next.                                                                   *)
SanitiseOutcomes(doc, is_an_attachment, allow_international) ==
  {Verdict(doc, is_an_attachment, allow_international), Unreadable}

(* What the print provider can print, said without the checks of the code, *)
(* for properties to compare them with.                                    *)
Printable(doc, is_an_attachment, allow_international) ==
  /\ doc.readable
  /\ Len(doc.pages) \in 1..LETTER_MAX_PAGE_COUNT
  /\ \A n \in DOMAIN doc.pages :
       LET page == doc.pages[n]
           first == n = 1 /\ ~is_an_attachment
       IN  /\ page.a4
           /\ page.ink # "margin"
           /\ first => page.ink = "inside"
           /\ page.box = <<"NOTIFY">> => first
  /\ ~is_an_attachment =>
       /\ doc.address.faults = {}
       /\ doc.address.last_line \in
            {"postcode"} \cup (IF allow_international THEN {"country"} ELSE {})

===========================================================================
