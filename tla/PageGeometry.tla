---------------------------- MODULE PageGeometry ----------------------------
(***************************************************************************)
(* Where things are on a page of a precompiled letter or an attachment: a  *)
(* dot of its ink meets the white overlay of the checks, the red overlay   *)
(* that shows a user what is wrong, the redaction, the new address block,  *)
(* the NOTIFY tag and the cover that hides it in a preview.                *)
(*                                                                         *)
(* Lengths are in thousandths of a millimetre.  A place on a page is       *)
(* measured as NotifyCanvas.rect does: from the left of the page, and down *)
(* from a line 297 mm above its bottom, before the viewer turns the page.  *)
(* A page is its width, its height and its turn: the code reads no more of *)
(* it, and boxes that do not start at the page's corner are left out.      *)
(***************************************************************************)
EXTENDS SanitiseContract, Integers

CONSTANTS
  Sheets,       \* the pages
  Dots,         \* where they may have ink
  MAX_LINES     \* PostalAddress: seven lines in production

mm == 1000
A4_WIDTH == 210 * mm
A4_HEIGHT == 297 * mm

Sheet == [width : Nat, height : Nat, rotate : {0, 90, 180, 270},
          number : Nat \ {0}, is_an_attachment : BOOLEAN]

ASSUME SheetsAssumption == Sheets \subseteq Sheet
ASSUME DotsAssumption == Dots \subseteq [x : Int, y : Int]
ASSUME PlaceAssumption ==
  /\ NULL \notin [left : Int, top : Int, right : Int, bottom : Int]
  /\ NULL \notin [top : Int, bottom : Int]
  /\ NULL \notin [endpoint : {"png", "pdf"}, red : BOOLEAN]
  /\ NULL \notin BOOLEAN
ASSUME LinesAssumption == MAX_LINES \in 1..8

VARIABLES
  page,     \* the page
  dot,      \* the place of a dot of its ink
  pc,       \* what happens next to the page
  message,  \* the verdict of the checks, NULL when they find nothing
  shown,    \* the overlay last drawn: for which endpoint, and if red there
  gone,     \* the dot has been redacted or painted over
  address,  \* where Notify's address is: its top and bottom
  turned,   \* how far the page that is sent has to be turned to be viewed
  tag,      \* where Notify's tag is, on the page as it is viewed
  cover     \* what of that page a preview hides

vars == <<page, dot, pc, message, shown, gone, address, turned, tag, cover>>

-----------------------------------------------------------------------------
(* Rectangles.                                                             *)

Rect(left, top, right, bottom) ==
  [left |-> left, top |-> top, right |-> right, bottom |-> bottom]

Wider(r, by) == Rect(r.left - by, r.top - by, r.right + by, r.bottom + by)

In(place, r) ==
  /\ r.left <= place.x /\ place.x <= r.right
  /\ r.top <= place.y /\ place.y <= r.bottom

Inside(r, s) ==
  /\ s.left <= r.left /\ r.right <= s.right
  /\ s.top <= r.top /\ r.bottom <= s.bottom

Border == Rect(15 * mm, 5 * mm, A4_WIDTH - 15 * mm, A4_HEIGHT - 5 * mm)
BODY_TOP == 95 * mm
Body == [Border EXCEPT !.top = BODY_TOP]
ServiceAddress == [Border EXCEPT !.left = 125 * mm, !.bottom = BODY_TOP]
Logo == [Border EXCEPT !.right = ServiceAddress.left, !.bottom = 30 * mm]
AddressWindow == Rect(24600, 39500, 120 * mm, 66300)

(* Mutant: a margin of 2 mm is enough to find the address.                 *)
ADDRESS_BOUNDING_BOX_TwoMm == Wider(AddressWindow, 2 * mm)

(* PyMuPDF measures from the top of the page itself.                       *)
ADDRESS_BOUNDING_BOX == Wider(AddressWindow, 3 * mm)
NOTIFY_TAG_BOUNDING_BOX == Rect(0, 0, 15191, 6149)

(* The dot on the page as it is viewed: from its left and from its top.    *)
Viewed ==
  LET u == dot.x
      v == A4_HEIGHT - dot.y
  IN  CASE page.rotate = 0   -> [x |-> u, y |-> page.height - v]
        [] page.rotate = 90  -> [x |-> v, y |-> u]
        [] page.rotate = 180 -> [x |-> page.width - u, y |-> v]
        [] page.rotate = 270 -> [x |-> page.height - v, y |-> page.width - u]

ViewedSize ==
  IF page.rotate \in {0, 180} THEN [x |-> page.width, y |-> page.height]
  ELSE [x |-> page.height, y |-> page.width]

(* Lengths in tenths of a point, 1/72 of an inch.                          *)
Points(tenths) == (tenths * 25400) \div 720

-----------------------------------------------------------------------------
(* The checks.                                                             *)

Near(length, expected) == length - expected \in (-2 * mm)..(2 * mm)

IsA4Portrait(sheet) ==
  \/ /\ Near(sheet.height, A4_HEIGHT) /\ Near(sheet.width, A4_WIDTH)
     /\ sheet.rotate \in {0, 180}
  \/ /\ Near(sheet.width, A4_HEIGHT) /\ Near(sheet.height, A4_WIDTH)
     /\ sheet.rotate \in {90, 270}

(* Every boundary is a millimetre more generous than the published one.    *)
WhiteOnLaterPages(place) == In(place, Wider(Border, 1 * mm))

(* Mutant: the service's address may start where the window ends.          *)
WhiteOnAddressPage_NoGap(place) ==
  \/ In(place, Wider(Body, 1 * mm))
  \/ In(place, Wider([ServiceAddress EXCEPT !.left = 120 * mm], 1 * mm))
  \/ In(place, Wider(Logo, 1 * mm))
  \/ In(place, Wider(AddressWindow, 1 * mm))

(* Mutant: the top margin is drawn from the edge of the page.              *)
WhiteOnAddressPage_NoTopMargin(place) ==
  \/ In(place, Wider(Body, 1 * mm))
  \/ In(place, Wider([ServiceAddress EXCEPT !.top = 0], 1 * mm))
  \/ In(place, Wider(Logo, 1 * mm))
  \/ In(place, Wider(AddressWindow, 1 * mm))

WhiteOnAddressPage(place) ==
  \/ In(place, Wider(Body, 1 * mm))
  \/ In(place, Wider(ServiceAddress, 1 * mm))
  \/ In(place, Wider(Logo, 1 * mm))
  \/ In(place, Wider(AddressWindow, 1 * mm))

IsAddressPage == page.number = 1 /\ ~page.is_an_attachment

(* Only white is left when the ink has been painted over.                  *)
IsPaintedWhite ==
  IF IsAddressPage THEN WhiteOnAddressPage(dot) ELSE WhiteOnLaterPages(dot)

-----------------------------------------------------------------------------
Init ==
  /\ page \in Sheets
  /\ dot \in Dots
  /\ pc = "size"
  /\ message = NULL
  /\ shown = NULL
  /\ gone = FALSE
  /\ address = NULL
  /\ turned = page.rotate
  /\ tag = NULL
  /\ cover = NULL

unwritten == <<gone, address, turned, tag, cover>>

Reject(reason) == pc' = "rejected" /\ message' = reason

(* _get_pages_with_invalid_orientation_or_size                             *)
CheckSize ==
  /\ pc = "size"
  /\ IF IsA4Portrait(page) THEN pc' = "bounds" /\ UNCHANGED message
     ELSE Reject("letter-not-a4-portrait-oriented")
  /\ UNCHANGED <<page, dot, shown, unwritten>>

(* Mutant: a letter is passed through like an attachment.                  *)
CheckBounds_NotRewritten ==
  /\ pc = "bounds"
  /\ IF IsPaintedWhite THEN pc' = "passed" /\ UNCHANGED message
     ELSE Reject("content-outside-printable-area")
  /\ UNCHANGED <<page, dot, shown, unwritten>>

(* _get_out_of_bounds_pages, on a copy with a white overlay.               *)
CheckBounds ==
  /\ pc = "bounds"
  /\ IF IsPaintedWhite
     THEN /\ pc' = IF IsAddressPage THEN "redact" ELSE "passed"
          /\ UNCHANGED message
     ELSE Reject("content-outside-printable-area")
  /\ UNCHANGED <<page, dot, shown, unwritten>>

(* What is under a redaction is removed, and the rectangle painted white.  *)
(* Where PyMuPDF redacts a page that is to be turned is left open.         *)
Redact ==
  /\ pc = "redact"
  /\ IF page.rotate = 0 THEN gone' = In(Viewed, ADDRESS_BOUNDING_BOX)
     ELSE gone' \in BOOLEAN
  /\ pc' = "write_address"
  /\ UNCHANGED <<page, dot, message, shown, address, turned, tag, cover>>

(* Mutant: the text is not pushed up.                                      *)
WriteAddress_NotRaised ==
  /\ pc = "write_address"
  /\ gone' = (gone \/ In(dot, AddressWindow))
  /\ \E lines \in 1..MAX_LINES :
       address' = [top |-> AddressWindow.bottom - Points(85 * (lines - 1) + 73),
                   bottom |-> AddressWindow.bottom + Points(17)]
  /\ pc' = "normalise"
  /\ UNCHANGED <<page, dot, message, shown, turned, tag, cover>>

(* The window is painted white, and the lines of the address are set in it *)
(* upwards from its bottom: 8 pt Arial with 8.5 pt from line to line,      *)
(* raised by 2 pt.  Its tallest letters reach 7.3 pt above the baseline    *)
(* and the lowest 1.7 pt below.  How far to the right a line reaches is    *)
(* left open, as in the code, which does not wrap lines.                   *)
WriteAddress ==
  /\ pc = "write_address"
  /\ gone' = (gone \/ In(dot, AddressWindow))
  /\ \E lines \in 1..MAX_LINES :
       address' =
         [top |-> AddressWindow.bottom - Points(85 * (lines - 1) + 20 + 73),
          bottom |-> AddressWindow.bottom - Points(20 - 17)]
  /\ pc' = "normalise"
  /\ UNCHANGED <<page, dot, message, shown, turned, tag, cover>>

(* normalise_fonts_and_colours: Ghostscript writes a page as it is viewed. *)
(* It does not run on a letter with CMYK images only, all fonts embedded.  *)
Normalise ==
  /\ pc = "normalise"
  /\ turned' \in {0, turned}
  /\ pc' = "add_tag"
  /\ UNCHANGED <<page, dot, message, shown, gone, address, tag, cover>>

TagBelow(top) ==
  LET baseline == top + 1800 + Points(60)
  IN  Rect(1800, baseline - Points(55), 1800 + Points(220), baseline + Points(13))

(* Mutant: every page is taken to be exactly 297 mm high.                  *)
Tag_FromA4Top == TagBelow(ViewedSize.y - A4_HEIGHT)

(* The tag is set in 6 pt Arial, 22 pt wide, its baseline a line below the *)
(* margin of 1.8 mm, both measured from the top left of the page as it is  *)
(* stored, before it is turned.                                            *)
Tag == TagBelow(0)

(* Where a rectangle of the page as it is stored is seen.                  *)
Turned(r) ==
  LET w == page.width
      h == page.height
  IN  CASE turned = 0   -> r
        [] turned = 90  -> Rect(h - r.bottom, r.left, h - r.top, r.right)
        [] turned = 180 -> Rect(w - r.right, h - r.bottom, w - r.left, h - r.top)
        [] turned = 270 -> Rect(r.top, w - r.right, r.bottom, w - r.left)

(* add_notify_tag_to_letter; no tag is written where is_notify_tag_present *)
(* has read one that came with the letter.                                 *)
AddTag ==
  /\ pc = "add_tag"
  /\ tag' = Turned(Tag) \/ UNCHANGED tag
  /\ pc' = "passed"
  /\ UNCHANGED <<page, dot, message, shown, gone, address, turned, cover>>

-----------------------------------------------------------------------------
(* What users see.                                                         *)

(* Mutant: the area right of the address window is left out.               *)
RedOnAddressPage_NoRightArea(place) ==
  \/ In(place, Rect(Logo.left, Logo.bottom, AddressWindow.left, Body.top))
  \/ In(place, Rect(AddressWindow.left, Logo.bottom,
                    AddressWindow.right, AddressWindow.top))
  \/ In(place, Rect(AddressWindow.left, AddressWindow.bottom,
                    AddressWindow.right, Body.top))

(* Left of the address window, above, right of and below it.               *)
RedOnAddressPage(place) ==
  \/ In(place, Rect(Border.left, Logo.bottom, AddressWindow.left, Body.top))
  \/ In(place, Rect(AddressWindow.left, Logo.bottom,
                    AddressWindow.right, AddressWindow.top))
  \/ In(place, Rect(AddressWindow.right, Logo.bottom,
                    ServiceAddress.left, Body.top))
  \/ In(place, Rect(AddressWindow.left, AddressWindow.bottom,
                    AddressWindow.right, Body.top))

RedMargins(place) ==
  \/ In(place, Rect(0, 0, Border.left, A4_HEIGHT))
  \/ In(place, Rect(Border.left, 0, Border.right, Border.top))
  \/ In(place, Rect(Border.right, 0, A4_WIDTH, A4_HEIGHT))
  \/ In(place, Rect(Border.left, Border.bottom, Border.right, A4_HEIGHT))

Red(place, is_first_page) ==
  RedMargins(place) \/ (is_first_page /\ RedOnAddressPage(place))

Overlay(endpoint, is_first_page) ==
  /\ pc \in {"rejected", "passed"}
  /\ shown' = [endpoint |-> endpoint, red |-> Red(dot, is_first_page)]
  /\ UNCHANGED <<page, dot, pc, message, unwritten>>

(* is_first_page has priority, but is not looked at for an attachment.     *)
IsFirstPage(first_arg, page_arg, is_an_attachment) ==
  IF first_arg # NULL /\ ~is_an_attachment THEN first_arg
  ELSE page_arg = 1 /\ ~is_an_attachment

(* /precompiled/overlay.png, asked for the page with either argument or    *)
(* with both; /precompiled/overlay.pdf takes every first page for a        *)
(* letter's.                                                               *)
OverlayPng ==
  \E first_arg \in {NULL, page.number = 1}, page_arg \in {NULL, page.number} :
    /\ page_arg = NULL => first_arg # NULL /\ ~page.is_an_attachment
    /\ Overlay("png", IsFirstPage(first_arg, page_arg, page.is_an_attachment))

OverlayPdf == Overlay("pdf", page.number = 1)

(* Pixels of a preview of 150 dots per inch.                               *)
Pixels(n) == (n * 25400) \div 150

(* Mutant: the cover is as high as a line of the tag's text.               *)
HideNotifyTag_TooLow ==
  /\ pc = "passed" /\ IsAddressPage
  /\ cover' = Rect(0, 0, Pixels(130), Pixels(12))
  /\ UNCHANGED <<page, dot, pc, message, shown, gone, address, turned, tag>>

(* hide_notify_tag, in the picture of the page as it is viewed.            *)
HideNotifyTag ==
  /\ pc = "passed" /\ IsAddressPage
  /\ cover' = Rect(0, 0, Pixels(130), Pixels(50))
  /\ UNCHANGED <<page, dot, pc, message, shown, gone, address, turned, tag>>

Next ==
  \/ CheckSize \/ CheckBounds \/ Redact \/ WriteAddress
  \/ Normalise \/ AddTag \/ OverlayPng \/ OverlayPdf \/ HideNotifyTag

Spec == Init /\ [][Next]_vars

-----------------------------------------------------------------------------
(* Properties.                                                             *)

IsPlace(r) == r \in [left : Int, top : Int, right : Int, bottom : Int]

(* Every variable keeps its type, and what was written on a page is known  *)
(* once it has passed.                                                     *)
TypeOK ==
  /\ page \in Sheets /\ dot \in Dots
  /\ pc \in {"size", "bounds", "redact", "write_address", "normalise",
             "add_tag", "rejected", "passed"}
  /\ message \in {NULL, "letter-not-a4-portrait-oriented",
                  "content-outside-printable-area"}
  /\ shown \in {NULL} \cup [endpoint : {"png", "pdf"}, red : BOOLEAN]
  /\ gone \in BOOLEAN
  /\ address \in {NULL} \cup [top : Int, bottom : Int]
  /\ turned \in {0, page.rotate}
  /\ tag # NULL => IsPlace(tag)
  /\ cover # NULL => IsPlace(cover)
  /\ pc = "passed" => (address # NULL <=> IsAddressPage)

Blamed == message = "content-outside-printable-area"
Passed == pc = "passed"

AtTheEdge ==
  ~ /\ Viewed.x \in 2 * mm .. ViewedSize.x - 2 * mm
    /\ Viewed.y \in 2 * mm .. ViewedSize.y - 2 * mm

(* What fails the checks is red in either overlay ("this is so users know  *)
(* which parts of they letter fail validation"), but for the 2 mm by which *)
(* an accepted page may be larger than the overlay.                        *)
BlamedIsRed == Blamed /\ shown # NULL => shown.red \/ AtTheEdge

(* That is so wherever the canvas of the overlay, A4 and upright, reaches: *)
(* on all of a page that is upright or upside down, but on a page that is  *)
(* turned by a quarter only up to 210 mm from the left of the page as it   *)
(* is stored, so that 87 mm of it may fail and never be red.               *)
BlamedIsRedOnCanvas ==
  page.rotate \in {0, 180} \/ dot.x <= A4_WIDTH => BlamedIsRed

(* What is red and passed all the same is within a millimetre of what is   *)
(* not red: the checks and the published boundaries do not drift apart.    *)
Beside(place) ==
  {[x |-> place.x + dx, y |-> place.y + dy] :
     dx \in {-1001, 0, 1001}, dy \in {-1001, 0, 1001}}

RedIsExplained ==
  Passed /\ shown # NULL /\ shown.endpoint = "png" /\ shown.red
  => \E place \in Beside(dot) : ~Red(place, IsAddressPage)

(* The overlay is drawn "so the code can check for a presence of non white *)
(* in the areas outside the printable area": what passes keeps the margins *)
(* of the page a reader sees, but for the millimetre that is given and the *)
(* two a page may be too large or small.                                   *)
MarginsKept ==
  Passed =>
    /\ Viewed.x \in 12 * mm .. ViewedSize.x - 12 * mm
    /\ Viewed.y \in 2 * mm .. ViewedSize.y - 2 * mm

(* That is so for pages that are upright or upside down.                   *)
UnturnedMarginsKept == page.rotate \in {0, 180} => MarginsKept

(* Between the logo and the body of an upright letter, and left of the     *)
(* service's address, nothing is left of what was uploaded, so that what   *)
(* shows in the window is the address that was validated, and nothing is   *)
(* lost anywhere else: the 3 mm that are redacted around the window make   *)
(* up for the 1 mm the checks give and the 2 mm a page may be off.         *)
AddressReplaced ==
  Passed /\ page.rotate = 0 =>
    (gone <=> /\ IsAddressPage
              /\ In(dot, Rect(15 * mm, 32 * mm, 123 * mm, 93 * mm)))

(* What Notify writes is where it is looked for: on a letter that is not   *)
(* turned, an address of any number of lines starts and ends inside its    *)
(* window ("we don't want them going out of the address window"); the tag  *)
(* is where is_notify_tag_present looks on a page that never was turned or *)
(* that Ghostscript has straightened, and on no other; and a preview hides *)
(* all of the place where it looks.                                        *)
WrittenInPlace ==
  /\ address # NULL /\ page.rotate = 0 =>
       /\ AddressWindow.top <= address.top
       /\ address.bottom <= AddressWindow.bottom
  /\ tag # NULL => (Inside(tag, NOTIFY_TAG_BOUNDING_BOX) <=> turned = 0)
  /\ cover # NULL => Inside(NOTIFY_TAG_BOUNDING_BOX, cover)

(* The kinds of ink of SanitiseContract.                                   *)
InkAt(place) ==
  CASE WhiteOnAddressPage(place) -> "inside"
    [] WhiteOnLaterPages(place) /\ ~WhiteOnAddressPage(place) -> "address_strip"
    [] ~WhiteOnLaterPages(place) /\ ~WhiteOnAddressPage(place) -> "margin"

(* A document of which this is the last page, and the only one with ink.   *)
AsDocument ==
  [pages |-> [n \in 1..page.number |->
     [a4 |-> IsA4Portrait(page), box |-> << >>,
      ink |-> IF n = page.number THEN InkAt(dot) ELSE "inside"]]]

(* The three kinds of ink are all the checks can tell apart: the geometry  *)
(* gives the verdict of SanitiseContract on them, so no page that is       *)
(* accepted as a first page is out of bounds as another one.               *)
SameAsContract ==
  pc \notin {"size", "bounds"} /\ IsA4Portrait(page) =>
    (Blamed <=>
       page.number \in OutOfBoundsPages(AsDocument, page.is_an_attachment))

=============================================================================
