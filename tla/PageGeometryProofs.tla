------------------------- MODULE PageGeometryProofs -------------------------
(***************************************************************************)
(* The properties of PageGeometry hold for every page and wherever on it   *)
(* the ink is, not only at the boundaries.                                 *)
(***************************************************************************)
EXTENDS PageGeometry, TLAPS

-----------------------------------------------------------------------------
(* The inductive invariant.                                                *)

Accepted == {"redact", "write_address", "normalise", "add_tag", "passed"}
Rewriting == {"redact", "write_address", "normalise", "add_tag"}

(* What has been checked so far.                                           *)
CheckedOK ==
  /\ pc \in Accepted => /\ IsPaintedWhite /\ message = NULL
                        /\ IsA4Portrait(page)
  /\ pc = "bounds" => IsA4Portrait(page)
  /\ pc \in Rewriting => IsAddressPage
  /\ pc = "size" \/ pc = "bounds" => message = NULL
  /\ pc = "rejected" => Blamed \/ ~IsA4Portrait(page)
  /\ Blamed => ~IsPaintedWhite /\ pc = "rejected" /\ IsA4Portrait(page)

ShownOK ==
  shown # NULL =>
    /\ shown.endpoint = "png" => shown.red = Red(dot, IsAddressPage)
    /\ shown.endpoint = "pdf" => shown.red = Red(dot, page.number = 1)

(* What has been redacted or painted over so far.                          *)
GoneOK ==
  /\ pc \notin {"write_address", "normalise", "add_tag", "passed"} => ~gone
  /\ pc = "passed" /\ ~IsAddressPage => ~gone
  /\ pc = "write_address" /\ page.rotate = 0 =>
       gone = In(Viewed, ADDRESS_BOUNDING_BOX)
  /\ pc \in {"normalise", "add_tag", "passed"} /\ IsAddressPage
     /\ page.rotate = 0 =>
       gone = (In(Viewed, ADDRESS_BOUNDING_BOX) \/ In(dot, AddressWindow))

AddressText(lines) ==
  [top |-> AddressWindow.bottom - Points(85 * (lines - 1) + 20 + 73),
   bottom |-> AddressWindow.bottom - Points(20 - 17)]

WrittenOK ==
  /\ address # NULL => \E lines \in 1..MAX_LINES : address = AddressText(lines)
  /\ pc \in {"size", "bounds", "redact", "write_address"} => address = NULL
  /\ pc \in {"normalise", "add_tag"} => address # NULL
  /\ pc = "passed" => (address # NULL <=> IsAddressPage)
  /\ tag # NULL => tag = Turned(Tag)
  /\ pc # "passed" => tag = NULL
  /\ cover # NULL => cover = Rect(0, 0, Pixels(130), Pixels(50))

Inv == TypeOK /\ CheckedOK /\ ShownOK /\ GoneOK /\ WrittenOK

-----------------------------------------------------------------------------
(* Lemmas on lengths.                                                      *)

LEMMA MessagesDiffer ==
  /\ NULL # "letter-not-a4-portrait-oriented"
  /\ NULL # "content-outside-printable-area"
BY NullAssumption DEF Messages

LEMMA AddressTextType ==
  ASSUME NEW lines \in 1..MAX_LINES
  PROVE  AddressText(lines) \in [top : Int, bottom : Int]
BY LinesAssumption DEF AddressText, AddressWindow, Rect, Points, mm

LEMMA TagIs ==
  /\ IsPlace(Tag)
  /\ Tag.left = 1800 /\ Tag.top = 1976
  /\ Tag.right = 9561 /\ Tag.bottom = 4374
BY DEF Tag, TagBelow, Rect, Points, IsPlace

(* Wherever the page is turned, the tag is somewhere.                      *)
LEMMA TurnedTagType ==
  ASSUME TypeOK
  PROVE  IsPlace(Turned(Tag))
<1>1. turned \in {0, 90, 180, 270} /\ page.width \in Nat /\ page.height \in Nat
  BY SheetsAssumption DEF TypeOK, Sheet
<1>2. /\ Tag.left \in Int /\ Tag.top \in Int
      /\ Tag.right \in Int /\ Tag.bottom \in Int
  BY TagIs
<1> HIDE DEF Tag
<1> QED BY <1>1, <1>2, TagIs DEF Turned, Rect, IsPlace

LEMMA CoverType == IsPlace(Rect(0, 0, Pixels(130), Pixels(50)))
BY DEF Rect, Pixels, IsPlace

-----------------------------------------------------------------------------
(* The invariant is inductive.                                             *)

LEMMA InitInv == ASSUME Init PROVE Inv
<1>1. TypeOK
  BY DEF Init, TypeOK
<1>2. CheckedOK /\ ShownOK
  BY MessagesDiffer
     DEF Init, CheckedOK, ShownOK, Accepted, Rewriting, Blamed
<1>3. GoneOK /\ WrittenOK
  BY DEF Init, GoneOK, WrittenOK
<1> QED BY <1>1, <1>2, <1>3 DEF Inv

(* The page and the dot stay what and where they are.                      *)
LEMMA PlacesStay ==
  ASSUME UNCHANGED <<page, dot>>
  PROVE  /\ UNCHANGED <<IsAddressPage, IsPaintedWhite, Viewed>>
         /\ UNCHANGED <<IsA4Portrait(page), Red(dot, IsAddressPage)>>
         /\ UNCHANGED <<Red(dot, page.number = 1), In(dot, AddressWindow)>>
         /\ UNCHANGED In(Viewed, ADDRESS_BOUNDING_BOX)
<1>1. UNCHANGED <<IsAddressPage, Viewed>>
  BY DEF IsAddressPage, Viewed
<1>2. UNCHANGED IsPaintedWhite
  BY <1>1 DEF IsPaintedWhite
<1> QED BY <1>1, <1>2

LEMMA TagStays ==
  ASSUME UNCHANGED <<page, turned>>
  PROVE  UNCHANGED Turned(Tag)
BY DEF Turned, Tag, TagBelow, Rect

LEMMA CheckSizeInv == ASSUME Inv, CheckSize PROVE Inv'
<1>1. TypeOK'
  BY DEF Inv, TypeOK, CheckSize, Reject, unwritten
<1>2. CheckedOK'
  BY PlacesStay, MessagesDiffer
     DEF Inv, CheckedOK, CheckSize, Reject, Accepted, Rewriting, Blamed
<1>3. ShownOK'
  BY PlacesStay DEF Inv, ShownOK, CheckSize
<1>4. GoneOK'
  BY DEF Inv, GoneOK, CheckSize, Reject, unwritten
<1>5. WrittenOK'
  BY DEF Inv, WrittenOK, CheckSize, Reject, unwritten
<1> QED BY <1>1, <1>2, <1>3, <1>4, <1>5 DEF Inv

LEMMA CheckBoundsInv == ASSUME Inv, CheckBounds PROVE Inv'
<1>1. UNCHANGED <<IsAddressPage, address>> /\ address = NULL
  BY PlacesStay DEF Inv, WrittenOK, CheckBounds, unwritten
<1>2. TypeOK'
  BY <1>1 DEF Inv, TypeOK, CheckBounds, Reject, unwritten
<1>3. CheckedOK'
  BY PlacesStay, MessagesDiffer
     DEF Inv, CheckedOK, CheckBounds, Reject, Accepted, Rewriting, Blamed
<1>4. ShownOK'
  BY PlacesStay DEF Inv, ShownOK, CheckBounds
<1>5. GoneOK'
  BY <1>1 DEF Inv, GoneOK, CheckBounds, Reject, unwritten
<1>6. WrittenOK'
  BY <1>1 DEF Inv, WrittenOK, CheckBounds, Reject, unwritten
<1> QED BY <1>2, <1>3, <1>4, <1>5, <1>6 DEF Inv

LEMMA RedactInv == ASSUME Inv, Redact PROVE Inv'
<1>1. TypeOK'
  BY DEF Inv, TypeOK, Redact, In
<1>2. CheckedOK'
  BY PlacesStay DEF Inv, CheckedOK, Redact, Accepted, Rewriting, Blamed
<1>3. ShownOK'
  BY PlacesStay DEF Inv, ShownOK, Redact
<1>4. GoneOK'
  BY PlacesStay DEF Inv, GoneOK, Redact
<1>5. WrittenOK'
  BY DEF Inv, WrittenOK, Redact
<1> QED BY <1>1, <1>2, <1>3, <1>4, <1>5 DEF Inv

LEMMA WriteAddressInv == ASSUME Inv, WriteAddress PROVE Inv'
<1>1. PICK lines \in 1..MAX_LINES : address' = AddressText(lines)
  BY DEF WriteAddress, AddressText
<1>2. address' \in [top : Int, bottom : Int] /\ address' # NULL
  BY <1>1, AddressTextType, PlaceAssumption
<1>3. IsAddressPage /\ IsAddressPage'
  BY PlacesStay DEF Inv, CheckedOK, WriteAddress, Rewriting
<1>4. TypeOK'
  BY <1>2 DEF Inv, TypeOK, WriteAddress, In
<1>5. CheckedOK'
  BY PlacesStay DEF Inv, CheckedOK, WriteAddress, Accepted, Rewriting, Blamed
<1>6. ShownOK'
  BY PlacesStay DEF Inv, ShownOK, WriteAddress
<1>7. GoneOK'
  BY <1>3, PlacesStay DEF Inv, GoneOK, WriteAddress
<1>8. WrittenOK'
  BY <1>1, <1>2 DEF Inv, WrittenOK, WriteAddress
<1> QED BY <1>4, <1>5, <1>6, <1>7, <1>8 DEF Inv

LEMMA NormaliseInv == ASSUME Inv, Normalise PROVE Inv'
<1>1. tag = NULL /\ UNCHANGED tag /\ UNCHANGED page
  BY DEF Inv, WrittenOK, Normalise
<1>2. TypeOK'
  BY <1>1 DEF Inv, TypeOK, Normalise
<1>3. CheckedOK'
  BY PlacesStay DEF Inv, CheckedOK, Normalise, Accepted, Rewriting, Blamed
<1>4. ShownOK'
  BY PlacesStay DEF Inv, ShownOK, Normalise
<1>5. GoneOK'
  BY PlacesStay DEF Inv, GoneOK, Normalise
<1>6. WrittenOK'
  BY <1>1 DEF Inv, WrittenOK, Normalise
<1> QED BY <1>2, <1>3, <1>4, <1>5, <1>6 DEF Inv

LEMMA AddTagInv == ASSUME Inv, AddTag PROVE Inv'
<1>1. IsAddressPage /\ IsAddressPage' /\ address # NULL /\ UNCHANGED address
  BY PlacesStay DEF Inv, CheckedOK, WrittenOK, AddTag, Rewriting
<1>2. /\ tag' # NULL => IsPlace(tag')
      /\ tag' # NULL => tag' = Turned(Tag)'
  <2>1. CASE tag' = Turned(Tag)
    BY <2>1, TurnedTagType, TagStays DEF Inv, AddTag
  <2>2. CASE UNCHANGED tag
    BY <2>2 DEF Inv, WrittenOK, AddTag
  <2> QED BY <2>1, <2>2 DEF AddTag
<1>3. TypeOK'
  BY <1>1, <1>2 DEF Inv, TypeOK, AddTag
<1>4. CheckedOK'
  BY PlacesStay DEF Inv, CheckedOK, AddTag, Accepted, Rewriting, Blamed
<1>5. ShownOK'
  BY PlacesStay DEF Inv, ShownOK, AddTag
<1>6. GoneOK'
  BY <1>1, PlacesStay DEF Inv, GoneOK, AddTag
<1>7. WrittenOK'
  BY <1>1, <1>2 DEF Inv, WrittenOK, AddTag
<1> QED BY <1>3, <1>4, <1>5, <1>6, <1>7 DEF Inv

(* An overlay changes nothing of the page that is sent.                    *)
LEMMA OverlayInv ==
  ASSUME Inv, NEW endpoint \in {"png", "pdf"}, NEW first \in BOOLEAN,
         Overlay(endpoint, first),
         first = IF endpoint = "png" THEN IsAddressPage ELSE page.number = 1
  PROVE  Inv'
<1> DEFINE red == Red(dot, first)
<1>1. red \in BOOLEAN /\ shown' = [endpoint |-> endpoint, red |-> red]
  BY DEF Overlay, Red, RedMargins, RedOnAddressPage
<1>2. ShownOK'
  <2>1. CASE endpoint = "png"
    BY <1>1, <2>1, PlacesStay DEF ShownOK, Overlay
  <2>2. CASE endpoint = "pdf"
    BY <1>1, <2>2, PlacesStay DEF ShownOK, Overlay
  <2> QED BY <2>1, <2>2
<1> HIDE DEF red
<1>3. shown' \in [endpoint : {"png", "pdf"}, red : BOOLEAN]
  BY <1>1
<1>4. UNCHANGED <<page, dot, pc, message, gone, address, turned, tag, cover>>
  BY DEF Overlay, unwritten
<1>5. TypeOK'
  BY <1>3, <1>4, PlacesStay DEF Inv, TypeOK
<1>6. CheckedOK' /\ GoneOK' /\ WrittenOK'
  <2>1. CheckedOK'
    BY <1>4, PlacesStay DEF Inv, CheckedOK, Blamed
  <2>2. GoneOK'
    BY <1>4, PlacesStay DEF Inv, GoneOK
  <2>3. WrittenOK'
    BY <1>4, PlacesStay, TagStays DEF Inv, WrittenOK
  <2> QED BY <2>1, <2>2, <2>3
<1> QED BY <1>2, <1>5, <1>6 DEF Inv

(* With any of the arguments, overlay.png knows an address page.           *)
LEMMA FirstPageIsAddressPage ==
  ASSUME TypeOK, NEW first_arg \in {NULL, page.number = 1},
         NEW page_arg \in {NULL, page.number},
         page_arg = NULL => first_arg # NULL /\ ~page.is_an_attachment
  PROVE  IsFirstPage(first_arg, page_arg, page.is_an_attachment)
           = IsAddressPage
<1>1. page.number \in Nat \ {0} /\ page.is_an_attachment \in BOOLEAN
  BY SheetsAssumption DEF TypeOK, Sheet
<1> DEFINE first == page.number = 1
<1>2. first \in BOOLEAN /\ NULL \notin BOOLEAN
  BY PlaceAssumption
<1>3. CASE first_arg = NULL
  <2>1. page_arg = page.number
    BY <1>3
  <2> QED BY <1>3, <2>1 DEF IsFirstPage, IsAddressPage
<1>4. CASE first_arg = first
  <2>1. first_arg # NULL
    BY <1>2, <1>4
  <2>2. CASE page.is_an_attachment
    BY <2>2, <1>4 DEF IsFirstPage, IsAddressPage
  <2>3. CASE ~page.is_an_attachment
    <3>1. IsFirstPage(first_arg, page_arg, page.is_an_attachment) = first_arg
      BY <2>1, <2>3 DEF IsFirstPage
    <3> QED BY <3>1, <2>3, <1>4 DEF IsAddressPage
  <2> QED BY <2>2, <2>3
<1> QED BY <1>3, <1>4

LEMMA OverlayPngInv == ASSUME Inv, OverlayPng PROVE Inv'
<1>1. Overlay("png", IsAddressPage)
  BY FirstPageIsAddressPage DEF Inv, OverlayPng
<1>2. IsAddressPage \in BOOLEAN
  BY DEF IsAddressPage
<1> QED BY <1>1, <1>2, OverlayInv

LEMMA HideNotifyTagInv == ASSUME Inv, HideNotifyTag PROVE Inv'
<1>1. TypeOK'
  BY CoverType, PlacesStay DEF Inv, TypeOK, HideNotifyTag
<1>2. CheckedOK'
  BY PlacesStay DEF Inv, CheckedOK, HideNotifyTag, Blamed
<1>3. ShownOK' /\ GoneOK'
  BY PlacesStay DEF Inv, ShownOK, GoneOK, HideNotifyTag
<1>4. WrittenOK'
  BY PlacesStay, TagStays DEF Inv, WrittenOK, HideNotifyTag
<1> QED BY <1>1, <1>2, <1>3, <1>4 DEF Inv

LEMMA NextInv == ASSUME Inv, [Next]_vars PROVE Inv'
<1>1. CASE UNCHANGED vars
  <2>1. TypeOK' /\ WrittenOK'
    BY <1>1, PlacesStay, TagStays DEF Inv, TypeOK, WrittenOK, vars
  <2>2. CheckedOK' /\ ShownOK' /\ GoneOK'
    BY <1>1, PlacesStay DEF Inv, CheckedOK, ShownOK, GoneOK, Blamed, vars
  <2> QED BY <2>1, <2>2 DEF Inv
<1>2. CASE OverlayPdf
  BY <1>2, OverlayInv DEF OverlayPdf
<1> QED BY <1>1, <1>2, OverlayPngInv, CheckSizeInv, CheckBoundsInv, RedactInv,
           WriteAddressInv, NormaliseInv, AddTagInv, HideNotifyTagInv DEF Next

(* The invariant holds: the state is what the steps so far have made of    *)
(* one and the same dot.                                                   *)
THEOREM InvHolds == Spec => []Inv
BY InitInv, NextInv, PTL DEF Spec

(* Every variable keeps its type.                                          *)
THEOREM TypeCorrect == Spec => []TypeOK
BY InvHolds, PTL DEF Inv

-----------------------------------------------------------------------------
(* Geometry.                                                               *)

Place == [x : Int, y : Int]

LEMMA DotIsPlace == ASSUME TypeOK PROVE dot \in Place
BY DotsAssumption DEF TypeOK, Place

LEMMA PageIsSheet ==
  ASSUME TypeOK
  PROVE  /\ page.width \in Nat /\ page.height \in Nat
         /\ page.rotate \in {0, 90, 180, 270}
         /\ page.number \in Nat \ {0} /\ page.is_an_attachment \in BOOLEAN
BY SheetsAssumption DEF TypeOK, Sheet

(* The boundaries as numbers.                                              *)
LEMMA WhiteOnLaterPagesIs ==
  ASSUME NEW place \in Place
  PROVE  WhiteOnLaterPages(place) <=>
           /\ 14000 <= place.x /\ place.x <= 196000
           /\ 4000 <= place.y /\ place.y <= 293000
BY DEF Place, WhiteOnLaterPages, In, Wider, Rect, Border, mm, A4_WIDTH, A4_HEIGHT

WhiteBody(place) ==
  /\ 14000 <= place.x /\ place.x <= 196000
  /\ 94000 <= place.y /\ place.y <= 293000

WhiteService(place) ==
  /\ 124000 <= place.x /\ place.x <= 196000
  /\ 4000 <= place.y /\ place.y <= 96000

WhiteLogo(place) ==
  /\ 14000 <= place.x /\ place.x <= 126000
  /\ 4000 <= place.y /\ place.y <= 31000

WhiteWindow(place) ==
  /\ 23600 <= place.x /\ place.x <= 121000
  /\ 38500 <= place.y /\ place.y <= 67300

LEMMA WhiteOnAddressPageIs ==
  ASSUME NEW place \in Place
  PROVE  WhiteOnAddressPage(place) <=>
           \/ WhiteBody(place) \/ WhiteService(place)
           \/ WhiteLogo(place) \/ WhiteWindow(place)
<1>1. In(place, Wider(Body, 1 * mm)) <=> WhiteBody(place)
  BY DEF WhiteBody, Place, In, Wider, Rect, mm, Border, Body, BODY_TOP, A4_WIDTH, A4_HEIGHT
<1>2. In(place, Wider(ServiceAddress, 1 * mm)) <=> WhiteService(place)
  BY DEF WhiteService, Place, In, Wider, Rect, mm, Border, ServiceAddress, BODY_TOP, A4_WIDTH,
         A4_HEIGHT
<1>3. In(place, Wider(Logo, 1 * mm)) <=> WhiteLogo(place)
  BY DEF WhiteLogo, Place, In, Wider, Rect, mm, Border, Logo, ServiceAddress, A4_WIDTH, A4_HEIGHT
<1>4. In(place, Wider(AddressWindow, 1 * mm)) <=> WhiteWindow(place)
  BY DEF WhiteWindow, Place, In, Wider, Rect, mm, AddressWindow
<1> QED BY <1>1, <1>2, <1>3, <1>4 DEF WhiteOnAddressPage

LEMMA RedMarginsIs ==
  ASSUME NEW place \in Place
  PROVE  RedMargins(place) <=>
           \/ /\ 0 <= place.x /\ place.x <= 15000
              /\ 0 <= place.y /\ place.y <= 297000
           \/ /\ 15000 <= place.x /\ place.x <= 195000
              /\ 0 <= place.y /\ place.y <= 5000
           \/ /\ 195000 <= place.x /\ place.x <= 210000
              /\ 0 <= place.y /\ place.y <= 297000
           \/ /\ 15000 <= place.x /\ place.x <= 195000
              /\ 292000 <= place.y /\ place.y <= 297000
BY DEF Place, RedMargins, In, Rect, Border, mm, A4_WIDTH, A4_HEIGHT

LEMMA RedOnAddressPageIs ==
  ASSUME NEW place \in Place
  PROVE  RedOnAddressPage(place) <=>
           \/ /\ 15000 <= place.x /\ place.x <= 24600
              /\ 30000 <= place.y /\ place.y <= 95000
           \/ /\ 24600 <= place.x /\ place.x <= 120000
              /\ 30000 <= place.y /\ place.y <= 39500
           \/ /\ 120000 <= place.x /\ place.x <= 125000
              /\ 30000 <= place.y /\ place.y <= 95000
           \/ /\ 24600 <= place.x /\ place.x <= 120000
              /\ 66300 <= place.y /\ place.y <= 95000
BY DEF Place, RedOnAddressPage, In, Rect, Border, Body, BODY_TOP, Logo,
       ServiceAddress, AddressWindow, mm, A4_WIDTH, A4_HEIGHT

(* Every place of the sheet is white for the checks or red for the user.   *)
LEMMA WhiteOrRed ==
  ASSUME NEW place \in Place, NEW first \in BOOLEAN,
         In(place, Rect(0, 0, A4_WIDTH, A4_HEIGHT)),
         ~(IF first THEN WhiteOnAddressPage(place) ELSE WhiteOnLaterPages(place))
  PROVE  Red(place, first)
<1>1. /\ 0 <= place.x /\ place.x <= 210000 /\ 0 <= place.y /\ place.y <= 297000
      /\ place.x \in Int /\ place.y \in Int
  BY DEF In, Rect, A4_WIDTH, A4_HEIGHT, mm, Place
<1>2. CASE first
  BY <1>1, <1>2, WhiteOnAddressPageIs, RedMarginsIs, RedOnAddressPageIs
     DEF Red, WhiteBody, WhiteService, WhiteLogo, WhiteWindow
<1>3. CASE ~first
  BY <1>1, <1>3, WhiteOnLaterPagesIs, RedMarginsIs DEF Red
<1> QED BY <1>2, <1>3

(* Within a millimetre of a stretch that is longer than the step into it.  *)
CloseTo(low, high, at) ==
  low + 2002 < high /\ low - 1000 <= at /\ at <= high + 1000

Between(low, high, at) == low < at /\ at < high

(* From anywhere within a millimetre of an area, a step leads into it.     *)
LEMMA StepAside ==
  ASSUME NEW at \in Int, NEW low \in Int, NEW high \in Int,
         low + 2002 < high, low - 1000 <= at, at <= high + 1000
  PROVE  \E d \in {-1001, 0, 1001} : low < at + d /\ at + d < high
<1>1. CASE at <= low
  <2>1. low < at + 1001 /\ at + 1001 < high
    BY <1>1
  <2> QED BY <2>1
<1>2. CASE at >= high
  <2>1. low < at + (-1001) /\ at + (-1001) < high
    BY <1>2
  <2> QED BY <2>1
<1>3. CASE low < at /\ at < high
  <2>1. low < at + 0 /\ at + 0 < high
    BY <1>3
  <2> QED BY <2>1
<1> QED BY <1>1, <1>2, <1>3

LEMMA StepInside ==
  ASSUME NEW place \in Place, NEW left \in Int, NEW top \in Int,
         NEW right \in Int, NEW bottom \in Int,
         CloseTo(left, right, place.x), CloseTo(top, bottom, place.y)
  PROVE  \E near \in Beside(place) :
           /\ near \in Place
           /\ Between(left, right, near.x) /\ Between(top, bottom, near.y)
<1>1. place.x \in Int /\ place.y \in Int
  BY DEF Place
<1>2. \E d \in {-1001, 0, 1001} : left < place.x + d /\ place.x + d < right
  <2>1. left + 2002 < right /\ left - 1000 <= place.x /\ place.x <= right + 1000
    BY DEF CloseTo
  <2> QED BY <1>1, <2>1, StepAside
<1>3. \E d \in {-1001, 0, 1001} : top < place.y + d /\ place.y + d < bottom
  <2>1. top + 2002 < bottom /\ top - 1000 <= place.y /\ place.y <= bottom + 1000
    BY DEF CloseTo
  <2> QED BY <1>1, <2>1, StepAside
<1>4. PICK dx \in {-1001, 0, 1001} : left < place.x + dx /\ place.x + dx < right
  BY <1>2
<1>5. PICK dy \in {-1001, 0, 1001} : top < place.y + dy /\ place.y + dy < bottom
  BY <1>3
<1> DEFINE near == [x |-> place.x + dx, y |-> place.y + dy]
<1>6. near \in Beside(place)
  BY <1>4, <1>5 DEF Beside
<1>7. near \in Place
  BY <1>1, <1>4, <1>5 DEF Place
<1>8. Between(left, right, near.x) /\ Between(top, bottom, near.y)
  BY <1>4, <1>5 DEF Between
<1> HIDE DEF near
<1> QED BY <1>6, <1>7, <1>8

LEMMA WhiteIsNearlyRight ==
  ASSUME NEW place \in Place, NEW first \in BOOLEAN,
         IF first THEN WhiteOnAddressPage(place) ELSE WhiteOnLaterPages(place)
  PROVE  \E near \in Beside(place) : ~Red(near, first)
<1>1. place.x \in Int /\ place.y \in Int
  BY DEF Place
<1>2. CASE ~first
  <2>1. CloseTo(15000, 195000, place.x) /\ CloseTo(5000, 292000, place.y)
    BY <1>1, <1>2, WhiteOnLaterPagesIs DEF CloseTo
  <2>2. PICK near \in Beside(place) :
          /\ near \in Place
          /\ Between(15000, 195000, near.x) /\ Between(5000, 292000, near.y)
    BY <2>1, StepInside
  <2>3. ~RedMargins(near)
    BY <2>2, RedMarginsIs DEF Between, Place
  <2> QED BY <1>2, <2>2, <2>3 DEF Red
(* One case for each area that is white.                                   *)
<1>3. CASE first /\ WhiteBody(place)
  <2>1. CloseTo(15000, 195000, place.x) /\ CloseTo(95000, 292000, place.y)
    BY <1>1, <1>3 DEF CloseTo, WhiteBody
  <2>2. PICK near \in Beside(place) :
          /\ near \in Place
          /\ Between(15000, 195000, near.x) /\ Between(95000, 292000, near.y)
    BY <2>1, StepInside
  <2>3. ~RedMargins(near) /\ ~RedOnAddressPage(near)
    BY <2>2, RedMarginsIs, RedOnAddressPageIs DEF Between, Place
  <2> QED BY <2>2, <2>3 DEF Red
<1>4. CASE first /\ WhiteService(place)
  <2>1. CloseTo(125000, 195000, place.x) /\ CloseTo(5000, 95000, place.y)
    BY <1>1, <1>4 DEF CloseTo, WhiteService
  <2>2. PICK near \in Beside(place) :
          /\ near \in Place
          /\ Between(125000, 195000, near.x) /\ Between(5000, 95000, near.y)
    BY <2>1, StepInside
  <2>3. ~RedMargins(near) /\ ~RedOnAddressPage(near)
    BY <2>2, RedMarginsIs, RedOnAddressPageIs DEF Between, Place
  <2> QED BY <2>2, <2>3 DEF Red
<1>5. CASE first /\ WhiteLogo(place)
  <2>1. CloseTo(15000, 125000, place.x) /\ CloseTo(5000, 30000, place.y)
    BY <1>1, <1>5 DEF CloseTo, WhiteLogo
  <2>2. PICK near \in Beside(place) :
          /\ near \in Place
          /\ Between(15000, 125000, near.x) /\ Between(5000, 30000, near.y)
    BY <2>1, StepInside
  <2>3. ~RedMargins(near) /\ ~RedOnAddressPage(near)
    BY <2>2, RedMarginsIs, RedOnAddressPageIs DEF Between, Place
  <2> QED BY <2>2, <2>3 DEF Red
<1>6. CASE first /\ WhiteWindow(place)
  <2>1. CloseTo(24600, 120000, place.x) /\ CloseTo(39500, 66300, place.y)
    BY <1>1, <1>6 DEF CloseTo, WhiteWindow
  <2>2. PICK near \in Beside(place) :
          /\ near \in Place
          /\ Between(24600, 120000, near.x) /\ Between(39500, 66300, near.y)
    BY <2>1, StepInside
  <2>3. ~RedMargins(near) /\ ~RedOnAddressPage(near)
    BY <2>2, RedMarginsIs, RedOnAddressPageIs DEF Between, Place
  <2> QED BY <2>2, <2>3 DEF Red
<1>7. CASE first
  BY <1>3, <1>4, <1>5, <1>6, <1>7, WhiteOnAddressPageIs
<1> QED BY <1>2, <1>7

LEMMA InvRedIsExplained == ASSUME Inv PROVE RedIsExplained
<1> SUFFICES ASSUME Passed
             PROVE  \E place \in Beside(dot) : ~Red(place, IsAddressPage)
  BY DEF RedIsExplained
<1>1. dot \in Place /\ IsAddressPage \in BOOLEAN
  BY DotIsPlace DEF Inv, IsAddressPage
<1>2. IsPaintedWhite
  BY DEF Inv, CheckedOK, Passed, Accepted
<1> QED BY <1>1, <1>2, WhiteIsNearlyRight DEF IsPaintedWhite

(* No ink that passes is more than a millimetre away from an area that is  *)
(* not red.                                                                *)
THEOREM RedIsExplainedHolds == Spec => []RedIsExplained
BY InvHolds, InvRedIsExplained, PTL

-----------------------------------------------------------------------------
(* Margins.                                                                *)

(* Anything white keeps the margins of the overlay.                        *)
LEMMA WhiteKeepsMargins ==
  ASSUME TypeOK, IsPaintedWhite
  PROVE  /\ 14000 <= dot.x /\ dot.x <= 196000
         /\ 4000 <= dot.y /\ dot.y <= 293000
         /\ dot.x \in Int /\ dot.y \in Int
<1>1. dot \in Place
  BY DotIsPlace
<1> QED BY <1>1, WhiteOnAddressPageIs, WhiteOnLaterPagesIs
        DEF IsPaintedWhite, Place, WhiteBody, WhiteService, WhiteLogo, WhiteWindow

LEMMA NearIs ==
  ASSUME NEW length \in Int, NEW expected \in Int, Near(length, expected)
  PROVE  expected - 2000 <= length /\ length <= expected + 2000
BY DEF Near, mm

LEMMA UnturnedSize ==
  ASSUME TypeOK, IsA4Portrait(page), page.rotate \in {0, 180}
  PROVE  /\ 295000 <= page.height /\ page.height <= 299000
         /\ 208000 <= page.width /\ page.width <= 212000
         /\ page.height \in Int /\ page.width \in Int
<1>1. Near(page.height, A4_HEIGHT) /\ Near(page.width, A4_WIDTH)
  BY DEF IsA4Portrait
<1>2. page.height \in Int /\ page.width \in Int
  BY PageIsSheet
<1>3. A4_HEIGHT = 297000 /\ A4_WIDTH = 210000
  BY DEF A4_HEIGHT, A4_WIDTH, mm
<1>4. Near(page.height, 297000) /\ Near(page.width, 210000)
  BY <1>1, <1>3
<1>5. 297000 - 2000 <= page.height /\ page.height <= 297000 + 2000
  BY <1>2, <1>4, NearIs
<1>6. 210000 - 2000 <= page.width /\ page.width <= 210000 + 2000
  BY <1>2, <1>4, NearIs
<1> QED BY <1>2, <1>5, <1>6

LEMMA ViewedIs ==
  /\ page.rotate = 0 =>
       Viewed = [x |-> dot.x, y |-> page.height - (297000 - dot.y)]
  /\ page.rotate = 180 =>
       Viewed = [x |-> page.width - dot.x, y |-> 297000 - dot.y]
BY DEF Viewed, A4_HEIGHT, mm

LEMMA InvUnturnedMarginsKept == ASSUME Inv PROVE UnturnedMarginsKept
<1> DEFINE x == Viewed.x
           y == Viewed.y
           h == page.height
           w == page.width
<1> SUFFICES ASSUME page.rotate \in {0, 180}, Passed
             PROVE  /\ x \in (12 * mm)..(ViewedSize.x - 12 * mm)
                    /\ y \in (2 * mm)..(ViewedSize.y - 2 * mm)
  BY DEF UnturnedMarginsKept, MarginsKept
<1>1. IsPaintedWhite /\ IsA4Portrait(page) /\ TypeOK
  BY DEF Inv, CheckedOK, Passed, Accepted
<1>2. ViewedSize.x = w /\ ViewedSize.y = h
  BY DEF ViewedSize
<1>3. /\ h \in Int /\ 295000 <= h /\ h <= 299000
      /\ w \in Int /\ 208000 <= w /\ w <= 212000
  BY <1>1, UnturnedSize
<1>4. /\ 14000 <= dot.x /\ dot.x <= 196000 /\ dot.x \in Int
      /\ 4000 <= dot.y /\ dot.y <= 293000 /\ dot.y \in Int
  BY <1>1, WhiteKeepsMargins
<1>5. \/ x = dot.x /\ y = h - (297000 - dot.y)
      \/ x = w - dot.x /\ y = 297000 - dot.y
  BY ViewedIs
<1> HIDE DEF x, y, h, w
<1>6. x \in Int /\ y \in Int /\ 12000 <= x /\ x <= w - 12000
      /\ 2000 <= y /\ y <= h - 2000
  BY <1>3, <1>4, <1>5
<1>7. 12 * mm = 12000 /\ 2 * mm = 2000
  BY DEF mm
<1> QED BY <1>2, <1>3, <1>6, <1>7

(* No page that is upright or upside down is accepted with ink in its      *)
(* margins.                                                                *)
THEOREM UnturnedMarginsHold == Spec => []UnturnedMarginsKept
BY InvHolds, InvUnturnedMarginsKept, PTL

-----------------------------------------------------------------------------
(* What fails and is not red.                                              *)

LEMMA TurnedSize ==
  ASSUME TypeOK, IsA4Portrait(page), page.rotate \in {90, 270}
  PROVE  /\ 208000 <= page.height /\ page.height <= 212000
         /\ 295000 <= page.width /\ page.width <= 299000
         /\ page.height \in Int /\ page.width \in Int
<1>1. Near(page.width, A4_HEIGHT) /\ Near(page.height, A4_WIDTH)
  BY DEF IsA4Portrait
<1>2. page.height \in Int /\ page.width \in Int
  BY PageIsSheet
<1>3. A4_HEIGHT = 297000 /\ A4_WIDTH = 210000
  BY DEF A4_HEIGHT, A4_WIDTH, mm
<1>4. Near(page.width, 297000) /\ Near(page.height, 210000)
  BY <1>1, <1>3
<1>5. 297000 - 2000 <= page.width /\ page.width <= 297000 + 2000
  BY <1>2, <1>4, NearIs
<1>6. 210000 - 2000 <= page.height /\ page.height <= 210000 + 2000
  BY <1>2, <1>4, NearIs
<1> QED BY <1>2, <1>5, <1>6

(* Ink beside the canvas of the overlay is at the edge of the page or, on  *)
(* a page that is turned by a quarter, to the right of the canvas.         *)
LEMMA OffCanvasIsAtTheEdge ==
  ASSUME TypeOK, IsA4Portrait(page),
         ~In(dot, Rect(0, 0, A4_WIDTH, A4_HEIGHT)),
         page.rotate \in {0, 180} \/ dot.x <= A4_WIDTH
  PROVE  AtTheEdge
<1> DEFINE x == Viewed.x
           y == Viewed.y
           h == page.height
           w == page.width
<1>1. dot.x \in Int /\ dot.y \in Int
  BY DotIsPlace DEF Place
<1>2. \/ dot.x < 0
      \/ 210000 < dot.x /\ page.rotate \in {0, 180}
      \/ dot.y < 0
      \/ 297000 < dot.y
  BY <1>1 DEF In, Rect, A4_WIDTH, A4_HEIGHT, mm
<1>3. CASE page.rotate \in {0, 180}
  <2>1. /\ h \in Int /\ 295000 <= h /\ h <= 299000
        /\ w \in Int /\ 208000 <= w /\ w <= 212000
    BY <1>3, UnturnedSize
  <2>2. ViewedSize.x = w /\ ViewedSize.y = h
    BY <1>3 DEF ViewedSize
  <2>3. \/ x = dot.x /\ y = h - (297000 - dot.y)
        \/ x = w - dot.x /\ y = 297000 - dot.y
    BY <1>3, ViewedIs
  <2> HIDE DEF x, y, h, w
  <2>4. x < 2000 \/ w - 2000 < x \/ y < 2000 \/ h - 2000 < y
    BY <1>1, <1>2, <2>1, <2>3
  <2>5. x \in Int /\ y \in Int
    BY <1>1, <2>1, <2>3
  <2>6. ~(x \in 2000..(w - 2000) /\ y \in 2000..(h - 2000))
    BY <2>1, <2>4, <2>5
  <2> QED BY <2>2, <2>6 DEF AtTheEdge, mm, x, y
<1>4. CASE page.rotate \in {90, 270}
  <2>1. /\ h \in Int /\ 208000 <= h /\ h <= 212000
        /\ w \in Int /\ 295000 <= w /\ w <= 299000
    BY <1>4, TurnedSize
  <2>2. ViewedSize.x = h /\ ViewedSize.y = w
    BY <1>4 DEF ViewedSize
  <2>3. \/ x = 297000 - dot.y /\ y = dot.x
        \/ x = h - (297000 - dot.y) /\ y = w - dot.x
    BY <1>4 DEF Viewed, A4_HEIGHT, mm
  <2> HIDE DEF x, y, h, w
  <2>4. x < 2000 \/ h - 2000 < x \/ y < 2000 \/ w - 2000 < y
    BY <1>1, <1>2, <1>4, <2>1, <2>3
  <2>5. x \in Int /\ y \in Int
    BY <1>1, <2>1, <2>3
  <2>6. ~(x \in 2000..(h - 2000) /\ y \in 2000..(w - 2000))
    BY <2>1, <2>4, <2>5
  <2> QED BY <2>2, <2>6 DEF AtTheEdge, mm, x, y
<1> QED BY <1>3, <1>4, PageIsSheet

LEMMA InvBlamedIsRedOnCanvas == ASSUME Inv PROVE BlamedIsRedOnCanvas
<1> SUFFICES ASSUME page.rotate \in {0, 180} \/ dot.x <= A4_WIDTH,
                    Blamed, shown # NULL, ~AtTheEdge
             PROVE  shown.red
  BY DEF BlamedIsRedOnCanvas, BlamedIsRed
<1>1. dot \in Place /\ IsAddressPage \in BOOLEAN
  BY DotIsPlace DEF Inv, IsAddressPage
<1>2. IsA4Portrait(page) /\ ~IsPaintedWhite
  BY DEF Inv, CheckedOK
<1>3. In(dot, Rect(0, 0, A4_WIDTH, A4_HEIGHT))
  BY <1>2, OffCanvasIsAtTheEdge DEF Inv
<1>4. Red(dot, IsAddressPage)
  BY <1>1, <1>2, <1>3, WhiteOrRed DEF IsPaintedWhite
<1>5. Red(dot, page.number = 1)
  BY <1>4 DEF Red, IsAddressPage
<1>6. shown.endpoint \in {"png", "pdf"}
  BY DEF Inv, TypeOK
<1> QED BY <1>4, <1>5, <1>6 DEF Inv, ShownOK

(* Ink that fails the check of the boundaries is red in both overlays: on  *)
(* pages that are upright or upside down all of it, on those turned by a   *)
(* quarter all up to the right end of the overlay's canvas, but for what   *)
(* is within 2 mm of an edge.                                              *)
THEOREM BlamedIsRedOnCanvasHolds == Spec => []BlamedIsRedOnCanvas
BY InvHolds, InvBlamedIsRedOnCanvas, PTL

-----------------------------------------------------------------------------
(* The address and the tag.                                                *)

(* On a page of any height that is accepted, the redaction covers what the *)
(* checks let through around the window, and ends before anything else.    *)
LEMMA RedactedOrElsewhere ==
  ASSUME TypeOK, WhiteOnAddressPage(dot), IsA4Portrait(page), page.rotate = 0
  PROVE  In(Viewed, ADDRESS_BOUNDING_BOX) \/ In(dot, AddressWindow)
           <=> In(dot, Rect(15 * mm, 32 * mm, 123 * mm, 93 * mm))
<1> DEFINE down == page.height - 297000
<1>1. dot \in Place /\ dot.x \in Int /\ dot.y \in Int
  BY DotIsPlace DEF Place
<1>2. down \in Int /\ -2000 <= down /\ down <= 2000
  BY UnturnedSize
<1>3. Viewed.x = dot.x /\ Viewed.y = dot.y + down
  <2>1. page.height \in Int
    BY UnturnedSize
  <2>2. Viewed.x = dot.x /\ Viewed.y = page.height - (297000 - dot.y)
    BY ViewedIs
  <2> QED BY <1>1, <2>1, <2>2
<1> HIDE DEF down
<1>4. In(Viewed, ADDRESS_BOUNDING_BOX) <=>
        /\ 21600 <= dot.x /\ dot.x <= 123000
        /\ 36500 <= dot.y + down /\ dot.y + down <= 69300
  <2>1. ADDRESS_BOUNDING_BOX = [left |-> 21600, top |-> 36500,
                                right |-> 123000, bottom |-> 69300]
    BY DEF ADDRESS_BOUNDING_BOX, Wider, AddressWindow, Rect, mm
  <2> QED BY <1>3, <2>1 DEF In
<1>5. In(dot, AddressWindow) <=>
        /\ 24600 <= dot.x /\ dot.x <= 120000
        /\ 39500 <= dot.y /\ dot.y <= 66300
  BY DEF In, AddressWindow, Rect, mm
<1>6. In(dot, Rect(15 * mm, 32 * mm, 123 * mm, 93 * mm)) <=>
        /\ 15000 <= dot.x /\ dot.x <= 123000
        /\ 32000 <= dot.y /\ dot.y <= 93000
  BY DEF In, Rect, mm
<1>7. \/ WhiteBody(dot) \/ WhiteService(dot) \/ WhiteLogo(dot) \/ WhiteWindow(dot)
  BY <1>1, WhiteOnAddressPageIs
<1> HIDE DEF down
<1> QED BY <1>1, <1>2, <1>4, <1>5, <1>6, <1>7
        DEF WhiteBody, WhiteService, WhiteLogo, WhiteWindow

LEMMA InvAddressReplaced == ASSUME Inv PROVE AddressReplaced
<1> SUFFICES ASSUME Passed, page.rotate = 0
             PROVE  gone <=>
                      /\ IsAddressPage
                      /\ In(dot, Rect(15 * mm, 32 * mm, 123 * mm, 93 * mm))
  BY DEF AddressReplaced
<1>1. IsPaintedWhite /\ IsA4Portrait(page) /\ TypeOK
  BY DEF Inv, CheckedOK, Passed, Accepted
<1>2. CASE ~IsAddressPage
  BY <1>2 DEF Inv, GoneOK, Passed
<1>3. CASE IsAddressPage
  <2>1. gone = (In(Viewed, ADDRESS_BOUNDING_BOX) \/ In(dot, AddressWindow))
    BY <1>3 DEF Inv, GoneOK, Passed
  <2>2. WhiteOnAddressPage(dot)
    BY <1>1, <1>3 DEF IsPaintedWhite
  <2> QED BY <1>1, <1>3, <2>1, <2>2, RedactedOrElsewhere
<1> QED BY <1>2, <1>3

(* What shows in the window of an upright letter that passed is Notify's   *)
(* address, and nothing else of the letter is lost.                        *)
THEOREM AddressReplacedHolds == Spec => []AddressReplaced
BY InvHolds, InvAddressReplaced, PTL

LEMMA AddressFits ==
  ASSUME NEW lines \in 1..MAX_LINES
  PROVE  /\ AddressWindow.top <= AddressText(lines).top
         /\ AddressText(lines).bottom <= AddressWindow.bottom
BY LinesAssumption DEF AddressText, AddressWindow, Rect, Points, mm

(* An accepted page is wider and higher than the box, so that a turn puts  *)
(* the tag into another corner.                                            *)
LEMMA TagFits ==
  ASSUME TypeOK, IsA4Portrait(page)
  PROVE  Inside(Turned(Tag), NOTIFY_TAG_BOUNDING_BOX) <=> turned = 0
<1>1. /\ turned \in {0, 90, 180, 270}
      /\ page.width \in Int /\ page.height \in Int
  BY PageIsSheet DEF TypeOK
<1>2. page.width > 200000 /\ page.height > 200000
  BY UnturnedSize, TurnedSize, PageIsSheet
<1> HIDE DEF Tag
<1> QED BY <1>1, <1>2, TagIs
        DEF Turned, Inside, NOTIFY_TAG_BOUNDING_BOX, Rect

LEMMA CoverFits ==
  Inside(NOTIFY_TAG_BOUNDING_BOX, Rect(0, 0, Pixels(130), Pixels(50)))
BY DEF Inside, NOTIFY_TAG_BOUNDING_BOX, Rect, Pixels

LEMMA InvWrittenInPlace == ASSUME Inv PROVE WrittenInPlace
<1>1. tag # NULL => (Inside(tag, NOTIFY_TAG_BOUNDING_BOX) <=> turned = 0)
  BY TagFits DEF Inv, WrittenOK, CheckedOK, Accepted
<1> QED BY <1>1, AddressFits, CoverFits DEF Inv, WrittenOK, WrittenInPlace

(* On a letter that is not turned, an address of any number of lines that  *)
(* PostalAddress allows starts and ends inside its window; on any first    *)
(* page, the tag is inside its box exactly when the page needs no turning; *)
(* and the cover hides the box.                                            *)
THEOREM WrittenInPlaceHolds == Spec => []WrittenInPlace
BY InvHolds, InvWrittenInPlace, PTL

-----------------------------------------------------------------------------
(* The contract.                                                           *)

LEMMA AddressPageIsSmaller ==
  ASSUME NEW place \in Place, WhiteOnAddressPage(place)
  PROVE  WhiteOnLaterPages(place)
<1>1. place.x \in Int /\ place.y \in Int
  BY DEF Place
<1> QED BY <1>1, WhiteOnAddressPageIs, WhiteOnLaterPagesIs
        DEF WhiteBody, WhiteService, WhiteLogo, WhiteWindow

LEMMA InvSameAsContract == ASSUME Inv PROVE SameAsContract
<1> SUFFICES ASSUME pc \notin {"size", "bounds"}, IsA4Portrait(page)
             PROVE  Blamed <=> page.number \in
                      OutOfBoundsPages(AsDocument, page.is_an_attachment)
  BY DEF SameAsContract
<1>1. Blamed <=> ~IsPaintedWhite
  BY MessagesDiffer DEF Inv, TypeOK, CheckedOK, Accepted, Blamed
<1>2. /\ page.number \in DOMAIN AsDocument.pages
      /\ AsDocument.pages[page.number].ink = InkAt(dot)
  BY PageIsSheet DEF Inv, AsDocument
<1>3. page.number \in OutOfBoundsPages(AsDocument, page.is_an_attachment)
        <=> \/ InkAt(dot) = "margin"
            \/ InkAt(dot) = "address_strip" /\ IsAddressPage
  BY <1>2 DEF OutOfBoundsPages, IsAddressPage
<1>4. dot \in Place
  BY DotIsPlace DEF Inv
<1>5. WhiteOnAddressPage(dot) => WhiteOnLaterPages(dot)
  BY <1>4, AddressPageIsSmaller
<1> QED BY <1>1, <1>3, <1>5 DEF InkAt, IsPaintedWhite

(* The three kinds of ink that SanitiseContract knows are as good as the   *)
(* boundaries themselves.                                                  *)
THEOREM SameAsContractHolds == Spec => []SameAsContract
BY InvHolds, InvSameAsContract, PTL

=============================================================================
