--------------------------- MODULE MCPageGeometry ---------------------------
(***************************************************************************)
(* Every kind of page, with a dot at, just before and just after each      *)
(* boundary.                                                               *)
(***************************************************************************)
EXTENDS PageGeometry

(* The smallest and largest pages that are accepted, and one too wide.     *)
MCSize == {<<210000, 297000>>, <<208000, 299000>>, <<212000, 295000>>,
           <<213000, 297000>>}

UprightSheets ==
  {[width |-> s[1], height |-> s[2], rotate |-> r,
    number |-> n, is_an_attachment |-> a] :
     s \in MCSize, r \in {0, 180}, n \in 1..2, a \in BOOLEAN}
TurnedSheets ==
  {[width |-> s[2], height |-> s[1], rotate |-> r,
    number |-> n, is_an_attachment |-> a] :
     s \in MCSize, r \in {90, 270}, n \in 1..2, a \in BOOLEAN}
MCSheets == UprightSheets \cup TurnedSheets

Around(edges) == edges \cup {e - 1 : e \in edges} \cup {e + 1 : e \in edges}

MCDots ==
  [x : {0, 211500, 296000} \cup
       Around({14000, 21600, 23600, 24600, 120000, 121000, 124000, 196000}),
   y : {-1500, 0, 100000, 297000} \cup
       Around({4000, 31000, 38500, 39500, 66300, 67300, 94000, 293000})]

OnPage(sheet, place) ==
  /\ place.x <= sheet.width
  /\ A4_HEIGHT - place.y \in 0..sheet.height

(* Ink off the page is not drawn.                                          *)
MCInit == Init /\ OnPage(page, dot)

MCSpec == MCInit /\ [][Next]_vars

=============================================================================
