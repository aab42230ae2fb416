----------------------- MODULE PreviewRequestsProofs -----------------------
(***************************************************************************)
(* Theorems about PreviewRequests, for letters of any length.              *)
(***************************************************************************)
EXTENDS PreviewRequests, TLAPS

-----------------------------------------------------------------------------
(* Letters and the lengths of their PDFs.                                  *)

LEMMA LetterFacts ==
  ASSUME NEW l \in Letters
  PROVE  /\ l.welsh_then_english \in BOOLEAN
         /\ l.welsh.whole \in Nat \ {0}
         /\ l.english.whole \in Nat \ {0}
         /\ l.english.continued \in Nat \ {0}
         /\ l.english.continued <= l.english.whole
         /\ l.letter_attachment # NULL =>
              /\ l.letter_attachment.page_count \in Nat
              /\ l.letter_attachment.pages \in Nat \cup {NULL}
<1>1. l \in Letter
  BY RequestsAssumption
<1>2. l.welsh \in Rendering /\ l.english \in Rendering
        /\ l.welsh_then_english \in BOOLEAN
        /\ l.letter_attachment \in LetterAttachment \cup {NULL}
  BY <1>1 DEF Letter
<1> QED
  BY <1>2 DEF Rendering, LetterAttachment

LEMMA PagesTyped ==
  ASSUME NEW part, NEW n \in Nat
  PROVE  Pages(part, n) \in Seq({part} \X (1..n)) /\ Len(Pages(part, n)) = n
<1>1. ASSUME NEW i \in 1..n
      PROVE  <<part, i>> \in {part} \X (1..n)
  OBVIOUS
<1>2. Pages(part, n) \in [1..n -> {part} \X (1..n)]
  BY <1>1 DEF Pages
<1> QED
  BY <1>2

LEMMA ConcatLength ==
  ASSUME NEW S, NEW s \in Seq(S), NEW t \in Seq(S)
  PROVE  s \o t \in Seq(S) /\ Len(s \o t) = Len(s) + Len(t)
OBVIOUS

LEMMA WidenSeq ==
  ASSUME NEW S, NEW T, S \subseteq T, NEW s \in Seq(S)
  PROVE  s \in Seq(T)
OBVIOUS

(* How long the letter is without its attachment.                          *)
OwnLength(l) ==
  IF l.welsh_then_english THEN l.welsh.whole + l.english.continued
  ELSE l.english.whole

AttachmentLength(l) ==
  IF l.letter_attachment = NULL THEN 0 ELSE l.letter_attachment.pages

LEMMA PdfTyped ==
  ASSUME NEW l \in Letters, IsThere(l)
  PROVE  /\ GenerateTemplatedPdf(l) \in Seq(OwnPages(l))
         /\ Len(GenerateTemplatedPdf(l)) = OwnLength(l) + AttachmentLength(l)
         /\ AttachmentLength(l) \in Nat /\ OwnLength(l) \in Nat
<1> DEFINE own == OwnPages(l)
<1>1. AttachmentLength(l) \in Nat /\ OwnLength(l) \in Nat
  BY LetterFacts DEF AttachmentLength, OwnLength, IsThere
<1>2. AttachmentOf(l) \in Seq(own) /\ Len(AttachmentOf(l)) = AttachmentLength(l)
  <2>1. CASE l.letter_attachment = NULL
    BY <2>1 DEF AttachmentOf, AttachmentLength
  <2>2. CASE l.letter_attachment # NULL
    <3>1. AttachmentOf(l) = Pages("attachment", AttachmentLength(l))
      BY <2>2 DEF AttachmentOf, AttachmentLength
    <3>2. /\ AttachmentOf(l) \in Seq({"attachment"} \X (1..AttachmentLength(l)))
          /\ Len(AttachmentOf(l)) = AttachmentLength(l)
      BY <1>1, <3>1, PagesTyped
    <3>3. {"attachment"} \X (1..AttachmentLength(l)) \subseteq own
      BY <3>2 DEF OwnPages
    <3> QED
      BY <3>2, <3>3, WidenSeq
  <2> QED
    BY <2>1, <2>2
<1> DEFINE body == IF l.welsh_then_english
                   THEN Pages("welsh", l.welsh.whole)
                          \o Pages("english continued", l.english.continued)
                   ELSE Pages("english whole", l.english.whole)
<1>3. body \in Seq(own) /\ Len(body) = OwnLength(l)
  <2>1. CASE l.welsh_then_english
    <3> DEFINE w == Pages("welsh", l.welsh.whole)
               e == Pages("english continued", l.english.continued)
    <3>1. /\ w \in Seq({"welsh"} \X (1..l.welsh.whole))
          /\ Len(w) = l.welsh.whole
          /\ e \in Seq({"english continued"} \X (1..l.english.continued))
          /\ Len(e) = l.english.continued
      BY LetterFacts, PagesTyped
    <3>2. /\ {"welsh"} \X (1..l.welsh.whole) \subseteq own
          /\ {"english continued"} \X (1..l.english.continued) \subseteq own
      BY <2>1 DEF OwnPages
    <3> HIDE DEF w, e, own
    <3>3. w \in Seq(own) /\ e \in Seq(own)
      BY <3>1, <3>2, WidenSeq
    <3>4. w \o e \in Seq(own) /\ Len(w \o e) = Len(w) + Len(e)
      BY <3>3, ConcatLength
    <3>5. body = w \o e /\ OwnLength(l) = l.welsh.whole + l.english.continued
      BY <2>1 DEF w, e, OwnLength
    <3> QED
      BY <3>1, <3>4, <3>5
  <2>2. CASE ~l.welsh_then_english
    <3> DEFINE e == Pages("english whole", l.english.whole)
    <3>1. /\ e \in Seq({"english whole"} \X (1..l.english.whole))
          /\ Len(e) = l.english.whole
      BY LetterFacts, PagesTyped
    <3>2. {"english whole"} \X (1..l.english.whole) \subseteq own
      BY <2>2 DEF OwnPages
    <3>3. body = e /\ OwnLength(l) = l.english.whole
      BY <2>2 DEF OwnLength
    <3> HIDE DEF e, own, body
    <3> QED
      BY <3>1, <3>2, <3>3, WidenSeq
  <2> QED
    BY <2>1, <2>2
<1>4. GenerateTemplatedPdf(l) = body \o AttachmentOf(l)
  BY DEF GenerateTemplatedPdf
<1> HIDE DEF body, own
<1>5. /\ body \o AttachmentOf(l) \in Seq(own)
      /\ Len(body \o AttachmentOf(l)) = Len(body) + Len(AttachmentOf(l))
  BY <1>2, <1>3, ConcatLength
<1> QED
  BY <1>1, <1>2, <1>3, <1>4, <1>5 DEF own

(* What the count says of the length of the PDF.                           *)
LEMMA CountFacts ==
  ASSUME NEW l \in Letters
  PROVE  /\ CountPages(l) \in [count : Nat, welsh_page_count : Nat,
                               attachment_page_count : Nat]
         /\ CountPages(l).count \in Nat
         /\ (l.letter_attachment # NULL =>
               l.letter_attachment.pages = l.letter_attachment.page_count) =>
              /\ IsThere(l)
              /\ Len(GenerateTemplatedPdf(l)) <= CountPages(l).count
              /\ ~l.welsh_then_english =>
                   Len(GenerateTemplatedPdf(l)) = CountPages(l).count
<1> DEFINE welsh == IF l.welsh_then_english THEN l.welsh.whole ELSE 0
           attachment == IF l.letter_attachment = NULL THEN 0
                         ELSE l.letter_attachment.page_count
<1>1. welsh \in Nat /\ attachment \in Nat /\ l.english.whole \in Nat
  BY LetterFacts
<1>2. CountPages(l) = PageCounts(welsh, l.english.whole, attachment)
  BY DEF CountPages
<1> HIDE DEF welsh, attachment
<1>3. /\ CountPages(l) \in [count : Nat, welsh_page_count : Nat,
                            attachment_page_count : Nat]
      /\ CountPages(l).count = welsh + l.english.whole + attachment
  BY <1>1, <1>2 DEF PageCounts
<1>4. ASSUME l.letter_attachment # NULL =>
               l.letter_attachment.pages = l.letter_attachment.page_count
      PROVE  /\ IsThere(l)
             /\ Len(GenerateTemplatedPdf(l)) <= CountPages(l).count
             /\ ~l.welsh_then_english =>
                  Len(GenerateTemplatedPdf(l)) = CountPages(l).count
  <2>1. IsThere(l)
    BY <1>4, LetterFacts, RequestsAssumption DEF IsThere
  <2>2. AttachmentLength(l) = attachment
    BY <1>4 DEF AttachmentLength, attachment
  <2>3. Len(GenerateTemplatedPdf(l)) = OwnLength(l) + attachment
    BY <2>1, <2>2, PdfTyped
  <2>4. /\ OwnLength(l) <= welsh + l.english.whole
        /\ OwnLength(l) \in Nat
        /\ ~l.welsh_then_english => OwnLength(l) = welsh + l.english.whole
    BY LetterFacts DEF OwnLength, welsh
  <2> QED
    BY <1>1, <1>3, <2>1, <2>3, <2>4
<1> QED
  BY <1>1, <1>3, <1>4

-----------------------------------------------------------------------------
(* The invariant: the user has seen the first pages of the letter, all of  *)
(* them when more have been asked for.                                     *)

pdf == GenerateTemplatedPdf(letter)

SeenOK ==
  AttachmentAsCounted =>
    /\ Len(seen) = IF next_page - 1 <= Len(pdf) THEN next_page - 1 ELSE Len(pdf)
    /\ \A i \in 1..Len(seen) : seen[i] = pdf[i]
    /\ refused > 0 => next_page - 1 > Len(pdf)

Inv ==
  /\ TypeOK
  /\ IF counts = NULL THEN next_page = 1 ELSE counts = CountPages(letter)
  /\ printed # NULL => printed = pdf
  /\ SeenOK

LEMMA PdfSeq ==
  ASSUME TypeOK, IsThere(letter)
  PROVE  pdf \in Seq(OwnPages(letter)) /\ Len(pdf) \in Nat
BY PdfTyped DEF TypeOK, pdf

LEMMA InitInv == ASSUME Init PROVE Inv
<1>1. letter \in Letters /\ next_page = 1 /\ refused = 0 /\ seen = << >>
        /\ counts = NULL /\ printed = NULL
  BY DEF Init
<1>2. TypeOK
  BY <1>1 DEF TypeOK
<1>3. SeenOK
  <2> SUFFICES ASSUME AttachmentAsCounted
               PROVE  Len(pdf) \in Nat
    BY <1>1 DEF SeenOK
  <2>1. IsThere(letter)
    BY <1>1, CountFacts DEF AttachmentAsCounted
  <2> QED
    BY <1>2, <2>1, PdfSeq
<1> QED
  BY <1>1, <1>2, <1>3 DEF Inv

LEMMA SessionStays == ASSUME Inv, UNCHANGED session PROVE Inv'
<1>1. UNCHANGED <<letter, counts, next_page, seen, refused, printed, pdf>>
  BY DEF session, pdf
<1>2. TypeOK'
  BY <1>1 DEF Inv, TypeOK
<1>3. SeenOK'
  BY <1>1 DEF Inv, SeenOK, AttachmentAsCounted
<1> QED
  BY <1>1, <1>2, <1>3 DEF Inv

LEMMA GetPageCountInv == ASSUME Inv, GetPageCount PROVE Inv'
<1>1. counts = NULL /\ counts' = CountPages(letter)
        /\ UNCHANGED <<letter, next_page, seen, refused, printed, pdf>>
  BY DEF GetPageCount, pdf
<1>2. TypeOK /\ letter \in Letters
  BY DEF Inv, TypeOK
<1>3. /\ CountPages(letter) \in [count : Nat, welsh_page_count : Nat,
                                  attachment_page_count : Nat]
      /\ CountPages(letter).count \in Nat
  BY <1>2, CountFacts
<1>4. next_page = 1 /\ next_page <= CountPages(letter).count + 1
  BY <1>1, <1>3 DEF Inv
<1>5. TypeOK'
  BY <1>1, <1>2, <1>3, <1>4 DEF TypeOK
<1>6. SeenOK'
  BY <1>1 DEF Inv, SeenOK, AttachmentAsCounted
<1> QED
  BY <1>1, <1>4, <1>5, <1>6 DEF Inv

(* A page that is there is the answer, any other is refused.               *)
LEMMA PageAnswer ==
  ASSUME NEW S, NEW p \in Seq(S), NEW n \in Nat \ {0}
  PROVE  PageOf(p, n) = IF n <= Len(p) THEN OK(<<p[n]>>) ELSE BadRequest
<1> DEFINE index == IF n - 1 < 0 THEN n - 1 + Len(p) ELSE n - 1
<1>1. index = n - 1 /\ Len(p) \in Nat
  OBVIOUS
<1>2. index \in 0..(Len(p) - 1) <=> n <= Len(p)
  BY <1>1
<1>3. index + 1 = n
  BY <1>1
<1>4. PageOf(p, n) = IF index \in 0..(Len(p) - 1) THEN OK(<<p[index + 1]>>)
                     ELSE BadRequest
  BY DEF PageOf
<1> HIDE DEF index
<1> QED
  BY <1>2, <1>3, <1>4

LEMMA NextPicture ==
  ASSUME TypeOK, TurnPage
  PROVE  /\ IsThere(letter) /\ next_page <= Len(pdf) =>
              answer'.pages = <<pdf[next_page]>> /\ answer'.code # 400
         /\ IsThere(letter) /\ next_page > Len(pdf) =>
              answer'.pages = << >> /\ answer'.code = 400
         /\ ~IsThere(letter) => answer'.pages = << >> /\ answer'.code # 400
<1> DEFINE view == ViewLetterPng(letter, TRUE, next_page)
<1>1. next_page \in Nat \ {0} /\ Requested(next_page) = next_page
        /\ Requested(next_page) \in Int
  BY RequestsAssumption DEF TypeOK, Requested
<1>2. answer' = [view EXCEPT !.page_arg = next_page]
  BY DEF TurnPage, Reply
<1>3. \A code, pages :
        view = Answer(code, pages) =>
          answer'.pages = pages /\ answer'.code = code
  <2> HIDE DEF view
  <2> QED
    BY <1>2 DEF Answer
<1>4. CASE ~IsThere(letter)
  <2>1. view = Answer(500, << >>)
    BY <1>4 DEF ViewLetterPng, ServerError
  <2>2. answer'.pages = << >> /\ answer'.code = 500
    BY <1>3, <2>1
  <2> QED
    BY <1>4, <2>2
<1>5. CASE IsThere(letter)
  <2>1. pdf \in Seq(OwnPages(letter)) /\ Len(pdf) \in Nat
    BY <1>5, PdfSeq
  <2>2. view = PageOf(pdf, next_page)
    BY <1>1, <1>5 DEF ViewLetterPng, pdf
  <2>3. view = IF next_page <= Len(pdf) THEN OK(<<pdf[next_page]>>) ELSE BadRequest
    BY <1>1, <2>1, <2>2, PageAnswer
  <2>4. CASE next_page <= Len(pdf)
    <3>1. view = Answer(200, <<pdf[next_page]>>)
      BY <2>3, <2>4 DEF OK
    <3>2. answer'.pages = <<pdf[next_page]>> /\ answer'.code = 200
      BY <1>3, <3>1
    <3> QED
      BY <1>1, <1>5, <2>1, <2>4, <3>2
  <2>5. CASE ~(next_page <= Len(pdf))
    <3>1. view = Answer(400, << >>)
      BY <2>3, <2>5 DEF BadRequest
    <3>2. answer'.pages = << >> /\ answer'.code = 400
      BY <1>3, <3>1
    <3> QED
      BY <1>1, <1>5, <2>1, <2>5, <3>2
  <2> QED
    BY <2>4, <2>5
<1> QED
  BY <1>4, <1>5

LEMMA AppendPage ==
  ASSUME NEW S, NEW s \in Seq(S), NEW e \in S
  PROVE  /\ s \o <<e>> \in Seq(S) /\ Len(s \o <<e>>) = Len(s) + 1
         /\ \A i \in 1..Len(s) : (s \o <<e>>)[i] = s[i]
         /\ (s \o <<e>>)[Len(s) + 1] = e
OBVIOUS

LEMMA TurnPageInv == ASSUME Inv, TurnPage PROVE Inv'
<1>1. /\ counts # NULL /\ next_page <= counts.count
      /\ next_page' = next_page + 1 /\ seen' = seen \o answer'.pages
      /\ refused' = refused + (IF answer'.code = 400 THEN 1 ELSE 0)
      /\ UNCHANGED <<letter, counts, printed, pdf>>
  BY DEF TurnPage, pdf
<1>2. /\ TypeOK /\ letter \in Letters /\ next_page \in Nat \ {0}
      /\ refused \in 0..(next_page - 1) /\ seen \in Seq(OwnPages(letter))
      /\ counts.count \in Nat
  BY <1>1 DEF Inv, TypeOK
<1>3. TypeOK' /\ (AttachmentAsCounted => SeenOK')
  <2>1. next_page' \in Nat \ {0} /\ refused' \in 0..(next_page' - 1)
          /\ next_page' <= counts'.count + 1
    BY <1>1, <1>2
  <2>2. CASE IsThere(letter) /\ next_page <= Len(pdf)
    <3>1. pdf \in Seq(OwnPages(letter)) /\ Len(pdf) \in Nat
      BY <1>2, <2>2, PdfSeq
    <3>2. seen' = seen \o <<pdf[next_page]>> /\ refused' = refused
      <4>1. answer'.pages = <<pdf[next_page]>> /\ answer'.code # 400
        BY <1>2, <2>2, NextPicture
      <4>2. seen' = seen \o <<pdf[next_page]>>
        BY <1>1, <4>1
      <4>3. refused' = refused
        BY <1>1, <1>2, <4>1
      <4> QED
        BY <4>2, <4>3
    <3>3. pdf[next_page] \in OwnPages(letter)
      BY <1>2, <2>2, <3>1
    <3>4. /\ seen' \in Seq(OwnPages(letter)) /\ Len(seen') = Len(seen) + 1
          /\ \A i \in 1..Len(seen) : seen'[i] = seen[i]
          /\ seen'[Len(seen) + 1] = pdf[next_page]
      BY <1>2, <3>2, <3>3, AppendPage
    <3>5. TypeOK'
      BY <1>1, <1>2, <2>1, <3>4 DEF TypeOK
    <3>6. ASSUME AttachmentAsCounted
          PROVE  SeenOK'
      <4>1. /\ Len(seen) = next_page - 1
            /\ \A i \in 1..Len(seen) : seen[i] = pdf[i]
            /\ ~(refused > 0)
        BY <1>2, <2>2, <3>1, <3>6 DEF Inv, SeenOK
      <4>2. Len(seen') = next_page
        BY <1>2, <3>4, <4>1
      <4>3. ASSUME NEW i \in 1..Len(seen')
            PROVE  seen'[i] = pdf[i]
        <5>1. CASE i = next_page
          BY <1>2, <3>4, <4>1, <5>1
        <5>2. CASE i # next_page
          <6>1. i \in 1..Len(seen)
            BY <1>2, <4>1, <4>2, <5>2
          <6> QED
            BY <3>4, <4>1, <6>1
        <5> QED
          BY <5>1, <5>2
      <4>4. next_page' - 1 = next_page /\ ~(refused' > 0)
        BY <1>1, <1>2, <3>2, <4>1
      <4> QED
        BY <1>1, <2>2, <4>2, <4>3, <4>4 DEF SeenOK
    <3> QED
      BY <3>5, <3>6
  <2>3. CASE ~(IsThere(letter) /\ next_page <= Len(pdf))
    <3>1. IsThere(letter) => next_page > Len(pdf) /\ Len(pdf) \in Nat
      BY <1>2, <2>3, PdfSeq
    <3>2. seen' = seen
      <4>1. answer'.pages = << >>
        BY <1>2, <2>3, <3>1, NextPicture
      <4> QED
        BY <1>1, <1>2, <4>1
    <3>3. TypeOK'
      BY <1>1, <1>2, <2>1, <3>2 DEF TypeOK
    <3>4. ASSUME AttachmentAsCounted
          PROVE  SeenOK'
      <4>1. next_page > Len(pdf) /\ Len(pdf) \in Nat
        BY <1>2, <3>1, <3>4, CountFacts DEF AttachmentAsCounted
      <4>2. Len(seen) = Len(pdf) /\ \A i \in 1..Len(seen) : seen[i] = pdf[i]
        BY <1>2, <3>4, <4>1 DEF Inv, SeenOK
      <4>3. next_page' - 1 > Len(pdf)
        BY <1>1, <1>2, <4>1
      <4> QED
        BY <1>1, <3>2, <4>1, <4>2, <4>3, <2>1 DEF SeenOK
    <3> QED
      BY <3>3, <3>4
  <2> QED
    BY <2>2, <2>3
<1>4. SeenOK'
  BY <1>1, <1>3 DEF SeenOK, AttachmentAsCounted
<1> QED
  BY <1>1, <1>3, <1>4 DEF Inv

LEMMA PrintInv == ASSUME Inv, SendToPrint PROVE Inv'
<1>1. /\ IsThere(letter) /\ printed' = pdf
      /\ UNCHANGED <<letter, counts, next_page, seen, refused, pdf>>
  BY DEF SendToPrint, pdf
<1>2. pdf \in Seq(OwnPages(letter)) /\ TypeOK
  BY <1>1, PdfSeq DEF Inv
<1>3. TypeOK'
  BY <1>1, <1>2 DEF TypeOK
<1>4. SeenOK'
  BY <1>1 DEF Inv, SeenOK, AttachmentAsCounted
<1> QED
  BY <1>1, <1>3, <1>4 DEF Inv

THEOREM InvHolds == Spec => []Inv
<1>1. Init => Inv
  BY InitInv
<1>2. Inv /\ [Next]_vars => Inv'
  <2> SUFFICES ASSUME Inv, [Next]_vars
               PROVE  Inv'
    OBVIOUS
  <2>1. CASE GetPageCount
    BY <2>1, GetPageCountInv
  <2>2. CASE TurnPage
    BY <2>2, TurnPageInv
  <2>3. CASE SendToPrint
    BY <2>3, PrintInv
  <2>4. CASE UNCHANGED session
    BY <2>4, SessionStays
  <2>5. UNCHANGED vars => UNCHANGED session
    BY DEF vars, session
  <2>6. Fails \/ ViewsLetter \/ DownloadsLetter \/ ViewsAttachment
          \/ ViewsPrecompiled \/ ColoursPage \/ ColoursPdf
        => UNCHANGED session
    BY DEF Fails, ViewsLetter, DownloadsLetter, ViewsAttachment,
       ViewsPrecompiled, ColoursPage, ColoursPdf
  <2> QED
    BY <2>1, <2>2, <2>3, <2>4, <2>5, <2>6 DEF Next
<1> QED
  BY <1>1, <1>2, PTL DEF Spec

-----------------------------------------------------------------------------
(* Every variable keeps its type, and no page is seen or printed that is   *)
(* not the letter's, whatever is requested.                                *)
THEOREM TypeCorrect == Spec => []TypeOK
<1>1. Inv => TypeOK
  BY DEF Inv
<1> QED
  BY <1>1, InvHolds, PTL

(* Who looks at as many pages as were counted sees the letter as it is     *)
(* printed, for letters of any length.                                     *)
THEOREM EveryPageSeenHolds == Spec => []EveryPageSeen
<1>1. ASSUME Inv
      PROVE  EveryPageSeen
  <2> SUFFICES ASSUME AttachmentAsCounted, counts # NULL,
                      next_page > counts.count
               PROVE  seen = pdf /\ (refused > 0 => letter.welsh_then_english)
    BY DEF EveryPageSeen, pdf
  <2>1. /\ letter \in Letters /\ next_page \in Nat \ {0} /\ TypeOK
        /\ counts = CountPages(letter) /\ next_page <= counts.count + 1
        /\ seen \in Seq(OwnPages(letter)) /\ SeenOK
    BY <1>1 DEF Inv, TypeOK
  <2>2. /\ IsThere(letter) /\ counts.count \in Nat
        /\ Len(pdf) <= counts.count
        /\ ~letter.welsh_then_english => Len(pdf) = counts.count
    BY <2>1, CountFacts DEF AttachmentAsCounted, pdf
  <2>3. pdf \in Seq(OwnPages(letter)) /\ Len(pdf) \in Nat
    BY <2>1, <2>2, PdfSeq
  <2>4. next_page - 1 = counts.count
    BY <2>1, <2>2
  <2>5. /\ Len(seen) = Len(pdf) /\ \A i \in 1..Len(seen) : seen[i] = pdf[i]
        /\ refused > 0 => counts.count > Len(pdf)
    BY <2>1, <2>2, <2>3, <2>4 DEF SeenOK
  <2>6. seen = pdf
    BY <2>1, <2>3, <2>5
  <2> QED
    BY <2>2, <2>3, <2>5, <2>6
<1> QED
  BY <1>1, InvHolds, PTL

(* No letter is turned down for its length when it is printed that was     *)
(* short enough when it was counted.                                       *)
THEOREM CountPredictsPrintHolds == Spec => []CountPredictsPrint
<1>1. ASSUME Inv
      PROVE  CountPredictsPrint
  <2> SUFFICES ASSUME AttachmentAsCounted, counts # NULL, printed # NULL
               PROVE  /\ TooLong(Len(printed)) => TooLong(counts.count)
                      /\ ~letter.welsh_then_english =>
                           Len(printed) = counts.count
    BY DEF CountPredictsPrint
  <2>1. letter \in Letters /\ TypeOK /\ printed = pdf
          /\ counts = CountPages(letter)
    BY <1>1 DEF Inv, TypeOK
  <2>2. /\ IsThere(letter) /\ counts.count \in Nat
        /\ Len(pdf) <= counts.count
        /\ ~letter.welsh_then_english => Len(pdf) = counts.count
    BY <2>1, CountFacts DEF AttachmentAsCounted, pdf
  <2>3. Len(pdf) \in Nat /\ LETTER_MAX_PAGE_COUNT \in Nat
    BY <2>1, <2>2, PdfSeq, RequestsAssumption
  <2> QED
    BY <2>1, <2>2, <2>3 DEF TooLong
<1> QED
  BY <1>1, InvHolds, PTL

=============================================================================
