----------------------- MODULE SanitiseContractProofs -----------------------
(***************************************************************************)
(* Lemmas about the checks of SanitiseContract: what they are, and what    *)
(* the verdict is when one of them fails or none does.                     *)
(***************************************************************************)
EXTENDS SanitiseContract, WellFoundedInduction, TLAPS

CheckType ==
  [message : Messages, pages : {NULL} \cup SUBSET Nat, fails : BOOLEAN]

Passing(checks) == \A i \in DOMAIN checks : ~checks[i].fails

(* A set of numbers that is not empty has a smallest element.              *)
LEMMA SmallestInSet ==
  ASSUME NEW S \in SUBSET Nat, S # {}
  PROVE  LET least == CHOOSE i \in S : \A j \in S : i <= j
         IN  least \in S /\ \A j \in S : least <= j
<1>1. PICK n \in S : \A j \in S : <<j, n>> \notin OpToRel(<, Nat)
  BY WFMin, NatLessThanWellFounded
<1>2. ASSUME NEW j \in S
      PROVE  n <= j
  <2>1. <<j, n>> \in Nat \X Nat /\ <<j, n>>[1] = j /\ <<j, n>>[2] = n
    OBVIOUS
  <2>2. ~ (j < n)
    BY <1>1, <2>1 DEF OpToRel
  <2> QED
    BY <2>2
<1> QED
  BY <1>2

LEMMA ConcatTyped ==
  ASSUME NEW s \in Seq(CheckType), NEW t \in Seq(CheckType)
  PROVE  s \o t \in Seq(CheckType)
OBVIOUS

LEMMA ConcatAt ==
  ASSUME NEW s \in Seq(CheckType), NEW t \in Seq(CheckType)
  PROVE  /\ Len(s \o t) = Len(s) + Len(t)
         /\ \A k \in 1..Len(s) : (s \o t)[k] = s[k]
         /\ \A k \in 1..Len(t) : (s \o t)[Len(s) + k] = t[k]
OBVIOUS

LEMMA FirstFailureTyped ==
  ASSUME NEW checks \in Seq(CheckType), ~Passing(checks)
  PROVE  FirstFailure(checks).message \in Messages
<1> DEFINE first == CHOOSE i \in Failures(checks) :
                      \A j \in Failures(checks) : i <= j
<1>1. Failures(checks) # {} /\ Failures(checks) \in SUBSET Nat
  BY DEF Failures, Passing
<1>2. first \in Failures(checks)
  BY <1>1, SmallestInSet
<1> HIDE DEF first
<1>3. first \in DOMAIN checks
  BY <1>2 DEF Failures
<1>4. checks[first] \in CheckType
  BY <1>3
<1> QED
  BY <1>4 DEF FirstFailure, CheckType, first

LEMMA PageCheckFacts ==
  ASSUME NEW message \in Messages, NEW pages \in SUBSET Nat
  PROVE  /\ PageCheck(message, pages) \in CheckType
         /\ ~PageCheck(message, pages).fails => pages = {}
BY DEF PageCheck, Check, CheckType

LEMMA ContentChecksTyped ==
  ASSUME NEW doc \in Document, NEW is_an_attachment \in BOOLEAN
  PROVE  /\ ContentChecks(doc, is_an_attachment) \in Seq(CheckType)
         /\ Passing(ContentChecks(doc, is_an_attachment)) =>
              /\ WrongSizePages(doc) = {}
              /\ OutOfBoundsPages(doc, is_an_attachment) = {}
              /\ PagesWithNotifyTag(doc, is_an_attachment) = {}
<1>1. DOMAIN doc.pages \subseteq Nat
  BY DEF Document
<1>2. /\ WrongSizePages(doc) \in SUBSET Nat
      /\ OutOfBoundsPages(doc, is_an_attachment) \in SUBSET Nat
      /\ PagesWithNotifyTag(doc, is_an_attachment) \in SUBSET Nat
  BY <1>1 DEF WrongSizePages, OutOfBoundsPages, PagesWithNotifyTag
<1> DEFINE c1 == PageCheck("letter-not-a4-portrait-oriented", WrongSizePages(doc))
           c2 == PageCheck("content-outside-printable-area",
                           OutOfBoundsPages(doc, is_an_attachment))
           c3 == PageCheck("notify-tag-found-in-content",
                           PagesWithNotifyTag(doc, is_an_attachment))
<1>3. ContentChecks(doc, is_an_attachment) = <<c1, c2, c3>>
  BY DEF ContentChecks
<1>4. /\ c1 \in CheckType /\ (~c1.fails => WrongSizePages(doc) = {})
      /\ c2 \in CheckType /\ (~c2.fails => OutOfBoundsPages(doc, is_an_attachment) = {})
      /\ c3 \in CheckType /\ (~c3.fails => PagesWithNotifyTag(doc, is_an_attachment) = {})
  BY <1>2, PageCheckFacts DEF Messages
<1> HIDE DEF c1, c2, c3
<1>5. Passing(<<c1, c2, c3>>) => ~c1.fails /\ ~c2.fails /\ ~c3.fails
  BY DEF Passing
<1>6. <<c1, c2, c3>> \in Seq(CheckType)
  BY <1>4
<1> QED
  BY <1>3, <1>4, <1>5, <1>6

LEMMA AddressChecksTyped ==
  ASSUME NEW address \in Address, NEW allow \in BOOLEAN
  PROVE  /\ FaultChecks(EarlyAddressFaults, address) \in Seq(CheckType)
         /\ <<LastLineCheck(address, allow)>> \in Seq(CheckType)
         /\ FaultChecks(LateAddressFaults, address) \in Seq(CheckType)
         /\ AddressChecks(address, allow) \in Seq(CheckType)
<1>1. FaultChecks(EarlyAddressFaults, address) \in Seq(CheckType)
  BY DEF FaultChecks, EarlyAddressFaults, Check, CheckType, Messages,
     AddressFaults, SeqElements
<1>2. FaultChecks(LateAddressFaults, address) \in Seq(CheckType)
  BY DEF FaultChecks, LateAddressFaults, Check, CheckType, Messages,
     AddressFaults, SeqElements
<1>3. LastLineCheck(address, allow) \in CheckType
  <2>1. LastLineFault(address.last_line, allow) \in LastLineFaults
    BY DEF LastLineFault, LastLineFaults
  <2> QED
    BY <2>1 DEF LastLineCheck, HasValidLastLine, Check, CheckType, Messages,
       AddressFaults
<1>4. <<LastLineCheck(address, allow)>> \in Seq(CheckType)
  BY <1>3
<1> QED
  BY <1>1, <1>2, <1>4 DEF AddressChecks

-----------------------------------------------------------------------------
(* The verdict is that of the first check that fails.                      *)

LEMMA FirstFailureIs ==
  ASSUME NEW checks \in Seq(CheckType), NEW i \in DOMAIN checks,
         checks[i].fails, \A j \in 1..(i - 1) : ~checks[j].fails
  PROVE  Failures(checks) # {} /\ FirstFailure(checks) = checks[i]
<1> DEFINE least == CHOOSE k \in Failures(checks) :
                      \A j \in Failures(checks) : k <= j
<1>1. DOMAIN checks = 1..Len(checks) /\ Len(checks) \in Nat
  OBVIOUS
<1>2. i \in Failures(checks) /\ Failures(checks) \in SUBSET Nat
  BY <1>1 DEF Failures
<1>3. least \in Failures(checks) /\ \A j \in Failures(checks) : least <= j
  BY <1>2, SmallestInSet
<1> HIDE DEF least
<1>4. least \in 1..Len(checks) /\ checks[least].fails /\ least <= i
  BY <1>1, <1>2, <1>3 DEF Failures
<1>5. least = i
  BY <1>1, <1>4
<1> QED
  BY <1>2, <1>5 DEF FirstFailure, least

(* There is a first failure when there is one.                             *)
LEMMA FirstFailureExists ==
  ASSUME NEW checks \in Seq(CheckType), Failures(checks) # {}
  PROVE  \E i \in DOMAIN checks :
           /\ checks[i].fails
           /\ \A j \in 1..(i - 1) : ~checks[j].fails
           /\ FirstFailure(checks) = checks[i]
<1> DEFINE least == CHOOSE k \in Failures(checks) :
                      \A j \in Failures(checks) : k <= j
<1>1. DOMAIN checks = 1..Len(checks) /\ Len(checks) \in Nat
        /\ Failures(checks) \in SUBSET Nat
  BY DEF Failures
<1>2. least \in Failures(checks) /\ \A j \in Failures(checks) : least <= j
  BY <1>1, SmallestInSet
<1>3. FirstFailure(checks) = checks[least]
  BY DEF FirstFailure
<1> HIDE DEF least
<1>4. \A j \in 1..(least - 1) : ~checks[j].fails
  BY <1>1, <1>2 DEF Failures
<1> QED
  BY <1>2, <1>3, <1>4 DEF Failures

LEMMA LengthCheckTyped ==
  ASSUME NEW doc \in Document
  PROVE  LengthCheck(doc) \in CheckType
BY DEF LengthCheck, Check, CheckType, Messages, IsLetterTooLong

(* The checks by their number: the length, the three checks of the         *)
(* content, and for a letter those of its address.                         *)
LEMMA ChecksAt ==
  ASSUME NEW doc \in Document, NEW is_an_attachment \in BOOLEAN,
         NEW allow \in BOOLEAN
  PROVE  LET checks == Checks(doc, is_an_attachment, allow)
             address == AddressChecks(doc.address, allow)
         IN  /\ checks \in Seq(CheckType) /\ address \in Seq(CheckType)
             /\ Len(checks) = IF is_an_attachment THEN 4 ELSE 4 + Len(address)
             /\ checks[1] = LengthCheck(doc)
             /\ checks[2] = PageCheck("letter-not-a4-portrait-oriented",
                                      WrongSizePages(doc))
             /\ checks[3] = PageCheck("content-outside-printable-area",
                                      OutOfBoundsPages(doc, is_an_attachment))
             /\ checks[4] = PageCheck("notify-tag-found-in-content",
                                      PagesWithNotifyTag(doc, is_an_attachment))
             /\ ~is_an_attachment =>
                  \A k \in 1..Len(address) : checks[4 + k] = address[k]
<1> DEFINE c0 == LengthCheck(doc)
           c1 == PageCheck("letter-not-a4-portrait-oriented", WrongSizePages(doc))
           c2 == PageCheck("content-outside-printable-area",
                           OutOfBoundsPages(doc, is_an_attachment))
           c3 == PageCheck("notify-tag-found-in-content",
                           PagesWithNotifyTag(doc, is_an_attachment))
           address == AddressChecks(doc.address, allow)
           content == ContentChecks(doc, is_an_attachment)
<1>1. doc.address \in Address
  BY DEF Document
<1>2. c0 \in CheckType /\ address \in Seq(CheckType)
        /\ content \in Seq(CheckType) /\ content = <<c1, c2, c3>>
  BY <1>1, LengthCheckTyped, AddressChecksTyped, ContentChecksTyped
     DEF ContentChecks
<1>3. Checks(doc, is_an_attachment, allow)
        = (<<c0>> \o content) \o (IF is_an_attachment THEN << >> ELSE address)
  BY DEF Checks
<1> HIDE DEF c0, c1, c2, c3, address, content
<1> DEFINE start == <<c0>> \o content
           rest == IF is_an_attachment THEN << >> ELSE address
<1>4. start \in Seq(CheckType)
  BY <1>2
<1>5. Len(start) = 4 /\ start[1] = c0 /\ start[2] = c1 /\ start[3] = c2
        /\ start[4] = c3
  <2>1. Len(content) = 3 /\ content[1] = c1 /\ content[2] = c2
          /\ content[3] = c3
    BY <1>2
  <2>2. Len(<<c0>>) = 1 /\ <<c0>>[1] = c0 /\ <<c0>> \in Seq(CheckType)
    BY <1>2
  <2> HIDE DEF start
  <2>3. Len(start) = 4 /\ start[1] = c0
    BY <1>2, <2>1, <2>2 DEF start
  <2>4. \A k \in 1..3 : start[1 + k] = content[k]
    BY <1>2, <2>1, <2>2 DEF start
  <2>5. start[2] = content[1] /\ start[3] = content[2] /\ start[4] = content[3]
    <3>1. start[1 + 1] = content[1] /\ start[1 + 2] = content[2]
            /\ start[1 + 3] = content[3]
      BY <2>4
    <3> QED
      BY <3>1
  <2> QED
    BY <2>1, <2>3, <2>5
<1>6. rest \in Seq(CheckType)
  BY <1>2
<1>7. Len(rest) = IF is_an_attachment THEN 0 ELSE Len(address)
  OBVIOUS
<1> HIDE DEF start, rest
<1>8. /\ start \o rest \in Seq(CheckType)
      /\ Len(start \o rest) = 4 + Len(rest)
      /\ \A k \in 1..4 : (start \o rest)[k] = start[k]
      /\ \A k \in 1..Len(rest) : (start \o rest)[4 + k] = rest[k]
  <2>1. start \o rest \in Seq(CheckType)
    BY <1>4, <1>6, ConcatTyped
  <2>2. /\ Len(start \o rest) = Len(start) + Len(rest)
        /\ \A k \in 1..Len(start) : (start \o rest)[k] = start[k]
        /\ \A k \in 1..Len(rest) : (start \o rest)[Len(start) + k] = rest[k]
    BY <1>4, <1>6, ConcatAt
  <2>3. Len(start) = 4
    BY <1>5
  <2> QED
    BY <2>1, <2>2, <2>3
<1>9. Checks(doc, is_an_attachment, allow) = start \o rest
  BY <1>3 DEF start, rest
<1>10. Len(rest) \in Nat /\ Len(address) \in Nat
  BY <1>2, <1>6
<1>11. Len(start \o rest) = IF is_an_attachment THEN 4 ELSE 4 + Len(address)
  BY <1>7, <1>8, <1>10
<1>12. ~is_an_attachment =>
         \A k \in 1..Len(address) : (start \o rest)[4 + k] = address[k]
  BY <1>7, <1>8 DEF rest
<1> QED
  BY <1>2, <1>5, <1>8, <1>9, <1>11, <1>12 DEF c0, c1, c2, c3, address

LEMMA FaultChecksAt ==
  ASSUME NEW address, NEW faults \in Seq(Messages),
         FaultChecks(faults, address) \in Seq(CheckType)
  PROVE  /\ Len(FaultChecks(faults, address)) = Len(faults)
         /\ \A k \in 1..Len(faults) :
              FaultChecks(faults, address)[k].fails <=> faults[k] \in address.faults
<1>1. DOMAIN FaultChecks(faults, address) = 1..Len(faults)
  BY DEF FaultChecks
<1>2. Len(FaultChecks(faults, address)) = Len(faults)
  BY <1>1
<1>3. ASSUME NEW k \in 1..Len(faults)
      PROVE  FaultChecks(faults, address)[k].fails = (faults[k] \in address.faults)
  <2>1. FaultChecks(faults, address)[k]
          = Check(faults[k], {1}, faults[k] \in address.faults)
    BY DEF FaultChecks
  <2> QED
    BY <2>1 DEF Check
<1> QED
  BY <1>2, <1>3

(* The checks of an address by their number: five faults, the last line,   *)
(* two more faults.                                                        *)
LEMMA AddressChecksAt ==
  ASSUME NEW address \in Address, NEW allow \in BOOLEAN
  PROVE  LET checks == AddressChecks(address, allow)
         IN  /\ checks \in Seq(CheckType) /\ Len(checks) = 8
             /\ \A k \in 1..5 :
                  checks[k].fails <=> EarlyAddressFaults[k] \in address.faults
             /\ checks[6] = LastLineCheck(address, allow)
             /\ \A k \in 1..2 :
                  checks[6 + k].fails <=> LateAddressFaults[k] \in address.faults
<1> DEFINE early == FaultChecks(EarlyAddressFaults, address)
           last == LastLineCheck(address, allow)
           late == FaultChecks(LateAddressFaults, address)
<1>1. /\ Len(early) = 5 /\ Len(late) = 2
      /\ \A k \in 1..5 : early[k].fails <=> EarlyAddressFaults[k] \in address.faults
      /\ \A k \in 1..2 : late[k].fails <=> LateAddressFaults[k] \in address.faults
  <2>1. Len(EarlyAddressFaults) = 5 /\ Len(LateAddressFaults) = 2
    BY DEF EarlyAddressFaults, LateAddressFaults
  <2>2. /\ EarlyAddressFaults \in Seq(Messages)
        /\ LateAddressFaults \in Seq(Messages)
    BY DEF EarlyAddressFaults, LateAddressFaults, Messages, AddressFaults,
       SeqElements
  <2> QED
    BY <2>1, <2>2, AddressChecksTyped, FaultChecksAt
<1>3. /\ early \in Seq(CheckType) /\ <<last>> \in Seq(CheckType)
      /\ late \in Seq(CheckType)
  BY AddressChecksTyped
<1>4. AddressChecks(address, allow) = (early \o <<last>>) \o late
  BY DEF AddressChecks
<1> HIDE DEF early, last, late
<1> DEFINE first6 == early \o <<last>>
           all == first6 \o late
<1>5. /\ first6 \in Seq(CheckType) /\ Len(first6) = 6
      /\ \A k \in 1..5 : first6[k] = early[k]
      /\ first6[6] = last
  <2>1. Len(<<last>>) = 1 /\ <<last>>[1] = last
    OBVIOUS
  <2>2. /\ Len(first6) = Len(early) + 1
        /\ \A k \in 1..Len(early) : first6[k] = early[k]
        /\ first6[Len(early) + 1] = last
    <3>1. \A k \in 1..1 : first6[Len(early) + k] = <<last>>[k]
      BY <1>3, <2>1, ConcatAt
    <3>2. first6[Len(early) + 1] = <<last>>[1]
      BY <3>1
    <3> QED
      BY <1>3, <2>1, <3>2, ConcatAt
  <2>3. first6 \in Seq(CheckType)
    BY <1>3, ConcatTyped
  <2> HIDE DEF first6
  <2> QED
    BY <1>1, <2>2, <2>3
<1> HIDE DEF first6
<1>6. /\ all \in Seq(CheckType) /\ Len(all) = 8
      /\ \A k \in 1..6 : all[k] = first6[k]
      /\ \A k \in 1..2 : all[6 + k] = late[k]
  <2>1. /\ Len(all) = Len(first6) + Len(late)
        /\ \A k \in 1..Len(first6) : all[k] = first6[k]
        /\ \A k \in 1..Len(late) : all[Len(first6) + k] = late[k]
    BY <1>3, <1>5, ConcatAt
  <2>2. all \in Seq(CheckType)
    BY <1>3, <1>5, ConcatTyped
  <2> HIDE DEF all
  <2> QED
    BY <1>1, <1>5, <2>1, <2>2
<1> HIDE DEF all
<1>7. /\ \A k \in 1..5 : all[k] = early[k]
      /\ all[6] = last
      /\ \A k \in 1..2 : all[6 + k] = late[k]
  BY <1>5, <1>6
<1>8. AddressChecks(address, allow) = all /\ last = LastLineCheck(address, allow)
  BY <1>4 DEF all, first6, last
<1> QED
  BY <1>1, <1>6, <1>7, <1>8

(* An address passes when it has no fault and a last line that is allowed. *)
LEMMA AddressPassesIff ==
  ASSUME NEW address \in Address, NEW allow \in BOOLEAN
  PROVE  Failures(AddressChecks(address, allow)) = {} <=>
           address.faults = {} /\ HasValidLastLine(address.last_line, allow)
<1> DEFINE checks == AddressChecks(address, allow)
<1>1. checks \in Seq(CheckType) /\ Len(checks) = 8
  BY AddressChecksAt
<1>2. checks[6].fails <=> ~HasValidLastLine(address.last_line, allow)
  <2>1. checks[6] = LastLineCheck(address, allow)
    BY AddressChecksAt
  <2>2. LastLineCheck(address, allow).fails
          = ~HasValidLastLine(address.last_line, allow)
    BY DEF LastLineCheck, Check
  <2> HIDE DEF checks
  <2>3. checks[6].fails = ~HasValidLastLine(address.last_line, allow)
    BY <2>1, <2>2
  <2> QED
    BY <2>3
<1>3. /\ \A k \in 1..5 :
           checks[k].fails <=> EarlyAddressFaults[k] \in address.faults
      /\ \A k \in 1..2 :
           checks[6 + k].fails <=> LateAddressFaults[k] \in address.faults
  BY AddressChecksAt
<1> HIDE DEF checks
<1>4. Failures(checks) = {} <=> \A i \in 1..8 : ~checks[i].fails
  BY <1>1 DEF Failures
<1>5. (\A i \in 1..8 : ~checks[i].fails) <=>
        /\ \A k \in 1..5 : ~checks[k].fails
        /\ ~checks[6].fails
        /\ \A k \in 1..2 : ~checks[6 + k].fails
  OBVIOUS
<1>6. \A f \in address.faults : \/ \E k \in 1..5 : f = EarlyAddressFaults[k]
                               \/ \E k \in 1..2 : f = LateAddressFaults[k]
  BY DEF Address, AddressFaults, SeqElements, EarlyAddressFaults,
     LateAddressFaults
<1> QED
  BY <1>2, <1>3, <1>4, <1>5, <1>6 DEF checks

(* Nothing fails when the length, the content and the address are right.   *)
LEMMA ChecksPassIff ==
  ASSUME NEW doc \in Document, NEW is_an_attachment \in BOOLEAN,
         NEW allow \in BOOLEAN
  PROVE  Failures(Checks(doc, is_an_attachment, allow)) = {} <=>
           /\ ~IsLetterTooLong(Len(doc.pages))
           /\ WrongSizePages(doc) = {}
           /\ OutOfBoundsPages(doc, is_an_attachment) = {}
           /\ PagesWithNotifyTag(doc, is_an_attachment) = {}
           /\ ~is_an_attachment =>
                Failures(AddressChecks(doc.address, allow)) = {}
<1> DEFINE checks == Checks(doc, is_an_attachment, allow)
           address == AddressChecks(doc.address, allow)
<1>1. /\ checks \in Seq(CheckType) /\ address \in Seq(CheckType)
      /\ Len(checks) = IF is_an_attachment THEN 4 ELSE 4 + Len(address)
      /\ ~is_an_attachment =>
           \A k \in 1..Len(address) : checks[4 + k] = address[k]
  BY ChecksAt
<1>2. /\ checks[1].fails <=> IsLetterTooLong(Len(doc.pages))
      /\ checks[2].fails <=> WrongSizePages(doc) # {}
      /\ checks[3].fails <=> OutOfBoundsPages(doc, is_an_attachment) # {}
      /\ checks[4].fails <=> PagesWithNotifyTag(doc, is_an_attachment) # {}
  <2>1. /\ checks[1] = LengthCheck(doc)
        /\ checks[2] = PageCheck("letter-not-a4-portrait-oriented",
                                 WrongSizePages(doc))
        /\ checks[3] = PageCheck("content-outside-printable-area",
                                 OutOfBoundsPages(doc, is_an_attachment))
        /\ checks[4] = PageCheck("notify-tag-found-in-content",
                                 PagesWithNotifyTag(doc, is_an_attachment))
    BY ChecksAt
  <2> HIDE DEF checks
  <2>2. \A message, pages : PageCheck(message, pages).fails = (pages # {})
    BY DEF PageCheck, Check
  <2>3. LengthCheck(doc).fails = IsLetterTooLong(Len(doc.pages))
    BY DEF LengthCheck, Check
  <2>4. checks[1].fails = IsLetterTooLong(Len(doc.pages))
    BY <2>1, <2>3
  <2>5. checks[2].fails = (WrongSizePages(doc) # {})
    BY <2>1, <2>2
  <2>6. checks[3].fails = (OutOfBoundsPages(doc, is_an_attachment) # {})
    BY <2>1, <2>2
  <2>7. checks[4].fails = (PagesWithNotifyTag(doc, is_an_attachment) # {})
    BY <2>1, <2>2
  <2>8. IsLetterTooLong(Len(doc.pages)) \in BOOLEAN
    BY DEF IsLetterTooLong
  <2> QED
    BY <2>4, <2>5, <2>6, <2>7, <2>8
<1> HIDE DEF checks, address
<1>3. Failures(checks) = {} <=> \A i \in 1..Len(checks) : ~checks[i].fails
  BY <1>1 DEF Failures
<1>4. Failures(address) = {} <=> \A k \in 1..Len(address) : ~address[k].fails
  BY <1>1 DEF Failures
<1>5. CASE is_an_attachment
  <2>1. (\A i \in 1..4 : ~checks[i].fails) <=>
          /\ ~checks[1].fails /\ ~checks[2].fails
          /\ ~checks[3].fails /\ ~checks[4].fails
    OBVIOUS
  <2> QED
    BY <1>1, <1>2, <1>3, <1>5, <2>1 DEF checks
<1>6. CASE ~is_an_attachment
  <2>1. Len(checks) = 4 + Len(address) /\ Len(address) \in Nat
    BY <1>1, <1>6
  <2>2. (\A i \in 1..Len(checks) : ~checks[i].fails) <=>
          /\ ~checks[1].fails /\ ~checks[2].fails
          /\ ~checks[3].fails /\ ~checks[4].fails
          /\ \A k \in 1..Len(address) : ~checks[4 + k].fails
    <3>1. ASSUME NEW i \in 1..Len(checks)
          PROVE  i \in {1, 2, 3, 4} \/ \E k \in 1..Len(address) : i = 4 + k
      <4>1. i > 4 => i - 4 \in 1..Len(address) /\ i = 4 + (i - 4)
        BY <2>1
      <4> QED
        BY <2>1, <4>1
    <3>2. {1, 2, 3, 4} \subseteq 1..Len(checks)
            /\ \A k \in 1..Len(address) : 4 + k \in 1..Len(checks)
      BY <2>1
    <3> QED
      BY <3>1, <3>2
  <2>3. \A k \in 1..Len(address) : checks[4 + k] = address[k]
    BY <1>1, <1>6
  <2> QED
    BY <1>2, <1>3, <1>4, <1>6, <2>2, <2>3 DEF checks, address
<1> QED
  BY <1>5, <1>6

(* The verdict on a document of which a check fails, and none before it.   *)
LEMMA VerdictOfFirst ==
  ASSUME NEW doc \in Document, NEW is_an_attachment \in BOOLEAN,
         NEW allow \in BOOLEAN, doc.readable,
         NEW i \in DOMAIN Checks(doc, is_an_attachment, allow),
         Checks(doc, is_an_attachment, allow)[i].fails,
         \A j \in 1..(i - 1) :
           ~Checks(doc, is_an_attachment, allow)[j].fails
  PROVE  Verdict(doc, is_an_attachment, allow) =
           Result(Len(doc.pages), Checks(doc, is_an_attachment, allow)[i].message,
                  Checks(doc, is_an_attachment, allow)[i].pages, NULL)
<1> DEFINE checks == Checks(doc, is_an_attachment, allow)
<1>1. checks \in Seq(CheckType)
  BY ChecksAt
<1>2. Failures(checks) # {} /\ FirstFailure(checks) = checks[i]
  BY <1>1, FirstFailureIs
<1> QED
  BY <1>2 DEF Verdict

(* A verdict without a message is that on a document nothing is wrong with.*)
LEMMA AcceptedIff ==
  ASSUME NEW doc \in Document, NEW is_an_attachment \in BOOLEAN,
         NEW allow \in BOOLEAN
  PROVE  Verdict(doc, is_an_attachment, allow).message = NULL <=>
           /\ doc.readable
           /\ Failures(Checks(doc, is_an_attachment, allow)) = {}
<1> DEFINE checks == Checks(doc, is_an_attachment, allow)
<1>1. CASE ~doc.readable
  BY <1>1, NullAssumption DEF Verdict, Unreadable, Result, Messages
<1>2. CASE doc.readable /\ Failures(checks) = {}
  BY <1>2 DEF Verdict, Result
<1>3. CASE doc.readable /\ Failures(checks) # {}
  <2>1. checks \in Seq(CheckType)
    BY ChecksAt
  <2>2. FirstFailure(checks).message \in Messages
    BY <1>3, <2>1, FirstFailureTyped DEF Failures, Passing
  <2>3. Verdict(doc, is_an_attachment, allow).message
          = FirstFailure(checks).message
    BY <1>3 DEF Verdict, Result
  <2> QED
    BY <1>3, <2>2, <2>3, NullAssumption
<1> QED
  BY <1>1, <1>2, <1>3

(* A letter that passed under one setting of the permission to send        *)
(* letters abroad can fail under another one only for want of it.          *)
LEMMA PermissionDecides ==
  ASSUME NEW doc \in Document, NEW before \in BOOLEAN, NEW now \in BOOLEAN,
         Verdict(doc, FALSE, before).message = NULL,
         Verdict(doc, FALSE, now).message # NULL
  PROVE  /\ before /\ ~now
         /\ Verdict(doc, FALSE, now).message = "cant-send-international-letters"
<1> DEFINE checks == Checks(doc, FALSE, now)
           address == AddressChecks(doc.address, now)
<1>1. doc.address \in Address
  BY DEF Document
<1>2. /\ doc.readable
      /\ ~IsLetterTooLong(Len(doc.pages))
      /\ WrongSizePages(doc) = {}
      /\ OutOfBoundsPages(doc, FALSE) = {}
      /\ PagesWithNotifyTag(doc, FALSE) = {}
      /\ doc.address.faults = {}
      /\ HasValidLastLine(doc.address.last_line, before)
  BY <1>1, AcceptedIff, ChecksPassIff, AddressPassesIff
<1>3. ~HasValidLastLine(doc.address.last_line, now)
  BY <1>1, <1>2, AcceptedIff, ChecksPassIff, AddressPassesIff
<1>4. doc.address.last_line = "country" /\ before /\ ~now
  BY <1>2, <1>3 DEF HasValidLastLine
<1>5. /\ checks \in Seq(CheckType) /\ Len(checks) = 12
      /\ \A k \in 1..8 : checks[4 + k] = address[k]
  <2>1. Len(address) = 8
    BY <1>1, AddressChecksAt
  <2>2. /\ checks \in Seq(CheckType) /\ Len(checks) = 4 + Len(address)
        /\ \A k \in 1..Len(address) : checks[4 + k] = address[k]
    BY ChecksAt
  <2> HIDE DEF checks, address
  <2> QED
    BY <2>1, <2>2
<1>6. \A j \in 1..4 : ~checks[j].fails
  <2>1. /\ checks[1] = LengthCheck(doc)
        /\ checks[2] = PageCheck("letter-not-a4-portrait-oriented", {})
        /\ checks[3] = PageCheck("content-outside-printable-area", {})
        /\ checks[4] = PageCheck("notify-tag-found-in-content", {})
    BY <1>2, ChecksAt
  <2>2. ~LengthCheck(doc).fails /\ \A message : ~PageCheck(message, {}).fails
    BY <1>2 DEF LengthCheck, PageCheck, Check
  <2> HIDE DEF checks
  <2>3. /\ ~checks[1].fails /\ ~checks[2].fails
        /\ ~checks[3].fails /\ ~checks[4].fails
    BY <2>1, <2>2
  <2> QED
    BY <2>3
<1>7. /\ \A k \in 1..5 : ~address[k].fails
      /\ address[6] = LastLineCheck(doc.address, now)
  BY <1>1, <1>2, AddressChecksAt
<1>8. address[6].fails /\ address[6].message = "cant-send-international-letters"
  <2>1. LastLineFault(doc.address.last_line, now)
          = "cant-send-international-letters"
    BY <1>4 DEF LastLineFault
  <2>2. LastLineCheck(doc.address, now)
          = Check("cant-send-international-letters", {1}, TRUE)
    BY <1>3, <2>1 DEF LastLineCheck
  <2> HIDE DEF address
  <2> QED
    BY <1>7, <2>2 DEF Check
<1> HIDE DEF address
<1>9. /\ 10 \in DOMAIN checks /\ checks[10].fails
      /\ checks[10].message = "cant-send-international-letters"
      /\ \A j \in 1..9 : ~checks[j].fails
  <2> HIDE DEF checks
  <2>1. checks[10] = address[6]
    <3>1. checks[4 + 6] = address[6]
      BY <1>5
    <3> QED
      BY <3>1
  <2>2. ASSUME NEW j \in 5..9
        PROVE  ~checks[j].fails
    <3>1. j - 4 \in 1..5 /\ 4 + (j - 4) = j
      OBVIOUS
    <3>2. checks[j] = address[j - 4]
      BY <1>5, <3>1
    <3> QED
      BY <1>7, <3>1, <3>2
  <2> QED
    BY <1>5, <1>6, <1>8, <2>1, <2>2
<1>10. Verdict(doc, FALSE, now).message = checks[10].message
  <2>1. \A j \in 1..(10 - 1) : ~checks[j].fails
    <3>1. 10 - 1 = 9
      OBVIOUS
    <3> HIDE DEF checks
    <3> QED
      BY <1>9, <3>1
  <2>2. Verdict(doc, FALSE, now)
          = Result(Len(doc.pages), checks[10].message, checks[10].pages, NULL)
    BY <1>2, <1>9, <2>1, VerdictOfFirst
  <2> HIDE DEF checks
  <2>3. Result(Len(doc.pages), checks[10].message, checks[10].pages, NULL).message
          = checks[10].message
    BY DEF Result
  <2> QED
    BY <2>2, <2>3
<1> QED
  BY <1>4, <1>9, <1>10

-----------------------------------------------------------------------------
(* The pages of a document, as the checks and the print provider see them. *)
LEMMA PagesPassIff ==
  ASSUME NEW doc \in Document, NEW is_an_attachment \in BOOLEAN
  PROVE  /\ WrongSizePages(doc) = {}
         /\ OutOfBoundsPages(doc, is_an_attachment) = {}
         /\ PagesWithNotifyTag(doc, is_an_attachment) = {}
         <=>
         \A n \in DOMAIN doc.pages :
           LET page == doc.pages[n]
               first == n = 1 /\ ~is_an_attachment
           IN  /\ page.a4
               /\ page.ink # "margin"
               /\ first => page.ink = "inside"
               /\ page.box = <<"NOTIFY">> => first
<1> DEFINE Good(n) == LET page == doc.pages[n]
                          first == n = 1 /\ ~is_an_attachment
                      IN  /\ page.a4
                          /\ page.ink # "margin"
                          /\ first => page.ink = "inside"
                          /\ page.box = <<"NOTIFY">> => first
<1>1. ASSUME NEW n \in DOMAIN doc.pages
      PROVE  n \in Nat \ {0} /\ doc.pages[n].ink \in Ink /\ doc.pages[n].a4 \in BOOLEAN
  <2>1. doc.pages \in Seq(Page)
    BY DEF Document
  <2>2. doc.pages[n] \in Page /\ n \in Nat \ {0}
    BY <1>1, <2>1
  <2> QED
    BY <2>2 DEF Page
<1>2. ASSUME NEW n \in DOMAIN doc.pages
      PROVE  Good(n) <=> /\ n \notin WrongSizePages(doc)
                         /\ n \notin OutOfBoundsPages(doc, is_an_attachment)
                         /\ n \notin PagesWithNotifyTag(doc, is_an_attachment)
  BY <1>1, <1>2 DEF WrongSizePages, OutOfBoundsPages, PagesWithNotifyTag, IsTag, Ink
<1>3. /\ WrongSizePages(doc) \subseteq DOMAIN doc.pages
      /\ OutOfBoundsPages(doc, is_an_attachment) \subseteq DOMAIN doc.pages
      /\ PagesWithNotifyTag(doc, is_an_attachment) \subseteq DOMAIN doc.pages
  BY DEF WrongSizePages, OutOfBoundsPages, PagesWithNotifyTag
<1> HIDE DEF Good
<1>4. /\ WrongSizePages(doc) = {}
      /\ OutOfBoundsPages(doc, is_an_attachment) = {}
      /\ PagesWithNotifyTag(doc, is_an_attachment) = {}
      <=> \A n \in DOMAIN doc.pages : Good(n)
  BY <1>2, <1>3
<1> QED
  BY <1>4 DEF Good

(* The verdict of the checks is what the print provider wants.             *)
LEMMA AcceptedIffPrintable ==
  ASSUME NEW doc \in Document, NEW is_an_attachment \in BOOLEAN,
         NEW allow \in BOOLEAN
  PROVE  Verdict(doc, is_an_attachment, allow).message = NULL
           <=> Printable(doc, is_an_attachment, allow)
<1>1. Len(doc.pages) \in Nat \ {0} /\ doc.address \in Address
  BY DEF Document
<1>2. ~IsLetterTooLong(Len(doc.pages))
        <=> Len(doc.pages) \in 1..LETTER_MAX_PAGE_COUNT
  BY <1>1, PageLimitAssumption DEF IsLetterTooLong
<1>3. Failures(AddressChecks(doc.address, allow)) = {} <=>
        /\ doc.address.faults = {}
        /\ doc.address.last_line \in
             {"postcode"} \cup (IF allow THEN {"country"} ELSE {})
  BY <1>1, AddressPassesIff DEF HasValidLastLine
<1> QED
  BY <1>2, <1>3, AcceptedIff, ChecksPassIff, PagesPassIff DEF Printable

=============================================================================
