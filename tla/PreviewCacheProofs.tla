------------------------- MODULE PreviewCacheProofs -------------------------
(***************************************************************************)
(* Theorems about PreviewCache, for every number of processes, greenlets   *)
(* and requests and every size of the LRU caches.                          *)
(***************************************************************************)
EXTENDS PreviewCache, FiniteSetTheorems, TLAPS

(* The inductive invariant: versions only grow, and what a greenlet has so *)
(* far is the beginning of its preview, as its process may show it.        *)
VersionsOK ==
  /\ stored \in [Attachment -> 1..MaxVersion]
  /\ \A p \in Process, a \in Attachment : since[p][a] \in 1..stored[a]

GreenletOK(g) ==
  /\ asked[g] = NULL <=> pc[g] = "idle"
  /\ asked[g] # NULL =>
       /\ process[g] \in Process
       /\ DocOK(doc[g], asked[g], process[g])
       /\ asked[g].page = NULL => ~HasAllParts(g)
       /\ asked[g].parts[1] \in Scan => HasAllParts(g)
       /\ pc[g] # "lookup" => FileOK(held[g], Wanted(g), process[g])
       /\ pc[g] = "upload" => Wanted(g).folder # "attachments"

Inv ==
  /\ TypeOK /\ VersionsOK /\ CacheSound /\ LruSound
  /\ \A g \in Greenlet : GreenletOK(g)

-----------------------------------------------------------------------------
(* Requests, keys and files.                                               *)

LEMMA RequestFacts ==
  ASSUME NEW r \in Requests
  PROVE  /\ r # NULL
         /\ r.parts \in Seq(Name) /\ Len(r.parts) \in Nat \ {0}
         /\ r.page \in Nat \cup {NULL} /\ r.hide_notify \in BOOLEAN
         /\ r.page = NULL => ~r.hide_notify /\ r.parts[1] \notin Scan
         /\ r.parts[1] \in Scan => Len(r.parts) = 1
         /\ r.parts[1] \notin Scan =>
              \A i \in 1..Len(r.parts) : r.parts[i] \in Html \cup Attachment
<1>1. r \in Request /\ r # NULL /\ r.parts # << >>
  BY PreviewAssumption
<1>2. r.page \in Nat \cup {NULL} /\ r.hide_notify \in BOOLEAN
      /\ (r.page = NULL => ~r.hide_notify /\ r.parts[1] \notin Scan)
  BY <1>1, PreviewAssumption DEF Request
<1>3. CASE r.parts \in Seq(Html \cup Attachment)
  <2>1. /\ Len(r.parts) \in Nat \ {0}
        /\ \A i \in 1..Len(r.parts) : r.parts[i] \in Html \cup Attachment
        /\ r.parts \in Seq(Name)
    BY <1>1, <1>3 DEF Name
  <2>2. r.parts[1] \notin Scan
    BY <2>1, PreviewAssumption
  <2> QED BY <1>1, <1>2, <2>1, <2>2
<1>4. CASE r.parts \in {<<s>> : s \in Scan}
  <2>1. PICK s \in Scan : r.parts = <<s>>
    BY <1>4
  <2>2. r.parts \in Seq(Name) /\ Len(r.parts) = 1 /\ r.parts[1] \in Scan
    BY <2>1 DEF Name
  <2> QED BY <1>1, <1>2, <2>2
<1> QED BY <1>1, <1>3, <1>4 DEF Request

LEMMA KeyFacts ==
  /\ \A a : /\ AttachmentKey(a).folder = "attachments"
            /\ AttachmentKey(a).args[1] = a
  /\ \A html : /\ TemplatedKey(html).folder = "templated"
               /\ TemplatedKey(html).args[1] = html
  /\ \A d, page, hide_notify :
       /\ PngKey(d, page, hide_notify).folder = "pngs"
       /\ PngKey(d, page, hide_notify).args[1] = d
       /\ PngKey(d, page, hide_notify).args[2] = page
       /\ PngKey(d, page, hide_notify).args[3] = hide_notify
BY DEF AttachmentKey, TemplatedKey, PngKey

LEMMA OnePart ==
  ASSUME NEW part \in Part
  PROVE  Pdf(<<part>>) \in File /\ Pdf(<<part>>).doc = <<part>>
BY DEF Pdf, File

LEMMA GeneratedIsFile ==
  ASSUME NEW key, IsKey(key), key.folder # "attachments"
  PROVE  Generated(key) \in File
<1>1. CASE \E html \in Html : key = TemplatedKey(html)
  <2>1. PICK html \in Html : key = TemplatedKey(html)
    BY <1>1
  <2>2. Generated(key) = Pdf(<<Complete(html)>>)
    BY <2>1, KeyFacts DEF Generated
  <2>3. Complete(html) \in Part
    BY DEF Complete, Part, Name
  <2> QED BY <2>2, <2>3, OnePart
<1>2. CASE key.folder = "pngs"
  <2>1. Png(key.args[1], key.args[2], key.args[3]) \in File
    BY <1>2, KeyFacts DEF IsKey
  <2> QED BY <1>2, <2>1 DEF Generated
<1> QED BY <1>1, <1>2, KeyFacts DEF IsKey

LEMMA AttachmentFile ==
  ASSUME NEW a \in Attachment, NEW p, NEW file
  PROVE  FileOK(file, AttachmentKey(a), p) <=>
           \E version \in 0..MaxVersion :
             LET part == [name |-> a, version |-> version]
             IN  file = Pdf(<<part>>) /\ PartOK(part, a, p)
<1>1. AttachmentKey(a).folder = "attachments" /\ AttachmentKey(a).args[1] = a
  BY KeyFacts
<1> QED BY <1>1 DEF FileOK

LEMMA FileFacts ==
  ASSUME NEW key, IsKey(key), NEW p, NEW file, FileOK(file, key, p)
  PROVE  file \in File
<1>1. CASE key.folder = "attachments"
  <2>1. PICK a \in Attachment : key = AttachmentKey(a)
    BY <1>1, KeyFacts DEF IsKey
  <2>2. PICK version \in 0..MaxVersion :
          file = Pdf(<<[name |-> a, version |-> version]>>)
    BY <2>1, AttachmentFile
  <2>3. [name |-> a, version |-> version] \in Part
    BY PreviewAssumption DEF Part, Name
  <2> QED BY <2>2, <2>3, OnePart
<1>2. CASE key.folder # "attachments"
  BY <1>2, GeneratedIsFile DEF FileOK
<1> QED BY <1>1, <1>2

(* What a greenlet looks up next.                                          *)
LEMMA WantedFacts ==
  ASSUME TypeOK, NEW g \in Greenlet, GreenletOK(g), asked[g] # NULL
  PROVE  /\ asked[g] \in Requests /\ doc[g] \in Seq(Part)
         /\ Len(doc[g]) \in Nat /\ Len(asked[g].parts) \in Nat
         /\ IsKey(Wanted(g))
         /\ HasAllParts(g) =>
              /\ asked[g].page \in Nat
              /\ Wanted(g) = PngKey(doc[g], asked[g].page, asked[g].hide_notify)
         /\ ~HasAllParts(g) =>
              /\ Len(doc[g]) + 1 \in 1..Len(asked[g].parts)
              /\ NextPart(g) \in Html \cup Attachment
              /\ Wanted(g) = PartKey(NextPart(g))
              /\ NextPart(g) \in Attachment <=> Wanted(g).folder = "attachments"
<1>1. asked[g] \in Requests /\ doc[g] \in Seq(Part)
  BY DEF TypeOK
<1>2. /\ Len(doc[g]) \in Nat /\ Len(asked[g].parts) \in Nat
      /\ Len(doc[g]) <= Len(asked[g].parts)
  BY <1>1, RequestFacts DEF GreenletOK, DocOK
<1>3. ASSUME HasAllParts(g)
      PROVE  /\ asked[g].page \in Nat
             /\ Wanted(g) = PngKey(doc[g], asked[g].page, asked[g].hide_notify)
             /\ IsKey(Wanted(g))
  <2>1. asked[g].page \in Nat /\ asked[g].hide_notify \in BOOLEAN
    BY <1>1, <1>3, RequestFacts DEF GreenletOK
  <2>2. Wanted(g) = PngKey(doc[g], asked[g].page, asked[g].hide_notify)
    BY <1>3 DEF Wanted
  <2>3. Png(doc[g], asked[g].page, asked[g].hide_notify) \in File
    BY <1>1, <2>1 DEF Png, File
  <2> QED BY <2>1, <2>2, <2>3, KeyFacts DEF IsKey
<1>4. ASSUME ~HasAllParts(g)
      PROVE  /\ Len(doc[g]) + 1 \in 1..Len(asked[g].parts)
             /\ NextPart(g) \in Html \cup Attachment
             /\ Wanted(g) = PartKey(NextPart(g))
             /\ NextPart(g) \in Attachment <=> Wanted(g).folder = "attachments"
             /\ IsKey(Wanted(g))
  <2>1. Len(doc[g]) + 1 \in 1..Len(asked[g].parts)
    BY <1>2, <1>4 DEF HasAllParts
  <2>2. NextPart(g) \in Html \cup Attachment
    BY <1>1, <1>4, <2>1, RequestFacts DEF GreenletOK, NextPart
  <2>3. Wanted(g) = PartKey(NextPart(g))
    BY <1>4 DEF Wanted
  <2>4. CASE NextPart(g) \in Attachment
    BY <2>1, <2>2, <2>3, <2>4, KeyFacts DEF PartKey, IsKey
  <2>5. CASE NextPart(g) \notin Attachment
    <3>1. NextPart(g) \in Html /\ Wanted(g) = TemplatedKey(NextPart(g))
      BY <2>2, <2>3, <2>5 DEF PartKey
    <3> QED BY <2>1, <2>2, <2>3, <2>5, <3>1, KeyFacts DEF IsKey
  <2> QED BY <2>4, <2>5
<1> QED BY <1>1, <1>2, <1>3, <1>4

-----------------------------------------------------------------------------
(* What a greenlet finds, whether in its LRU cache or in S3, is good.      *)

LEMMA FoundInLru ==
  ASSUME Inv, NEW g \in Greenlet, asked[g] # NULL, NEW file,
         file \in Under(Wanted(g), Lru(g))
  PROVE  FileOK(file, Wanted(g), process[g])
<1>1. PICK e \in lru[process[g]] : e.key = Wanted(g) /\ e.file = file
  BY DEF Under, Lru
<1>2. process[g] \in Process
  BY DEF Inv, GreenletOK
<1> QED BY <1>1, <1>2 DEF Inv, LruSound

LEMMA FoundInS3 ==
  ASSUME Inv, NEW g \in Greenlet, asked[g] # NULL, NEW file, file \in InS3(g)
  PROVE  FileOK(file, Wanted(g), process[g])
<1>1. TypeOK /\ GreenletOK(g) /\ process[g] \in Process
  BY DEF Inv, GreenletOK
<1>2. CASE ~HasAllParts(g) /\ NextPart(g) \in Attachment
  <2> DEFINE a == NextPart(g)
             part == [name |-> a, version |-> stored[a]]
  <2>1. file = Pdf(<<part>>) /\ Wanted(g) = AttachmentKey(a)
    BY <1>2 DEF InS3, Wanted, PartKey
  <2>2. stored[a] \in 0..MaxVersion /\ stored[a] \in since[process[g]][a]..stored[a]
    BY <1>1, <1>2, PreviewAssumption DEF Inv, VersionsOK
  <2>3. PartOK(part, a, process[g])
    BY <1>2, <2>2 DEF PartOK
  <2> HIDE DEF a
  <2>4. a \in Attachment
    BY <1>2 DEF a
  <2> QED BY <2>1, <2>2, <2>3, <2>4, AttachmentFile
<1>3. CASE ~(~HasAllParts(g) /\ NextPart(g) \in Attachment)
  <2>1. PICK e \in cache : e.key = Wanted(g) /\ e.file = file
    BY <1>3 DEF InS3, Under
  <2>2. Wanted(g).folder # "attachments" /\ file = Generated(Wanted(g))
    BY <2>1 DEF Inv, CacheSound
  <2> QED BY <2>2 DEF FileOK
<1> QED BY <1>2, <1>3

(* A file that is good for what was looked up is the next part, ...        *)
LEMMA NextPartFound ==
  ASSUME Inv, NEW g \in Greenlet, asked[g] # NULL, NEW file,
         FileOK(file, Wanted(g), process[g]), ~HasAllParts(g)
  PROVE  \E part \in Part : /\ file.doc = <<part>>
                            /\ PartOK(part, NextPart(g), process[g])
<1>1. TypeOK /\ GreenletOK(g)
  BY DEF Inv
<1>2. NextPart(g) \in Html \cup Attachment /\ Wanted(g) = PartKey(NextPart(g))
  BY <1>1, WantedFacts
<1>3. CASE NextPart(g) \in Attachment
  <2>1. Wanted(g) = AttachmentKey(NextPart(g))
    BY <1>2, <1>3 DEF PartKey
  <2>2. PICK version \in 0..MaxVersion :
          LET part == [name |-> NextPart(g), version |-> version]
          IN  file = Pdf(<<part>>) /\ PartOK(part, NextPart(g), process[g])
    BY <1>3, <2>1, AttachmentFile
  <2>3. [name |-> NextPart(g), version |-> version] \in Part
    BY <1>3, PreviewAssumption DEF Part, Name
  <2> QED BY <2>2, <2>3, OnePart
<1>4. CASE NextPart(g) \notin Attachment
  <2>1. Wanted(g) = TemplatedKey(NextPart(g)) /\ NextPart(g) \in Html
    BY <1>2, <1>4 DEF PartKey
  <2>2. file = Generated(Wanted(g))
    BY <2>1, KeyFacts DEF FileOK
  <2>3. file = Pdf(<<Complete(NextPart(g))>>)
    BY <2>1, <2>2, KeyFacts DEF Generated
  <2>4. Complete(NextPart(g)) \in Part
    BY <2>1 DEF Complete, Part, Name
  <2>5. PartOK(Complete(NextPart(g)), NextPart(g), process[g])
    BY <1>4 DEF PartOK, Complete
  <2> QED BY <2>3, <2>4, <2>5, OnePart
<1> QED BY <1>3, <1>4

(* ... or the page that was asked for.                                     *)
LEMMA PageFound ==
  ASSUME Inv, NEW g \in Greenlet, asked[g] # NULL, NEW file,
         FileOK(file, Wanted(g), process[g]), HasAllParts(g)
  PROVE  file \in File /\ IsPreview(file, asked[g], process[g])
<1>1. TypeOK /\ GreenletOK(g)
  BY DEF Inv
<1>2. /\ Wanted(g) = PngKey(doc[g], asked[g].page, asked[g].hide_notify)
      /\ IsKey(Wanted(g))
  BY <1>1, WantedFacts
<1>3. file = Png(doc[g], asked[g].page, asked[g].hide_notify)
  BY <1>2, KeyFacts DEF FileOK, Generated
<1>4. DocOK(doc[g], asked[g], process[g])
  BY <1>1 DEF GreenletOK
<1>5. IsPreview(file, asked[g], process[g])
  BY <1>3, <1>4 DEF IsPreview, Png, HasAllParts
<1> QED BY <1>2, <1>5, FileFacts

(* One part more is still the beginning of the preview.                    *)
LEMMA OneMorePart ==
  ASSUME NEW d \in Seq(Part), NEW part \in Part, NEW request \in Requests,
         NEW p, DocOK(d, request, p), Len(d) + 1 <= Len(request.parts),
         PartOK(part, request.parts[Len(d) + 1], p)
  PROVE  /\ d \o <<part>> \in Seq(Part)
         /\ Len(d \o <<part>>) = Len(d) + 1
         /\ DocOK(d \o <<part>>, request, p)
<1>1. d \o <<part>> \in Seq(Part) /\ Len(d \o <<part>>) = Len(d) + 1
  OBVIOUS
<1>2. ASSUME NEW i \in 1..Len(d \o <<part>>)
      PROVE  PartOK((d \o <<part>>)[i], request.parts[i], p)
  <2>1. CASE i \in 1..Len(d)
    <3>1. (d \o <<part>>)[i] = d[i]
      BY <2>1
    <3> QED BY <2>1, <3>1 DEF DocOK
  <2>2. CASE i = Len(d) + 1
    <3>1. (d \o <<part>>)[i] = part
      BY <2>2
    <3> QED BY <2>2, <3>1
  <2>3. i \in 1..Len(d) \/ i = Len(d) + 1
    BY <1>1
  <2> QED BY <2>1, <2>2, <2>3
<1> QED BY <1>1, <1>2 DEF DocOK

(* So a good file is an answer as it should be, or brings the greenlet a   *)
(* part further.                                                           *)
Answers(g) ==
  \E body \in File : IsPreview(body, asked[g], process[g]) /\ Ends(g, body)

Advances(g) ==
  /\ Waits(g, "lookup")
  /\ ~HasAllParts(g)
  /\ held' = [held EXCEPT ![g] = NULL]
  /\ \E d \in Seq(Part) :
       /\ doc' = [doc EXCEPT ![g] = d]
       /\ Len(d) = Len(doc[g]) + 1
       /\ DocOK(d, asked[g], process[g])
       /\ asked[g].page = NULL => Len(d) # Len(asked[g].parts)

LEMMA GotCases ==
  ASSUME Inv, NEW g \in Greenlet, asked[g] # NULL, NEW file,
         FileOK(file, Wanted(g), process[g]), Got(g, file)
  PROVE  Answers(g) \/ Advances(g)
<1>1. TypeOK /\ GreenletOK(g)
  BY DEF Inv
<1>2. CASE HasAllParts(g)
  BY <1>2, PageFound DEF Got, Answers
<1>3. CASE ~HasAllParts(g)
  <2>1. PICK part \in Part : /\ file.doc = <<part>>
                            /\ PartOK(part, NextPart(g), process[g])
    BY <1>3, NextPartFound
  <2> DEFINE d == doc[g] \o file.doc
  <2>2. /\ asked[g] \in Requests /\ doc[g] \in Seq(Part)
        /\ Len(doc[g]) + 1 <= Len(asked[g].parts)
        /\ DocOK(doc[g], asked[g], process[g])
    BY <1>1, <1>3, WantedFacts DEF GreenletOK
  <2>3. /\ d \in Seq(Part) /\ Len(d) = Len(doc[g]) + 1
        /\ DocOK(d, asked[g], process[g])
    BY <2>1, <2>2, OneMorePart DEF NextPart
  <2>4. CASE Len(d) = Len(asked[g].parts) /\ asked[g].page = NULL
    <3>1. Ends(g, Pdf(d))
      BY <1>3, <2>4 DEF Got
    <3>2. Pdf(d) \in File
      BY <2>3 DEF Pdf, File
    <3>3. ~asked[g].hide_notify /\ asked[g].hide_notify \in BOOLEAN
      BY <2>2, <2>4, RequestFacts
    <3>4. IsPreview(Pdf(d), asked[g], process[g])
      BY <2>3, <2>4, <3>3 DEF IsPreview, Pdf
    <3> QED BY <3>1, <3>2, <3>4 DEF Answers
  <2>5. CASE ~(Len(d) = Len(asked[g].parts) /\ asked[g].page = NULL)
    BY <1>3, <2>3, <2>5 DEF Got, Advances
  <2> QED BY <2>4, <2>5
<1> QED BY <1>2, <1>3

-----------------------------------------------------------------------------
(* A step of one greenlet leaves the others as they were.                  *)

GreenletTypes ==
  /\ asked \in [Greenlet -> Requests \cup {NULL}]
  /\ process \in [Greenlet -> Process \cup {NULL}]
  /\ response \in Response \cup {NULL}
  /\ stored \in [Attachment -> Nat]
  /\ since \in [Process -> [Attachment -> Nat]]
  /\ pc \in [Greenlet -> Working \cup {"idle"}]
  /\ doc \in [Greenlet -> Seq(Part)]
  /\ held \in [Greenlet -> File \cup {NULL}]
  /\ \A g \in Greenlet : held[g] # NULL <=> pc[g] \in {"insert", "upload"}

CacheTypes == \A e \in cache : IsEntry(e)

LruTypes ==
  /\ DOMAIN lru = Process
  /\ \A p \in Process : /\ IsFiniteSet(lru[p]) /\ Cardinality(lru[p]) <= MaxSize
                       /\ \A e \in lru[p] : IsEntry(e)

LEMMA TypeParts == TypeOK <=> GreenletTypes /\ CacheTypes /\ LruTypes
BY DEF TypeOK, GreenletTypes, CacheTypes, LruTypes

Local(g) ==
  /\ \A h \in Greenlet \ {g} :
       /\ asked'[h] = asked[h] /\ process'[h] = process[h]
       /\ pc'[h] = pc[h] /\ doc'[h] = doc[h] /\ held'[h] = held[h]
  /\ UNCHANGED <<stored, since>>

LEMMA SameGreenlet ==
  ASSUME NEW h, GreenletOK(h), UNCHANGED <<stored, since>>,
         asked'[h] = asked[h], process'[h] = process[h],
         pc'[h] = pc[h], doc'[h] = doc[h], held'[h] = held[h]
  PROVE  GreenletOK(h)'
<1>1. Wanted(h)' = Wanted(h) /\ HasAllParts(h)' = HasAllParts(h)
  BY DEF Wanted, HasAllParts, NextPart
<1>2. DocOK(doc[h], asked[h], process[h])' = DocOK(doc[h], asked[h], process[h])
  BY DEF DocOK, PartOK
<1>3. FileOK(held[h], Wanted(h), process[h])'
        = FileOK(held[h], Wanted(h), process[h])
  BY <1>1 DEF FileOK, PartOK
<1> QED BY <1>1, <1>2, <1>3 DEF GreenletOK

LEMMA OthersStayOK ==
  ASSUME Inv, NEW g, Local(g)
  PROVE  \A h \in Greenlet \ {g} : GreenletOK(h)'
BY SameGreenlet DEF Inv, Local

(* The greenlet is done: it waits for the next request.                    *)
LEMMA EndsStep ==
  ASSUME Inv, NEW g \in Greenlet, asked[g] # NULL, NEW file,
         file \in File \/ file = ServerError, Ends(g, file)
  PROVE  GreenletTypes' /\ VersionsOK' /\ \A h \in Greenlet : GreenletOK(h)'
<1>1. GreenletTypes
  BY TypeParts DEF Inv
<1>2. /\ asked' = [asked EXCEPT ![g] = NULL]
      /\ process' = [process EXCEPT ![g] = NULL]
      /\ response' = [to |-> asked[g], body |-> file]
      /\ pc' = [pc EXCEPT ![g] = "idle"]
      /\ doc' = [doc EXCEPT ![g] = << >>]
      /\ held' = [held EXCEPT ![g] = NULL]
      /\ UNCHANGED <<stored, since>>
  BY DEF Ends, Answer
<1>3. GreenletTypes'
  <2>1. asked[g] \in Requests /\ response' \in Response
    BY <1>1, <1>2 DEF GreenletTypes, Response
  <2>2. << >> \in Seq(Part)
    OBVIOUS
  <2>3. \A h \in Greenlet : held'[h] # NULL <=> pc'[h] \in {"insert", "upload"}
    BY <1>1, <1>2 DEF GreenletTypes
  <2> QED BY <1>1, <1>2, <2>1, <2>2, <2>3 DEF GreenletTypes
<1>4. Local(g)
  BY <1>1, <1>2 DEF Local, GreenletTypes
<1>5. asked'[g] = NULL /\ pc'[g] = "idle"
  BY <1>1, <1>2 DEF GreenletTypes
<1>6. GreenletOK(g)'
  BY <1>5 DEF GreenletOK
<1>7. VersionsOK'
  BY <1>2 DEF Inv, VersionsOK
<1> QED BY <1>3, <1>4, <1>6, <1>7, OthersStayOK

(* The greenlet has a part more, and looks up the next thing.              *)
LEMMA AdvancesStep ==
  ASSUME Inv, NEW g \in Greenlet, asked[g] # NULL, Advances(g)
  PROVE  GreenletTypes' /\ VersionsOK' /\ \A h \in Greenlet : GreenletOK(h)'
<1>1. GreenletTypes /\ GreenletOK(g)
  BY TypeParts DEF Inv
<1>2. PICK d \in Seq(Part) :
        /\ doc' = [doc EXCEPT ![g] = d]
        /\ Len(d) = Len(doc[g]) + 1
        /\ DocOK(d, asked[g], process[g])
        /\ asked[g].page = NULL => Len(d) # Len(asked[g].parts)
  BY DEF Advances
<1>3. /\ UNCHANGED <<asked, process, stored, since>>
      /\ response' = NULL
      /\ pc' = [pc EXCEPT ![g] = "lookup"]
      /\ held' = [held EXCEPT ![g] = NULL]
      /\ ~HasAllParts(g)
  BY DEF Advances, Waits, Idle
<1>4. GreenletTypes'
  <2>1. \A h \in Greenlet : held'[h] # NULL <=> pc'[h] \in {"insert", "upload"}
    BY <1>1, <1>3 DEF GreenletTypes
  <2> QED BY <1>1, <1>2, <1>3, <2>1 DEF GreenletTypes, Working
<1>5. Local(g)
  BY <1>1, <1>2, <1>3 DEF Local, GreenletTypes
<1>6. GreenletOK(g)'
  <2>1. /\ asked'[g] = asked[g] /\ process'[g] = process[g]
        /\ pc'[g] = "lookup" /\ doc'[g] = d
    BY <1>1, <1>2, <1>3 DEF GreenletTypes
  <2>2. DocOK(doc[g], asked[g], process[g])'
    BY <1>2, <1>3, <2>1 DEF DocOK, PartOK
  <2>3. process[g] \in Process /\ asked[g].parts[1] \notin Scan
    BY <1>1, <1>3 DEF GreenletOK
  <2> QED BY <1>2, <2>1, <2>2, <2>3 DEF GreenletOK, HasAllParts
<1>7. VersionsOK'
  BY <1>3 DEF Inv, VersionsOK
<1> QED BY <1>4, <1>5, <1>6, <1>7, OthersStayOK

(* A file that was found ends the request or takes it further.             *)
LEMMA GotStep ==
  ASSUME Inv, NEW g \in Greenlet, asked[g] # NULL, NEW file,
         FileOK(file, Wanted(g), process[g]), Got(g, file)
  PROVE  GreenletTypes' /\ VersionsOK' /\ \A h \in Greenlet : GreenletOK(h)'
<1>1. CASE Answers(g)
  BY <1>1, EndsStep DEF Answers
<1>2. CASE Advances(g)
  BY <1>2, AdvancesStep
<1> QED BY <1>1, <1>2, GotCases

(* The greenlet holds a good file, and waits for S3 or the LRU cache.      *)
LEMMA HoldsStep ==
  ASSUME Inv, NEW g \in Greenlet, asked[g] # NULL, NEW file, NEW step,
         step \in {"insert", "upload"},
         step = "upload" => Wanted(g).folder # "attachments",
         FileOK(file, Wanted(g), process[g]),
         held' = [held EXCEPT ![g] = file], Waits(g, step), UNCHANGED doc
  PROVE  GreenletTypes' /\ VersionsOK' /\ \A h \in Greenlet : GreenletOK(h)'
<1>1. TypeOK /\ GreenletTypes /\ GreenletOK(g)
  BY TypeParts DEF Inv
<1>2. file \in File
  BY <1>1, WantedFacts, FileFacts
<1>3. /\ UNCHANGED <<asked, process, stored, since>>
      /\ response' = NULL
      /\ pc' = [pc EXCEPT ![g] = step]
  BY DEF Waits, Idle
<1>4. GreenletTypes'
  <2>1. \A h \in Greenlet : held'[h] # NULL <=> pc'[h] \in {"insert", "upload"}
    BY <1>1, <1>2, <1>3, PreviewAssumption DEF GreenletTypes
  <2> QED BY <1>1, <1>2, <1>3, <2>1 DEF GreenletTypes, Working
<1>5. Local(g)
  BY <1>1, <1>3 DEF Local, GreenletTypes
<1>6. GreenletOK(g)'
  <2>1. /\ asked'[g] = asked[g] /\ process'[g] = process[g]
        /\ pc'[g] = step /\ doc'[g] = doc[g] /\ held'[g] = file
    BY <1>1, <1>3 DEF GreenletTypes
  <2>2. DocOK(doc[g], asked[g], process[g])'
    BY <1>1, <1>3, <2>1 DEF GreenletOK, DocOK, PartOK
  <2>3. Wanted(g)' = Wanted(g) /\ HasAllParts(g)' = HasAllParts(g)
    BY <2>1 DEF Wanted, HasAllParts, NextPart
  <2>4. FileOK(held[g], Wanted(g), process[g])'
    BY <1>3, <2>1, <2>3 DEF FileOK, PartOK
  <2> QED BY <1>1, <2>1, <2>2, <2>3, <2>4 DEF GreenletOK
<1>7. VersionsOK'
  BY <1>3 DEF Inv, VersionsOK
<1> QED BY <1>4, <1>5, <1>6, <1>7, OthersStayOK

-----------------------------------------------------------------------------
(* The caches.                                                             *)

LEMMA SameLru ==
  ASSUME Inv, UNCHANGED <<stored, since, lru>>
  PROVE  LruTypes' /\ LruSound'
<1>1. LruTypes'
  BY TypeParts DEF Inv, LruTypes, IsEntry, IsKey
<1>2. ASSUME NEW key, NEW file, NEW p
      PROVE  FileOK(file, key, p)' = FileOK(file, key, p)
  BY DEF FileOK, PartOK
<1>3. LruSound'
  BY <1>2 DEF Inv, LruSound
<1> QED BY <1>1, <1>3

LEMMA SameCache ==
  ASSUME Inv, cache' \subseteq cache
  PROVE  CacheTypes' /\ CacheSound'
BY TypeParts DEF Inv, CacheTypes, CacheSound

(* What is uploaded is what anybody would have uploaded.                   *)
LEMMA UploadedIsSound ==
  ASSUME Inv, NEW g \in Greenlet, asked[g] # NULL, pc[g] = "upload",
         cache' = Put(Wanted(g), held[g], cache)
  PROVE  CacheTypes' /\ CacheSound'
<1>1. TypeOK /\ GreenletOK(g) /\ CacheTypes
  BY TypeParts DEF Inv
<1>2. /\ IsKey(Wanted(g)) /\ Wanted(g).folder # "attachments"
      /\ FileOK(held[g], Wanted(g), process[g])
  BY <1>1, WantedFacts DEF GreenletOK
<1>3. held[g] = Generated(Wanted(g)) /\ held[g] \in File
  BY <1>2, FileFacts DEF FileOK
<1> DEFINE new == Entry(Wanted(g), held[g])
<1>4. new.key = Wanted(g) /\ new.file = held[g] /\ IsEntry(new)
  BY <1>2, <1>3 DEF Entry, IsEntry
<1>5. \A e \in cache' : e \in cache \/ e = new
  BY DEF Put
<1>6. CacheTypes'
  BY <1>1, <1>4, <1>5 DEF CacheTypes
<1>7. CacheSound'
  <2>1. \A e \in cache' : e.key.folder # "attachments" /\ e.file = Generated(e.key)
    BY <1>2, <1>3, <1>4, <1>5 DEF Inv, CacheSound
  <2> QED BY <2>1 DEF CacheSound
<1> QED BY <1>6, <1>7

(* An entry more, and perhaps one less, in the LRU cache of a process that *)
(* had none for the key.                                                   *)
LEMMA InsertedIsSound ==
  ASSUME Inv, NEW g \in Greenlet, asked[g] # NULL, pc[g] = "insert",
         NEW kept, kept \subseteq lru[process[g]], IsFiniteSet(kept),
         Cardinality(kept) < MaxSize, Under(Wanted(g), lru[process[g]]) = {},
         lru' = [lru EXCEPT ![process[g]] = kept \cup {Entry(Wanted(g), held[g])}],
         UNCHANGED <<stored, since>>
  PROVE  LruTypes' /\ LruSound'
<1> DEFINE q == process[g]
           new == Entry(Wanted(g), held[g])
<1>1. TypeOK /\ GreenletOK(g) /\ LruTypes /\ q \in Process
  BY TypeParts DEF Inv, GreenletOK
<1>2. /\ IsKey(Wanted(g)) /\ FileOK(held[g], Wanted(g), q)
      /\ held[g] \in File
  BY <1>1, WantedFacts, FileFacts DEF GreenletOK
<1>3. new.key = Wanted(g) /\ new.file = held[g] /\ IsEntry(new)
  BY <1>2 DEF Entry, IsEntry
<1>4. \A e \in lru[q] : e.key # Wanted(g)
  BY DEF Under
<1>5. /\ DOMAIN lru' = Process
      /\ lru'[q] = kept \cup {new}
      /\ \A p \in Process \ {q} : lru'[p] = lru[p]
  BY <1>1 DEF LruTypes
<1>6. LruTypes'
  <2>1. /\ IsFiniteSet(lru'[q])
        /\ Cardinality(lru'[q]) <= MaxSize
    <3>1. Cardinality(kept) \in Nat
      BY FS_CardinalityType
    <3> HIDE DEF new
    <3>2. /\ IsFiniteSet(kept \cup {new})
          /\ Cardinality(kept \cup {new}) =
               IF new \in kept THEN Cardinality(kept) ELSE Cardinality(kept) + 1
      BY FS_AddElement
    <3>3. Cardinality(kept \cup {new}) <= MaxSize
      BY <3>1, <3>2, MaxSizeAssumption
    <3> QED BY <1>5, <3>2, <3>3, Zenon
  <2>2. \A e \in lru'[q] : IsEntry(e)
    BY <1>1, <1>3, <1>5 DEF LruTypes
  <2> HIDE DEF q
  <2>3. \A p \in Process : /\ IsFiniteSet(lru'[p]) /\ Cardinality(lru'[p]) <= MaxSize
                          /\ \A e \in lru'[p] : IsEntry(e)
    BY <1>1, <1>5, <2>1, <2>2 DEF LruTypes
  <2> QED BY <1>5, <2>3 DEF LruTypes
<1>7. LruSound'
  <2>1. ASSUME NEW key, NEW file, NEW p
        PROVE  FileOK(file, key, p)' = FileOK(file, key, p)
    BY DEF FileOK, PartOK
  <2>2. ASSUME NEW e \in lru'[q]
        PROVE  /\ \A x \in lru'[q] : x.key = e.key => x = e
               /\ FileOK(e.file, e.key, q)
    <3>1. \A x \in kept : x \in lru[q] /\ x.key # new.key
      BY <1>3, <1>4
    <3>2. CASE e = new
      BY <1>2, <1>3, <1>5, <3>1, <3>2
    <3>3. CASE e \in kept
      BY <1>1, <1>5, <3>1, <3>3 DEF Inv, LruSound
    <3> QED BY <1>5, <3>2, <3>3
  <2>3. ASSUME NEW p \in Process, NEW e \in lru'[p]
        PROVE  /\ \A x \in lru'[p] : x.key = e.key => x = e
               /\ FileOK(e.file, e.key, p)
    <3>1. CASE p = q
      BY <2>2, <3>1
    <3>2. CASE p # q
      BY <1>5, <3>2 DEF Inv, LruSound
    <3> QED BY <3>1, <3>2
  <2> QED BY <2>1, <2>3 DEF LruSound
<1> QED BY <1>6, <1>7

(* A replaced attachment leaves what could be shown as good as it was.     *)
LEMMA GoodStaysGood ==
  ASSUME Inv, NEW a \in Attachment, ReplaceAttachment(a)
  PROVE  /\ VersionsOK' /\ stored' \in [Attachment -> Nat]
         /\ \A part, name, p : PartOK(part, name, p) => PartOK(part, name, p)'
         /\ \A file, key, p : FileOK(file, key, p) => FileOK(file, key, p)'
<1>1. /\ stored \in [Attachment -> 1..MaxVersion] /\ stored[a] < MaxVersion
      /\ stored' = [stored EXCEPT ![a] = stored[a] + 1] /\ since' = since
      /\ \A p \in Process, b \in Attachment : since[p][b] \in 1..stored[b]
  BY DEF Inv, VersionsOK, ReplaceAttachment
<1>2. /\ stored' \in [Attachment -> 1..MaxVersion]
      /\ \A b \in Attachment : stored[b] \in Nat /\ stored'[b] \in Nat /\ stored[b] <= stored'[b]
  BY <1>1, PreviewAssumption
<1>3. VersionsOK'
  BY <1>1, <1>2 DEF VersionsOK
<1>4. ASSUME NEW part, NEW name, NEW p, PartOK(part, name, p)
      PROVE  PartOK(part, name, p)'
  BY <1>1, <1>2, <1>4 DEF PartOK
<1>5. ASSUME NEW file, NEW key, NEW p, FileOK(file, key, p)
      PROVE  FileOK(file, key, p)'
  BY <1>4, <1>5 DEF FileOK
<1>6. stored' \in [Attachment -> Nat]
  BY <1>2, PreviewAssumption
<1> QED BY <1>3, <1>4, <1>5, <1>6

-----------------------------------------------------------------------------
(* Every step keeps the invariant.                                         *)

LEMMA InitOK ==
  ASSUME Init
  PROVE  Inv
<1>1. stored \in [Attachment -> 1..MaxVersion] /\ stored \in [Attachment -> Nat]
  BY PreviewAssumption DEF Init, ServiceInit
<1>2. GreenletTypes
  BY <1>1, PreviewAssumption DEF Init, ServiceInit, GreenletTypes, Working
<1>3. CacheTypes /\ LruTypes
  BY FS_EmptySet, MaxSizeAssumption DEF Init, CacheTypes, LruTypes
<1>4. VersionsOK
  BY <1>1, PreviewAssumption DEF Init, ServiceInit, VersionsOK
<1>5. CacheSound /\ LruSound
  BY DEF Init, CacheSound, LruSound
<1>6. \A g \in Greenlet : GreenletOK(g)
  BY DEF Init, ServiceInit, GreenletOK
<1> QED BY <1>2, <1>3, <1>4, <1>5, <1>6, TypeParts DEF Inv

LEMMA TypePartsAfter == GreenletTypes' /\ CacheTypes' /\ LruTypes' => TypeOK'
BY DEF TypeOK, GreenletTypes, CacheTypes, LruTypes

LEMMA StartOK ==
  ASSUME Inv, NEW g \in Greenlet, NEW p \in Process, NEW request \in Requests,
         Start(g, p, request)
  PROVE  Inv'
<1>1. GreenletTypes /\ GreenletOK(g)
  BY TypeParts DEF Inv
<1>2. /\ asked[g] = NULL
      /\ asked' = [asked EXCEPT ![g] = request]
      /\ process' = [process EXCEPT ![g] = p]
      /\ response' = NULL
      /\ pc' = [pc EXCEPT ![g] = "lookup"]
      /\ doc' = [doc EXCEPT ![g] = InBody(request)]
      /\ UNCHANGED <<stored, since, held, cache, lru>>
  BY DEF Start, Ask
<1>3. /\ InBody(request) \in Seq(Part)
      /\ Len(InBody(request)) = IF request.parts[1] \in Scan THEN 1 ELSE 0
      /\ \A q : DocOK(InBody(request), request, q)
  <2>1. CASE request.parts[1] \in Scan
    <3>1. /\ InBody(request) = <<Complete(request.parts[1])>>
          /\ Complete(request.parts[1]) \in Part
      BY <2>1 DEF InBody, Complete, Part, Name
    <3>2. \A q : PartOK(Complete(request.parts[1]), request.parts[1], q)
      BY <2>1, PreviewAssumption DEF PartOK, Complete
    <3> QED BY <2>1, <3>1, <3>2, RequestFacts DEF DocOK
  <2>2. CASE request.parts[1] \notin Scan
    BY <2>2, RequestFacts DEF InBody, DocOK
  <2> QED BY <2>1, <2>2
<1>4. GreenletTypes'
  <2>1. held[g] = NULL
    BY <1>1, <1>2 DEF GreenletTypes, GreenletOK
  <2>2. \A h \in Greenlet : held'[h] # NULL <=> pc'[h] \in {"insert", "upload"}
    BY <1>1, <1>2, <2>1 DEF GreenletTypes
  <2> QED BY <1>1, <1>2, <1>3, <2>2 DEF GreenletTypes, Working
<1>5. Local(g)
  BY <1>1, <1>2 DEF Local, GreenletTypes
<1>6. GreenletOK(g)'
  <2>1. /\ asked'[g] = request /\ process'[g] = p
        /\ pc'[g] = "lookup" /\ doc'[g] = InBody(request)
    BY <1>1, <1>2 DEF GreenletTypes
  <2>2. DocOK(doc[g], asked[g], process[g])'
    BY <1>2, <1>3, <2>1 DEF DocOK, PartOK
  <2>3. request.page = NULL => Len(InBody(request)) # Len(request.parts)
    BY <1>3, RequestFacts
  <2>4. request.parts[1] \in Scan => Len(InBody(request)) = Len(request.parts)
    BY <1>3, RequestFacts
  <2> QED BY <2>1, <2>2, <2>3, <2>4, RequestFacts DEF GreenletOK, HasAllParts
<1>7. VersionsOK'
  BY <1>2 DEF Inv, VersionsOK
<1>8. CacheTypes' /\ CacheSound' /\ LruTypes' /\ LruSound'
  BY <1>2, SameCache, SameLru
<1> QED BY <1>4, <1>5, <1>6, <1>7, <1>8, OthersStayOK, TypePartsAfter DEF Inv

LEMMA StepOK ==
  ASSUME Inv, NEW g \in Greenlet, Step(g)
  PROVE  Inv'
<1>1. pc[g] # "idle" /\ asked[g] # NULL /\ TypeOK /\ GreenletOK(g)
  BY DEF Step, LruHit, Download, Insert, Generate, Upload, UploadUnconfirmed,
         Fail, Working, Inv, GreenletOK
<1> DEFINE Greenlets ==
             GreenletTypes' /\ VersionsOK' /\ \A h \in Greenlet : GreenletOK(h)'
           Caches == CacheTypes' /\ CacheSound'
           Lrus == LruTypes' /\ LruSound'
<1>2. stored' = stored /\ since' = since
  BY DEF Step, LruHit, Download, Insert, Generate, Upload, UploadUnconfirmed,
         Fail, Got, Ends, Answer, Waits, Idle
<1>3. Greenlets /\ Caches /\ Lrus
  <2>1. CASE Fail(g)
    BY <1>1, <1>2, <2>1, EndsStep, SameCache, SameLru DEF Fail
  <2>2. CASE LruHit(g)
    <3>1. PICK file \in Under(Wanted(g), Lru(g)) : Got(g, file)
      BY <2>2 DEF LruHit
    <3>2. Greenlets
      BY <1>1, <3>1, FoundInLru, GotStep
    <3> QED BY <1>2, <2>2, <3>2, SameCache, SameLru DEF LruHit
  <2>3. CASE Download(g)
    <3>1. PICK file \in InS3(g) : held' = [held EXCEPT ![g] = file]
      BY <2>3 DEF Download
    <3>2. Waits(g, "insert") /\ UNCHANGED doc
      BY <2>3 DEF Download
    <3>3. Greenlets
      BY <1>1, <3>1, <3>2, FoundInS3, HoldsStep
    <3> QED BY <1>2, <2>3, <3>3, SameCache, SameLru DEF Download
  <2>4. CASE Insert(g)
    <3>1. pc[g] = "insert" /\ Got(g, held[g]) /\ cache' = cache
      BY <2>4 DEF Insert
    <3>2. FileOK(held[g], Wanted(g), process[g]) /\ process[g] \in Process
      BY <1>1, <3>1 DEF GreenletOK
    <3>3. Greenlets
      BY <1>1, <3>1, <3>2, GotStep
    <3> DEFINE q == process[g]
               new == Entry(Wanted(g), held[g])
    <3>4. IsFiniteSet(lru[q]) /\ Cardinality(lru[q]) \in Nat
      BY <1>1, <3>2, FS_CardinalityType DEF TypeOK
    <3>5. Lrus
      <4>1. CASE lru' = lru
        BY <1>2, <4>1, SameLru
      <4>2. CASE /\ Under(Wanted(g), lru[q]) = {}
                 /\ Cardinality(lru[q]) < MaxSize
                 /\ lru' = [lru EXCEPT ![q] = lru[q] \cup {new}]
        BY <1>1, <1>2, <3>1, <3>4, <4>2, InsertedIsSound
      <4>3. CASE /\ Under(Wanted(g), lru[q]) = {}
                 /\ Cardinality(lru[q]) = MaxSize
                 /\ \E oldest \in lru[q] :
                      lru' = [lru EXCEPT ![q] = (lru[q] \ {oldest}) \cup {new}]
        <5>1. PICK oldest \in lru[q] :
                lru' = [lru EXCEPT ![q] = (lru[q] \ {oldest}) \cup {new}]
          BY <4>3
        <5>2. /\ IsFiniteSet(lru[q] \ {oldest})
              /\ Cardinality(lru[q] \ {oldest}) = Cardinality(lru[q]) - 1
          BY <3>4, FS_RemoveElement
        <5>3. Cardinality(lru[q] \ {oldest}) < MaxSize
          BY <3>4, <4>3, <5>2, MaxSizeAssumption
        <5> QED BY <1>1, <1>2, <3>1, <4>3, <5>1, <5>2, <5>3, InsertedIsSound
      <4> QED BY <2>4, <4>1, <4>2, <4>3 DEF Insert
    <3> QED BY <3>1, <3>3, <3>5, SameCache
  <2>5. CASE Generate(g)
    <3>1. /\ Wanted(g).folder # "attachments"
          /\ held' = [held EXCEPT ![g] = Generated(Wanted(g))]
          /\ Waits(g, "upload") /\ UNCHANGED <<doc, cache, lru>>
      BY <2>5 DEF Generate
    <3>2. FileOK(Generated(Wanted(g)), Wanted(g), process[g])
      BY <3>1 DEF FileOK
    <3>3. Greenlets
      BY <1>1, <3>1, <3>2, HoldsStep
    <3> QED BY <1>2, <3>1, <3>3, SameCache, SameLru
  <2>6. CASE Upload(g)
    <3>1. /\ pc[g] = "upload" /\ Got(g, held[g]) /\ lru' = lru
          /\ cache' = Put(Wanted(g), held[g], cache)
      BY <2>6 DEF Upload
    <3>2. FileOK(held[g], Wanted(g), process[g])
      BY <1>1, <3>1 DEF GreenletOK
    <3>3. Greenlets
      BY <1>1, <3>1, <3>2, GotStep
    <3> QED BY <1>1, <1>2, <3>1, <3>3, UploadedIsSound, SameLru
  <2>7. CASE UploadUnconfirmed(g)
    <3>1. /\ pc[g] = "upload" /\ Ends(g, ServerError) /\ lru' = lru
          /\ cache' = Put(Wanted(g), held[g], cache)
      BY <2>7 DEF UploadUnconfirmed
    <3>2. Greenlets
      BY <1>1, <3>1, EndsStep
    <3> QED BY <1>1, <1>2, <3>1, <3>2, UploadedIsSound, SameLru
  <2> QED BY <2>1, <2>2, <2>3, <2>4, <2>5, <2>6, <2>7 DEF Step
<1> QED BY <1>3, TypePartsAfter DEF Inv

LEMMA ReplacesOK ==
  ASSUME Inv, NEW a \in Attachment, Replaces(a)
  PROVE  Inv'
<1>1. /\ ReplaceAttachment(a) /\ response' = NULL
      /\ UNCHANGED <<asked, process, since, pc, doc, held, cache, lru>>
  BY DEF Replaces, ReplaceAttachment
<1>2. /\ VersionsOK' /\ stored' \in [Attachment -> Nat]
      /\ \A part, name, p : PartOK(part, name, p) => PartOK(part, name, p)'
      /\ \A file, key, p : FileOK(file, key, p) => FileOK(file, key, p)'
  BY <1>1, GoodStaysGood
<1>3. GreenletTypes'
  BY <1>1, <1>2, TypeParts DEF Inv, GreenletTypes
<1>4. CacheTypes' /\ CacheSound'
  BY <1>1, SameCache
<1>5. LruTypes' /\ LruSound'
  BY <1>1, <1>2, TypeParts DEF Inv, LruTypes, LruSound
<1>6. ASSUME NEW g \in Greenlet
      PROVE  GreenletOK(g)'
  <2>1. GreenletOK(g)
    BY DEF Inv
  <2>2. Wanted(g)' = Wanted(g) /\ HasAllParts(g)' = HasAllParts(g)
    BY <1>1 DEF Wanted, HasAllParts, NextPart
  <2>3. DocOK(doc[g], asked[g], process[g]) => DocOK(doc[g], asked[g], process[g])'
    BY <1>1, <1>2 DEF DocOK
  <2>4. FileOK(held[g], Wanted(g), process[g])
          => FileOK(held[g], Wanted(g), process[g])'
    BY <1>1, <1>2, <2>2
  <2> QED BY <1>1, <2>1, <2>2, <2>3, <2>4 DEF GreenletOK
<1> QED BY <1>2, <1>3, <1>4, <1>5, <1>6, TypePartsAfter DEF Inv

LEMMA ExpiresOK ==
  ASSUME Inv, CacheExpires
  PROVE  Inv'
<1>1. /\ response' = NULL /\ cache' \subseteq cache
      /\ UNCHANGED <<asked, process, stored, since, pc, doc, held, lru>>
  BY DEF CacheExpires, Idle
<1>2. GreenletTypes'
  BY <1>1, TypeParts DEF Inv, GreenletTypes
<1>3. VersionsOK'
  BY <1>1 DEF Inv, VersionsOK
<1>4. \A g \in Greenlet : GreenletOK(g)'
  BY <1>1, SameGreenlet DEF Inv
<1> QED BY <1>1, <1>2, <1>3, <1>4, SameCache, SameLru, TypePartsAfter DEF Inv

LEMMA RecycleOK ==
  ASSUME Inv, NEW p \in Process, Recycle(p)
  PROVE  Inv'
<1>1. /\ asked' = [g \in Greenlet |-> IF g \in Freed(p) THEN NULL ELSE asked[g]]
      /\ process' = [g \in Greenlet |-> IF g \in Freed(p) THEN NULL ELSE process[g]]
      /\ pc' = [g \in Greenlet |-> IF g \in Freed(p) THEN "idle" ELSE pc[g]]
      /\ doc' = [g \in Greenlet |-> IF g \in Freed(p) THEN << >> ELSE doc[g]]
      /\ held' = [g \in Greenlet |-> IF g \in Freed(p) THEN NULL ELSE held[g]]
      /\ since' = [since EXCEPT ![p] = stored]
      /\ lru' = [lru EXCEPT ![p] = {}]
      /\ response' = NULL /\ UNCHANGED <<stored, cache>>
  BY DEF Recycle, ReplaceProcess
<1>2. GreenletTypes /\ LruTypes
  BY TypeParts DEF Inv
<1>3. GreenletTypes'
  <2>1. << >> \in Seq(Part)
    OBVIOUS
  <2>2. since' \in [Process -> [Attachment -> Nat]]
    BY <1>1, <1>2 DEF GreenletTypes
  <2>3. \A h \in Greenlet : held'[h] # NULL <=> pc'[h] \in {"insert", "upload"}
    BY <1>1, <1>2 DEF GreenletTypes
  <2> QED BY <1>1, <1>2, <2>1, <2>2, <2>3 DEF GreenletTypes
<1>4. /\ since'[p] = stored
      /\ \A q \in Process \ {p} : since'[q] = since[q]
  BY <1>1, <1>2 DEF GreenletTypes
<1>5. VersionsOK'
  <2>1. \A a \in Attachment : stored[a] \in 1..stored[a]
    BY PreviewAssumption DEF Inv, VersionsOK
  <2>2. \A q \in Process, a \in Attachment : since'[q][a] \in 1..stored[a]
    BY <1>4, <2>1 DEF Inv, VersionsOK
  <2> QED BY <1>1, <2>2 DEF Inv, VersionsOK
<1>6. \A file, key : \A q \in Process \ {p} : FileOK(file, key, q)' = FileOK(file, key, q)
  BY <1>1, <1>4 DEF FileOK, PartOK
<1>7. LruTypes' /\ LruSound'
  <2>1. /\ DOMAIN lru' = Process /\ lru'[p] = {}
        /\ \A q \in Process \ {p} : lru'[q] = lru[q]
    BY <1>1, <1>2 DEF LruTypes
  <2>2. LruTypes'
    BY <1>2, <2>1, FS_EmptySet, MaxSizeAssumption DEF LruTypes
  <2>3. ASSUME NEW q \in Process, NEW e \in lru'[q]
        PROVE  /\ \A x \in lru'[q] : x.key = e.key => x = e
               /\ FileOK(e.file, e.key, q)'
    <3>1. q # p /\ e \in lru[q]
      BY <2>1
    <3> QED BY <1>6, <2>1, <3>1 DEF Inv, LruSound
  <2> QED BY <2>2, <2>3 DEF LruSound
<1>8. ASSUME NEW g \in Greenlet
      PROVE  GreenletOK(g)'
  <2>1. CASE g \in Freed(p)
    BY <1>1, <2>1 DEF GreenletOK
  <2>2. CASE g \notin Freed(p)
    <3>1. /\ asked'[g] = asked[g] /\ process'[g] = process[g] /\ pc'[g] = pc[g]
          /\ doc'[g] = doc[g] /\ held'[g] = held[g] /\ process[g] # p
      BY <1>1, <2>2 DEF Freed
    <3>2. GreenletOK(g)
      BY DEF Inv
    <3>3. CASE asked[g] = NULL
      BY <3>1, <3>2, <3>3 DEF GreenletOK
    <3>4. CASE asked[g] # NULL
      <4>1. process[g] \in Process \ {p}
        BY <3>1, <3>2, <3>4 DEF GreenletOK
      <4>2. Wanted(g)' = Wanted(g) /\ HasAllParts(g)' = HasAllParts(g)
        BY <3>1 DEF Wanted, HasAllParts, NextPart
      <4>3. DocOK(doc[g], asked[g], process[g])'
        BY <1>1, <1>4, <3>1, <3>2, <3>4, <4>1 DEF GreenletOK, DocOK, PartOK
      <4>4. FileOK(held[g], Wanted(g), process[g])'
              = FileOK(held[g], Wanted(g), process[g])
        BY <1>6, <3>1, <4>1, <4>2
      <4> QED BY <3>1, <3>2, <3>4, <4>1, <4>2, <4>3, <4>4 DEF GreenletOK
    <3> QED BY <3>3, <3>4
  <2> QED BY <2>1, <2>2
<1>9. CacheTypes' /\ CacheSound'
  BY <1>1, SameCache
<1> QED BY <1>3, <1>5, <1>7, <1>8, <1>9, TypePartsAfter DEF Inv

LEMMA StutterOK ==
  ASSUME Inv, UNCHANGED vars
  PROVE  Inv'
<1>1. /\ UNCHANGED <<asked, process, response, stored, since, pc, doc, held, cache, lru>>
  BY DEF vars, serviceVars
<1>2. GreenletTypes'
  BY <1>1, TypeParts DEF Inv, GreenletTypes
<1>3. VersionsOK'
  BY <1>1 DEF Inv, VersionsOK
<1>4. \A g \in Greenlet : GreenletOK(g)'
  BY <1>1, SameGreenlet DEF Inv
<1> QED BY <1>1, <1>2, <1>3, <1>4, SameCache, SameLru, TypePartsAfter DEF Inv

LEMMA NextOK ==
  ASSUME Inv, [Next]_vars
  PROVE  Inv'
BY StartOK, StepOK, ReplacesOK, ExpiresOK, RecycleOK, StutterOK DEF Next

(* The invariant holds always.                                             *)
THEOREM InvHolds == Spec => []Inv
BY InitOK, NextOK, PTL DEF Spec

(* Every variable keeps its type, and the LRU caches their size.           *)
THEOREM TypeCorrect == Spec => []TypeOK
<1>1. Inv => TypeOK
  BY DEF Inv
<1> QED BY <1>1, InvHolds, PTL

(* The cache bucket only ever holds what generating anew would give.       *)
THEOREM CacheSoundHolds == Spec => []CacheSound
<1>1. Inv => CacheSound
  BY DEF Inv
<1> QED BY <1>1, InvHolds, PTL

(* An LRU cache only ever holds what its process may show.                 *)
THEOREM LruSoundHolds == Spec => []LruSound
<1>1. Inv => LruSound
  BY DEF Inv
<1> QED BY <1>1, InvHolds, PTL

-----------------------------------------------------------------------------
(* The steps as admin sees them.                                           *)

LEMMA EndsIsAnswer ==
  ASSUME TypeOK, NEW g \in Greenlet, asked[g] # NULL, NEW file, Ends(g, file),
         \/ file = ServerError
         \/ file \in File /\ IsPreview(file, asked[g], process[g])
  PROVE  ServiceNext
<1>1. Answer(g, file) /\ response' = [to |-> asked[g], body |-> file]
  BY DEF Ends, Answer
<1>2. response' # NULL /\ response'.body = file
  <2>1. response' \in Response
    BY <1>1 DEF TypeOK, Response
  <2> QED BY <1>1, <2>1, PreviewAssumption
<1> QED BY <1>1, <1>2 DEF ServiceNext

LEMMA GotIsServed ==
  ASSUME Inv, NEW g \in Greenlet, asked[g] # NULL, NEW file,
         FileOK(file, Wanted(g), process[g]), Got(g, file)
  PROVE  ServiceNext
<1>1. CASE Answers(g)
  BY <1>1, EndsIsAnswer DEF Answers, Inv
<1>2. CASE Advances(g)
  BY <1>2 DEF Advances, Waits, ServiceNext
<1> QED BY <1>1, <1>2, GotCases

LEMMA StepIsServed ==
  ASSUME Inv, NEW g \in Greenlet, Step(g)
  PROVE  ServiceNext
<1>1. asked[g] # NULL /\ TypeOK /\ GreenletOK(g)
  BY DEF Step, LruHit, Download, Insert, Generate, Upload, UploadUnconfirmed,
         Fail, Working, Inv, GreenletOK
<1>2. CASE Fail(g) \/ UploadUnconfirmed(g)
  BY <1>1, <1>2, EndsIsAnswer DEF Fail, UploadUnconfirmed
<1>3. CASE LruHit(g)
  BY <1>1, <1>3, FoundInLru, GotIsServed DEF LruHit
<1>4. CASE Insert(g) \/ Upload(g)
  <2>1. Got(g, held[g]) /\ pc[g] # "lookup"
    BY <1>4 DEF Insert, Upload
  <2>2. FileOK(held[g], Wanted(g), process[g])
    BY <1>1, <2>1 DEF GreenletOK
  <2> QED BY <1>1, <2>1, <2>2, GotIsServed
<1>5. CASE Download(g) \/ Generate(g)
  BY <1>5 DEF Download, Generate, Waits, ServiceNext
<1> QED BY <1>2, <1>3, <1>4, <1>5 DEF Step

LEMMA NextIsServed ==
  ASSUME Inv, [Next]_vars
  PROVE  [ServiceNext]_serviceVars
<1>1. CASE UNCHANGED vars
  BY <1>1 DEF vars
<1>2. CASE Next
  BY <1>2, StepIsServed DEF Next, Start, Replaces, CacheExpires, Recycle,
     ServiceNext
<1> QED BY <1>1, <1>2

(* The caches are never seen: whatever two processes generate twice, S3    *)
(* loses or an LRU cache keeps, an answer is an error, or the preview that *)
(* was asked for as the process may show it.                               *)
THEOREM ImplementsService == Spec => ServiceSpec
<1>1. Init => ServiceInit
  BY DEF Init
<1> QED BY <1>1, NextIsServed, InvHolds, PTL DEF Spec, ServiceSpec

-----------------------------------------------------------------------------
(* Progress.                                                               *)

Nearer(g) ==
  /\ asked[g] # NULL /\ asked'[g] = asked[g]
  /\ <<pc[g], doc[g]>>' # <<pc[g], doc[g]>>
  => StepsLeft(g)' < StepsLeft(g)

LEMMA OthersStand ==
  ASSUME NEW g, NEW h \in Greenlet \ {g}, Local(g)
  PROVE  Nearer(h)
BY DEF Local, Nearer

(* Who ends is not asked the same any more.                                *)
LEMMA EndsIsNearer ==
  ASSUME Inv, NEW g \in Greenlet, NEW file, Ends(g, file)
  PROVE  Nearer(g) /\ Local(g)
<1>1. GreenletTypes
  BY TypeParts DEF Inv
<1>2. /\ asked'[g] = NULL
      /\ Local(g)
  BY <1>1 DEF Ends, Answer, Local, GreenletTypes
<1> QED BY <1>2 DEF Nearer

LEMMA GotIsNearer ==
  ASSUME Inv, NEW g \in Greenlet, asked[g] # NULL, NEW file,
         FileOK(file, Wanted(g), process[g]), Got(g, file)
  PROVE  Nearer(g) /\ Local(g)
<1>1. TypeOK /\ GreenletOK(g) /\ GreenletTypes
  BY TypeParts DEF Inv
<1>2. CASE Answers(g)
  BY <1>2, EndsIsNearer DEF Answers
<1>3. CASE Advances(g)
  <2>1. PICK d \in Seq(Part) : doc' = [doc EXCEPT ![g] = d] /\ Len(d) = Len(doc[g]) + 1
    BY <1>3 DEF Advances
  <2>2. /\ UNCHANGED <<asked, process, stored, since>>
        /\ pc' = [pc EXCEPT ![g] = "lookup"] /\ held' = [held EXCEPT ![g] = NULL]
    BY <1>3 DEF Advances, Waits, Idle
  <2>3. Local(g) /\ asked'[g] = asked[g] /\ pc'[g] = "lookup" /\ doc'[g] = d
    BY <1>1, <2>1, <2>2 DEF Local, GreenletTypes
  <2>4. Len(asked[g].parts) \in Nat /\ Len(doc[g]) \in Nat
    BY <1>1, WantedFacts
  <2> DEFINE total == Len(asked[g].parts)
             left == IF pc[g] = "lookup" THEN 1 ELSE 0
  <2>5. StepsLeft(g)' = 2 * (total - (Len(doc[g]) + 1)) + 1
    BY <2>1, <2>3 DEF StepsLeft
  <2>6. StepsLeft(g) = 2 * (total - Len(doc[g])) + left /\ left \in {0, 1}
    BY DEF StepsLeft
  <2> HIDE DEF total, left
  <2>7. total \in Nat /\ Len(doc[g]) \in Nat
    BY <2>4 DEF total
  <2>8. StepsLeft(g)' < StepsLeft(g)
    BY <2>5, <2>6, <2>7
  <2> QED BY <2>3, <2>8 DEF Nearer
<1> QED BY <1>2, <1>3, GotCases

LEMMA WaitsIsNearer ==
  ASSUME Inv, NEW g \in Greenlet, asked[g] # NULL, NEW file, NEW step,
         step # "lookup", pc[g] = "lookup", Waits(g, step), UNCHANGED doc,
         held' = [held EXCEPT ![g] = file]
  PROVE  Nearer(g) /\ Local(g)
<1>1. TypeOK /\ GreenletOK(g) /\ GreenletTypes
  BY TypeParts DEF Inv
<1>2. /\ UNCHANGED <<asked, process, stored, since>>
      /\ pc' = [pc EXCEPT ![g] = step]
  BY DEF Waits, Idle
<1>3. Local(g) /\ asked'[g] = asked[g] /\ pc'[g] = step /\ doc'[g] = doc[g]
  BY <1>1, <1>2 DEF Local, GreenletTypes
<1>4. Len(asked[g].parts) \in Nat /\ Len(doc[g]) \in Nat
  BY <1>1, WantedFacts
<1> DEFINE total == Len(asked[g].parts)
<1>5. /\ StepsLeft(g)' = 2 * (total - Len(doc[g]))
      /\ StepsLeft(g) = 2 * (total - Len(doc[g])) + 1
  BY <1>3 DEF StepsLeft
<1> HIDE DEF total
<1>6. total \in Nat
  BY <1>4 DEF total
<1>7. StepsLeft(g)' < StepsLeft(g)
  BY <1>4, <1>5, <1>6
<1> QED BY <1>3, <1>7 DEF Nearer

LEMMA StepIsNearer ==
  ASSUME Inv, NEW g \in Greenlet, Step(g)
  PROVE  Nearer(g) /\ Local(g)
<1>1. asked[g] # NULL /\ TypeOK /\ GreenletOK(g)
  BY DEF Step, LruHit, Download, Insert, Generate, Upload, UploadUnconfirmed,
         Fail, Working, Inv, GreenletOK
<1>2. CASE Fail(g) \/ UploadUnconfirmed(g)
  BY <1>2, EndsIsNearer DEF Fail, UploadUnconfirmed
<1>3. CASE LruHit(g)
  BY <1>1, <1>3, FoundInLru, GotIsNearer DEF LruHit
<1>4. CASE Insert(g) \/ Upload(g)
  <2>1. Got(g, held[g]) /\ pc[g] # "lookup"
    BY <1>4 DEF Insert, Upload
  <2>2. FileOK(held[g], Wanted(g), process[g])
    BY <1>1, <2>1 DEF GreenletOK
  <2> QED BY <1>1, <2>1, <2>2, GotIsNearer
<1>5. CASE Download(g)
  BY <1>1, <1>5, WaitsIsNearer DEF Download
<1>6. CASE Generate(g)
  BY <1>1, <1>6, WaitsIsNearer DEF Generate
<1> QED BY <1>2, <1>3, <1>4, <1>5, <1>6 DEF Step

LEMMA NextIsNearer ==
  ASSUME Inv, [Next]_vars
  PROVE  [\A g \in Greenlet : Nearer(g)]_vars
<1>1. ASSUME NEW g \in Greenlet, NEW h \in Greenlet, Step(h)
      PROVE  Nearer(g)
  BY <1>1, StepIsNearer, OthersStand
<1>2. ASSUME NEW g \in Greenlet, NEW h \in Greenlet, NEW p \in Process,
             NEW request \in Requests, Start(h, p, request)
      PROVE  Nearer(g)
  <2>1. GreenletTypes
    BY TypeParts DEF Inv
  <2>2. CASE g = h
    BY <1>2, <2>2 DEF Start, Ask, Nearer
  <2>3. CASE g # h
    BY <1>2, <2>1, <2>3 DEF Start, Ask, Nearer, GreenletTypes
  <2> QED BY <2>2, <2>3
<1>3. ASSUME NEW g \in Greenlet, NEW a \in Attachment, Replaces(a)
      PROVE  Nearer(g)
  BY <1>3 DEF Replaces, Nearer
<1>4. ASSUME NEW g \in Greenlet, CacheExpires
      PROVE  Nearer(g)
  BY <1>4 DEF CacheExpires, Nearer
<1>5. ASSUME NEW g \in Greenlet, NEW p \in Process, Recycle(p)
      PROVE  Nearer(g)
  BY <1>5 DEF Recycle, ReplaceProcess, Nearer
<1> QED BY <1>1, <1>2, <1>3, <1>4, <1>5 DEF Next

(* No step of a request is ever made twice.                                *)
THEOREM ProgressHolds == Spec => MakesProgress
<1>1. Inv /\ [Next]_vars
      => [\A g \in Greenlet :
            /\ asked[g] # NULL /\ asked'[g] = asked[g]
            /\ <<pc[g], doc[g]>>' # <<pc[g], doc[g]>>
            => StepsLeft(g)' < StepsLeft(g)]_vars
  BY NextIsNearer DEF Nearer
<1> QED BY <1>1, InvHolds, PTL DEF Spec, MakesProgress

=============================================================================
