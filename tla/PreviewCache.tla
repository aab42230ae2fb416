---------------------------- MODULE PreviewCache ----------------------------
(***************************************************************************)
(* How the previews are made: every part and every page is looked up in    *)
(* the LRU cache of the process, then in S3, and is generated and uploaded *)
(* when it is in neither.  Requests in one process are greenlets, which    *)
(* interleave wherever one of them waits for S3; the processes share the   *)
(* cache bucket and nothing else.                                          *)
(***************************************************************************)
EXTENDS PreviewService, FiniteSets

CONSTANT MaxSize    \* lru_cache(maxsize=2_000)

ASSUME MaxSizeAssumption == MaxSize \in Nat \ {0}

VARIABLES
  pc,       \* the next step of each greenlet
  doc,      \* the parts it has stitched together
  held,     \* the file it has downloaded or generated, and not yet passed on
  cache,    \* the cache bucket: entries of a key and a file
  lru       \* for each process, the entries of its LRU cache

vars == <<serviceVars, pc, doc, held, cache, lru>>

Working == {"lookup", "insert", "upload"}

-----------------------------------------------------------------------------
(* Keys.  A key is the bucket or folder, and the arguments that are hashed *)
(* into the name of the object.                                            *)

AttachmentKey(a) == [folder |-> "attachments", args |-> <<a>>]
TemplatedKey(html) == [folder |-> "templated", args |-> <<html>>]

(* Mutant: pages are cached under the names of the parts of their letter.  *)
PngKey_ByName(d, page, hide_notify) ==
  [folder |-> "pngs",
   args |-> <<[i \in DOMAIN d |-> Complete(d[i].name)], page, hide_notify>>]

(* The pickled page holds the document it belongs to.                      *)
PngKey(d, page, hide_notify) ==
  [folder |-> "pngs", args |-> <<d, page, hide_notify>>]

IsKey(key) ==
  \/ \E a \in Attachment : key = AttachmentKey(a)
  \/ \E html \in Html : key = TemplatedKey(html)
  \/ /\ key.folder = "pngs"
     /\ key = PngKey(key.args[1], key.args[2], key.args[3])
     /\ Png(key.args[1], key.args[2], key.args[3]) \in File

Entry(key, file) == [key |-> key, file |-> file]
IsEntry(e) == e = Entry(e.key, e.file) /\ IsKey(e.key) /\ e.file \in File

(* What is under a key, in a bucket or an LRU cache.                       *)
Under(key, entries) == {e.file : e \in {x \in entries : x.key = key}}

Put(key, file, entries) ==
  {e \in entries : e.key # key} \cup {Entry(key, file)}

(* What the original function returns; WeasyPrint renders the letter with  *)
(* its images or raises, because of weasyprint_hack.                       *)
Generated(key) ==
  IF key.folder = "templated" THEN Pdf(<<Complete(key.args[1])>>)
  ELSE Png(key.args[1], key.args[2], key.args[3])

-----------------------------------------------------------------------------
Init ==
  /\ ServiceInit
  /\ pc = [g \in Greenlet |-> "idle"]
  /\ doc = [g \in Greenlet |-> << >>]
  /\ held = [g \in Greenlet |-> NULL]
  /\ cache = {}
  /\ lru = [p \in Process |-> {}]

Lru(g) == lru[process[g]]

(* The next part of the letter, or when it has all its parts the page.     *)
PartKey(name) ==
  IF name \in Attachment THEN AttachmentKey(name) ELSE TemplatedKey(name)

NextPart(g) == asked[g].parts[Len(doc[g]) + 1]
HasAllParts(g) == Len(doc[g]) = Len(asked[g].parts)

Wanted(g) ==
  IF HasAllParts(g) THEN PngKey(doc[g], asked[g].page, asked[g].hide_notify)
  ELSE PartKey(NextPart(g))

(* What S3 has of it: the attachments have a bucket of their own.          *)
InS3(g) ==
  IF ~HasAllParts(g) /\ NextPart(g) \in Attachment
  THEN {Pdf(<<[name |-> NextPart(g), version |-> stored[NextPart(g)]]>>)}
  ELSE Under(Wanted(g), cache)

-----------------------------------------------------------------------------
(* Steps of a greenlet.                                                    *)

Waits(g, step) ==
  /\ pc' = [pc EXCEPT ![g] = step]
  /\ Idle

Ends(g, file) ==
  /\ Answer(g, file)
  /\ pc' = [pc EXCEPT ![g] = "idle"]
  /\ doc' = [doc EXCEPT ![g] = << >>]
  /\ held' = [held EXCEPT ![g] = NULL]

(* A file that was wanted is there: it is the next part, or the page.      *)
Got(g, file) ==
  LET stitched == doc[g] \o file.doc
  IN  IF HasAllParts(g) THEN Ends(g, file)
      ELSE IF Len(stitched) = Len(asked[g].parts) /\ asked[g].page = NULL
      THEN Ends(g, Pdf(stitched))
      ELSE /\ Waits(g, "lookup")
           /\ doc' = [doc EXCEPT ![g] = stitched]
           /\ held' = [held EXCEPT ![g] = NULL]

(* A precompiled letter comes in the body of its request.                  *)
InBody(request) ==
  IF request.parts[1] \in Scan THEN <<Complete(request.parts[1])>> ELSE << >>

Start(g, p, request) ==
  /\ Ask(g, p, request)
  /\ pc' = [pc EXCEPT ![g] = "lookup"]
  /\ doc' = [doc EXCEPT ![g] = InBody(request)]
  /\ UNCHANGED <<held, cache, lru>>

(* caching_s3download, when the LRU cache has the object.                  *)
LruHit(g) ==
  /\ pc[g] = "lookup"
  /\ \E file \in Under(Wanted(g), Lru(g)) : Got(g, file)
  /\ UNCHANGED <<cache, lru>>

(* The same when it has not, and S3 has.                                   *)
Download(g) ==
  /\ pc[g] = "lookup"
  /\ Under(Wanted(g), Lru(g)) = {}
  /\ \E file \in InS3(g) : held' = [held EXCEPT ![g] = file]
  /\ Waits(g, "insert")
  /\ UNCHANGED <<doc, cache, lru>>

(* Mutant: lru_cache(maxsize=None).                                        *)
Insert_Unbounded(g) ==
  LET key == Wanted(g)
      p == process[g]
  IN  /\ pc[g] = "insert"
      /\ lru' = [lru EXCEPT ![p] = IF Under(key, @) # {} THEN @
                                   ELSE @ \cup {Entry(key, held[g])}]
      /\ Got(g, held[g])
      /\ UNCHANGED cache

(* The downloaded object goes into the LRU cache, instead of the one used  *)
(* least recently when that is full (any of them, here), unless another    *)
(* greenlet has put one there in the meantime; the caller gets its own.    *)
Insert(g) ==
  LET key == Wanted(g)
      p == process[g]
  IN  /\ pc[g] = "insert"
      /\ \/ /\ Under(key, lru[p]) # {}
            /\ UNCHANGED lru
         \/ /\ Under(key, lru[p]) = {}
            /\ Cardinality(lru[p]) < MaxSize
            /\ lru' = [lru EXCEPT ![p] = @ \cup {Entry(key, held[g])}]
         \/ /\ Under(key, lru[p]) = {}
            /\ Cardinality(lru[p]) = MaxSize
            /\ \E oldest \in lru[p] :
                 lru' = [lru EXCEPT ![p] =
                           (@ \ {oldest}) \cup {Entry(key, held[g])}]
      /\ Got(g, held[g])
      /\ UNCHANGED cache

(* Mutant: an image that cannot be loaded is only logged.                  *)
Generate_ImageMissing(g) ==
  /\ pc[g] = "lookup"
  /\ Wanted(g).folder # "attachments"
  /\ Under(Wanted(g), Lru(g)) = {} /\ InS3(g) = {}
  /\ \E version \in 0..1 :
       held' = [held EXCEPT ![g] =
                  IF Wanted(g).folder = "templated"
                  THEN Pdf(<<[name |-> NextPart(g), version |-> version]>>)
                  ELSE Generated(Wanted(g))]
  /\ Waits(g, "upload")
  /\ UNCHANGED <<doc, cache, lru>>

(* suppress(S3ObjectNotFound): the file is generated.                      *)
Generate(g) ==
  /\ pc[g] = "lookup"
  /\ Wanted(g).folder # "attachments"
  /\ Under(Wanted(g), Lru(g)) = {} /\ InS3(g) = {}
  /\ held' = [held EXCEPT ![g] = Generated(Wanted(g))]
  /\ Waits(g, "upload")
  /\ UNCHANGED <<doc, cache, lru>>

(* Mutant: what was uploaded is looked up again.                           *)
Upload_ReadBack(g) ==
  /\ pc[g] = "upload"
  /\ cache' = Put(Wanted(g), held[g], cache)
  /\ Waits(g, "lookup")
  /\ held' = [held EXCEPT ![g] = NULL]
  /\ UNCHANGED <<doc, lru>>

(* The file is uploaded, and goes to the caller but not into the LRU cache.*)
Upload(g) ==
  /\ pc[g] = "upload"
  /\ cache' = Put(Wanted(g), held[g], cache)
  /\ Got(g, held[g])
  /\ UNCHANGED lru

(* The upload was done, but S3's answer to it was lost.                    *)
UploadUnconfirmed(g) ==
  /\ pc[g] = "upload"
  /\ cache' = Put(Wanted(g), held[g], cache)
  /\ Ends(g, ServerError)
  /\ UNCHANGED lru

(* S3 fails, the attachment is not there, WeasyPrint or ImageMagick raise: *)
(* nothing is cached, and the request fails whatever was at hand.          *)
Fail(g) ==
  /\ pc[g] \in Working
  /\ Ends(g, ServerError)
  /\ UNCHANGED <<cache, lru>>

-----------------------------------------------------------------------------
(* What happens around them.                                               *)

Replaces(a) ==
  /\ ReplaceAttachment(a)
  /\ UNCHANGED <<pc, doc, held, cache, lru>>

CacheExpires ==
  /\ \E e \in cache : cache' = cache \ {e}
  /\ Idle
  /\ UNCHANGED <<pc, doc, held, lru>>

(* Mutant: the LRU cache outlives its process.                             *)
Recycle_LruKept(p) ==
  /\ ReplaceProcess(p)
  /\ pc' = [g \in Greenlet |-> IF g \in Freed(p) THEN "idle" ELSE pc[g]]
  /\ doc' = [g \in Greenlet |-> IF g \in Freed(p) THEN << >> ELSE doc[g]]
  /\ held' = [g \in Greenlet |-> IF g \in Freed(p) THEN NULL ELSE held[g]]
  /\ UNCHANGED <<cache, lru>>

(* A gunicorn worker has done its ten requests, or has not been heard of   *)
(* for thirty seconds, or the app is deployed.                             *)
Recycle(p) ==
  /\ ReplaceProcess(p)
  /\ pc' = [g \in Greenlet |-> IF g \in Freed(p) THEN "idle" ELSE pc[g]]
  /\ doc' = [g \in Greenlet |-> IF g \in Freed(p) THEN << >> ELSE doc[g]]
  /\ held' = [g \in Greenlet |-> IF g \in Freed(p) THEN NULL ELSE held[g]]
  /\ lru' = [lru EXCEPT ![p] = {}]
  /\ UNCHANGED cache

Step(g) ==
  \/ Fail(g) \/ LruHit(g) \/ Download(g) \/ Insert(g) \/ Generate(g)
  \/ Upload(g) \/ UploadUnconfirmed(g)

Next ==
  \/ \E g \in Greenlet, p \in Process, request \in Requests : Start(g, p, request)
  \/ \E g \in Greenlet : Step(g)
  \/ \E a \in Attachment : Replaces(a)
  \/ CacheExpires
  \/ \E p \in Process : Recycle(p)

Spec == Init /\ [][Next]_vars

-----------------------------------------------------------------------------
(* Properties.                                                             *)

(* Every variable keeps its type; a greenlet holds a file when it has one  *)
(* to pass on; and no LRU cache grows past its size.                       *)
TypeOK ==
  /\ asked \in [Greenlet -> Requests \cup {NULL}]
  /\ process \in [Greenlet -> Process \cup {NULL}]
  /\ response \in Response \cup {NULL}
  /\ stored \in [Attachment -> Nat]
  /\ since \in [Process -> [Attachment -> Nat]]
  /\ pc \in [Greenlet -> Working \cup {"idle"}]
  /\ doc \in [Greenlet -> Seq(Part)]
  /\ held \in [Greenlet -> File \cup {NULL}]
  /\ \A g \in Greenlet : held[g] # NULL <=> pc[g] \in {"insert", "upload"}
  /\ \A e \in cache : IsEntry(e)
  /\ DOMAIN lru = Process
  /\ \A p \in Process : /\ IsFiniteSet(lru[p]) /\ Cardinality(lru[p]) <= MaxSize
                       /\ \A e \in lru[p] : IsEntry(e)

(* Whoever generated it, in whatever order it was uploaded, and whatever   *)
(* failed on the way: under a key of the cache bucket is what generating   *)
(* it anew would give, so a hit cannot be told from a miss.  In            *)
(* particular no letter without its logo is ever cached.                   *)
CacheSound ==
  \A e \in cache : e.key.folder # "attachments" /\ e.file = Generated(e.key)

(* An attachment as its bucket has had it since the process p started, and *)
(* what is generated as it always is.                                      *)
FileOK(file, key, p) ==
  IF key.folder = "attachments"
  THEN \E version \in 0..MaxVersion :
         LET part == [name |-> key.args[1], version |-> version]
         IN  file = Pdf(<<part>>) /\ PartOK(part, key.args[1], p)
  ELSE file = Generated(key)

(* An LRU cache has one entry for a key, and what is under it the process  *)
(* may show, however many greenlets have downloaded it at once, and        *)
(* whatever was replaced or evicted between a download and its insertion.  *)
LruSound ==
  \A p \in Process : \A e \in lru[p] :
    /\ \A x \in lru[p] : x.key = e.key => x = e
    /\ FileOK(e.file, e.key, p)

(* Every step of a request brings it nearer to its end, whatever the other *)
(* greenlets, the environment and the caches do meanwhile: no lookup is    *)
(* ever made again, so that objects that expire or are evicted, and        *)
(* processes that generate the same preview, cannot keep each other busy.  *)
StepsLeft(g) ==
  2 * (Len(asked[g].parts) - Len(doc[g]))
    + (IF pc[g] = "lookup" THEN 1 ELSE 0)

MakesProgress ==
  [][\A g \in Greenlet :
       /\ asked[g] # NULL /\ asked'[g] = asked[g]
       /\ <<pc[g], doc[g]>>' # <<pc[g], doc[g]>>
       => StepsLeft(g)' < StepsLeft(g)]_vars

=============================================================================
