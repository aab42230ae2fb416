--------------------------- MODULE PreviewService ---------------------------
(***************************************************************************)
(* What the preview endpoints promise the admin app, whatever is cached    *)
(* where: a preview shows the letter, page and form that were asked for,   *)
(* complete, with an attachment no older than the one the answering        *)
(* process could see when it started.  That it may be that old is a        *)
(* promise as well: nothing tells a process that an attachment was         *)
(* replaced.                                                               *)
(***************************************************************************)
EXTENDS Naturals, Sequences

CONSTANTS
  NULL,          \* Python's None
  Process,       \* the gunicorn workers
  Greenlet,      \* what a process works on a request in
  Html,          \* letters as get_html writes them, one for each language
  Attachment,    \* the attachments, by their keys in their bucket
  Scan,          \* precompiled PDFs, sent in the body of a request
  Requests,      \* the requests admin makes
  MaxVersion     \* bound: the times an attachment is stored

Name == Html \cup Attachment \cup Scan

(* A PDF is the sequence of the parts it was stitched from; an attachment  *)
(* may be replaced under its key, and so has versions.  A file is a PDF,   *)
(* or the picture of one of its pages.                                     *)
Part == [name : Name, version : Nat]
Complete(name) == [name |-> name, version |-> 1]

File == [doc : Seq(Part), page : Nat \cup {NULL}, hide_notify : BOOLEAN]
Pdf(doc) == [doc |-> doc, page |-> NULL, hide_notify |-> FALSE]
Png(doc, page, hide_notify) ==
  [doc |-> doc, page |-> page, hide_notify |-> hide_notify]

(* What a preview is made of, in order, and what of it is sent: a page, or *)
(* the PDF.  A precompiled letter is the whole of its request.             *)
Request == [parts : Seq(Html \cup Attachment) \cup {<<s>> : s \in Scan},
            page : Nat \cup {NULL}, hide_notify : BOOLEAN]

ServerError == [code |-> 500]
Response == [to : Requests, body : File \cup {ServerError}]

ASSUME PreviewAssumption ==
  /\ Requests \subseteq Request
  /\ \A r \in Requests :
       /\ r.parts # << >>
       /\ r.page = NULL => ~r.hide_notify /\ r.parts[1] \notin Scan
  /\ Html \cap Attachment = {} /\ Html \cap Scan = {}
  /\ Attachment \cap Scan = {}
  /\ NULL \notin Requests /\ NULL \notin Process /\ NULL \notin Nat
  /\ NULL \notin File /\ NULL \notin Response
  /\ MaxVersion \in Nat \ {0}

VARIABLES
  asked,     \* the request of each greenlet, NULL when there is none
  process,   \* the process that took it
  response,  \* the answer sent by the last step, NULL when it sent none
  stored,    \* the version of each attachment in its bucket
  since      \* for each process, what was stored when it started

serviceVars == <<asked, process, response, stored, since>>

(* A part of the preview as the process p may show it.                     *)
PartOK(part, name, p) ==
  /\ part.name = name
  /\ IF name \in Attachment
     THEN part.version \in since[p][name]..stored[name]
     ELSE part = Complete(name)

(* doc is, up to its length, the letter of the request.                    *)
DocOK(doc, request, p) ==
  /\ Len(doc) <= Len(request.parts)
  /\ \A i \in 1..Len(doc) : PartOK(doc[i], request.parts[i], p)

IsPreview(file, request, p) ==
  /\ file.page = request.page
  /\ file.hide_notify = request.hide_notify
  /\ Len(file.doc) = Len(request.parts)
  /\ DocOK(file.doc, request, p)

ServiceInit ==
  /\ asked = [g \in Greenlet |-> NULL]
  /\ process = [g \in Greenlet |-> NULL]
  /\ response = NULL
  /\ stored = [a \in Attachment |-> 1]
  /\ since = [p \in Process |-> stored]

(* Whichever process is free to take it works on a request.                *)
Ask(g, p, request) ==
  /\ asked[g] = NULL
  /\ process' = [process EXCEPT ![g] = p]
  /\ asked' = [asked EXCEPT ![g] = request]
  /\ response' = NULL
  /\ UNCHANGED <<stored, since>>

(* To the request of g, with a file or an error.                           *)
Answer(g, file) ==
  /\ asked[g] # NULL
  /\ asked' = [asked EXCEPT ![g] = NULL]
  /\ process' = [process EXCEPT ![g] = NULL]
  /\ response' = [to |-> asked[g], body |-> file]
  /\ UNCHANGED <<stored, since>>

(* Another attachment is stored under its key, as                          *)
(* recreate_pdf_for_template_letter_attachments does.                      *)
ReplaceAttachment(a) ==
  /\ stored[a] < MaxVersion
  /\ stored' = [stored EXCEPT ![a] = @ + 1]
  /\ response' = NULL
  /\ UNCHANGED <<asked, process, since>>

(* A process is replaced; the requests it was working on get no answer.    *)
Freed(p) == {g \in Greenlet : process[g] = p}

ReplaceProcess(p) ==
  /\ asked' = [g \in Greenlet |-> IF g \in Freed(p) THEN NULL ELSE asked[g]]
  /\ process' = [g \in Greenlet |-> IF g \in Freed(p) THEN NULL ELSE process[g]]
  /\ since' = [since EXCEPT ![p] = stored]
  /\ response' = NULL
  /\ UNCHANGED stored

(* Time passes, and the last answer with it.                              *)
Idle == response' = NULL /\ UNCHANGED <<asked, process, stored, since>>

ServiceNext ==
  \/ Idle
  \/ \E g \in Greenlet, p \in Process, request \in Requests : Ask(g, p, request)
  \/ \E g \in Greenlet :
       /\ response' # NULL
       /\ Answer(g, response'.body)
       /\ \/ response'.body = ServerError
          \/ /\ response'.body \in File
             /\ IsPreview(response'.body, asked[g], process[g])
  \/ \E a \in Attachment : ReplaceAttachment(a)
  \/ \E p \in Process : ReplaceProcess(p)

(* The previews as admin sees them.                                        *)
ServiceSpec == ServiceInit /\ [][ServiceNext]_serviceVars

=============================================================================
