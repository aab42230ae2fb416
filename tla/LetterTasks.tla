---------------------------- MODULE LetterTasks ----------------------------
(***************************************************************************)
(* The Celery side of template preview: the processes that take jobs off   *)
(* the sanitise-letter-tasks queue, turn the PDFs of letters into files    *)
(* the print provider accepts, store them in S3 and tell notifications-api *)
(* about them on the letter-tasks queue.                                   *)
(*                                                                         *)
(* A job is acknowledged when a process takes it (task_acks_late is not    *)
(* set), so a process that dies loses it; SQS delivers at least once and   *)
(* in any order, so a job may also be done twice, by two processes at      *)
(* once.  Every call to S3 or to the broker may fail.                      *)
(*                                                                         *)
(* Nobody removes what a task has made while a job about it may still run: *)
(* nothing in the code does, and neither the API nor the print provider is *)
(* modelled further than the removals below.                               *)
(***************************************************************************)
EXTENDS SanitiseContract, FiniteSets

CONSTANTS
  Worker,              \* the Celery processes (entrypoint.sh starts four)
  PrecompiledLetter,   \* notification ids of letters uploaded as PDFs
  TemplatedLetter,     \* notification ids of letters made from a template
  Attachment,          \* ids of the PDFs attached to templates
  Doc,                 \* the uploaded document of an id
  Filename,            \* filename and letter_filename: key of a letter
  FileLocation,        \* file_location: key of a recreated letter
  KeyType,             \* key_type of a templated letter
  RenderedPages,       \* pages WeasyPrint makes of a templated letter
  AttachmentOf,        \* the attachment of a templated letter, or NULL
  Service,             \* the service that owns an attachment
  Requests,            \* the jobs notifications-api may send
  MaxRetries,          \* max_retries of create-pdf-for-templated-letter
  MaxRedeliveries      \* bound: how often SQS delivers a job once more

Uploaded == PrecompiledLetter \cup Attachment
Letter == PrecompiledLetter \cup TemplatedLetter
Id == Letter \cup Attachment

-----------------------------------------------------------------------------
(* Jobs and messages.                                                      *)

SanitiseTask == "sanitise-and-upload-letter"
CreateTask == "create-pdf-for-templated-letter"
RecreateLetterTask == "recreate-pdf-for-precompiled-letter"
RecreateAttachmentTask == "recreate-pdf-for-template-letter-attachments"

Job ==
  [task : {SanitiseTask, RecreateLetterTask}, id : PrecompiledLetter,
   allow_international : BOOLEAN]
  \cup [task : {CreateTask}, id : TemplatedLetter,
        allow_international : {FALSE}]
  \cup [task : {RecreateAttachmentTask}, id : Attachment,
        allow_international : {FALSE}]

Recreates(job) == job.task \in {RecreateLetterTask, RecreateAttachmentTask}

Message == [job : Job, retries : 0..MaxRetries]

(* What the tasks send on letter-tasks.                                    *)
ProcessSanitised == "process-sanitised-letter"
UpdateBillableUnits == "update-billable-units-for-letter"
UpdateValidationFailed == "update-validation-failed-for-templated-letter"

Callback(task, id, status, page_count, message) ==
  [task |-> task, id |-> id, validation_status |-> status,
   page_count |-> page_count, message |-> message]

-----------------------------------------------------------------------------
(* Files, buckets and keys.  A key is the sequence of its path parts.      *)

File == [form : {"original", "sanitised", "printed"}, of : Id]
Original(id) == [form |-> "original", of |-> id]
Sanitised(id) == [form |-> "sanitised", of |-> id]
Printed(id) == [form |-> "printed", of |-> id]
Absent == [form |-> "absent", of |-> NULL]

Scan == "LETTERS_SCAN"
SanitisedLetter == "SANITISED_LETTER"
Backup == "PRECOMPILED_ORIGINALS_BACKUP_LETTER"
LettersPdf == "LETTERS_PDF"
TestLetters == "TEST_LETTERS"
InvalidPdf == "INVALID_PDF"
LetterAttachment == "LETTER_ATTACHMENT"
Bucket == {Scan, SanitisedLetter, Backup, LettersPdf, TestLetters, InvalidPdf,
           LetterAttachment}

BackupKey(id) == <<id>>
AttachmentKey(a) == <<Service[a], a>>

(* '2018-01-13/NOTIFY.A.PDF' becomes 'NOTIFY.A.PDF', which stays itself.   *)
RemoveFolder(key) == <<key[IF Len(key) > 1 THEN 2 ELSE 1]>>

Key == {Filename[id] : id \in Letter}
         \cup {FileLocation[id] : id \in PrecompiledLetter}
         \cup {RemoveFolder(Filename[id]) : id \in TemplatedLetter}
         \cup {BackupKey(id) : id \in Uploaded}
         \cup {AttachmentKey(a) : a \in Attachment}

Location(bucket, key) == [bucket |-> bucket, key |-> key]
Object == [bucket : Bucket, key : Key]

(* The pages of the PDF that is printed: the letter, its attachment last.  *)
PageCount(id) ==
  RenderedPages[id]
    + (IF AttachmentOf[id] = NULL THEN 0 ELSE Len(Doc[AttachmentOf[id]].pages))

(* Where a task reads the document it sanitises.                           *)
Source(job) ==
  IF job.task = SanitiseTask THEN Location(Scan, Filename[job.id])
  ELSE Location(Backup, BackupKey(job.id))

(* Mutant: the test on key_type is dropped.                                *)
PrintTarget_KeyTypeIgnored(id) ==
  IF IsLetterTooLong(PageCount(id))
  THEN Location(InvalidPdf, RemoveFolder(Filename[id]))
  ELSE Location(LettersPdf, Filename[id])

(* Mutant: the pages of the attachment are not counted.                    *)
PrintTarget_AttachmentFree(id) ==
  CASE IsLetterTooLong(RenderedPages[id]) ->
         Location(InvalidPdf, RemoveFolder(Filename[id]))
    [] ~IsLetterTooLong(RenderedPages[id]) /\ KeyType[id] = "test" ->
         Location(TestLetters, Filename[id])
    [] ~IsLetterTooLong(RenderedPages[id]) /\ KeyType[id] # "test" ->
         Location(LettersPdf, Filename[id])

(* Where create_pdf_for_templated_letter stores the letter.                *)
PrintTarget(id) ==
  CASE IsLetterTooLong(PageCount(id)) ->
         Location(InvalidPdf, RemoveFolder(Filename[id]))
    [] ~IsLetterTooLong(PageCount(id)) /\ KeyType[id] = "test" ->
         Location(TestLetters, Filename[id])
    [] ~IsLetterTooLong(PageCount(id)) /\ KeyType[id] # "test" ->
         Location(LettersPdf, Filename[id])

(* Where a task stores what it made.                                       *)
Target(job) ==
  CASE job.task = SanitiseTask -> Location(SanitisedLetter, Filename[job.id])
    [] job.task = CreateTask -> PrintTarget(job.id)
    [] job.task = RecreateLetterTask ->
         Location(LettersPdf, FileLocation[job.id])
    [] job.task = RecreateAttachmentTask ->
         Location(LetterAttachment, AttachmentKey(job.id))

-----------------------------------------------------------------------------
(* The API makes the names of two letters differ in more than their        *)
(* folder, and a file location is the name of no other letter's file.      *)
ASSUME IdsAssumption ==
  /\ PrecompiledLetter \cap TemplatedLetter = {}
  /\ Letter \cap Attachment = {}
  /\ NULL \notin Id \cup Message
ASSUME NamesAssumption ==
  /\ \A a, b \in Letter : a # b => Filename[a] # Filename[b]
  /\ \A a, b \in TemplatedLetter :
       a # b => RemoveFolder(Filename[a]) # RemoveFolder(Filename[b])
  /\ \A a, b \in PrecompiledLetter : a # b => FileLocation[a] # FileLocation[b]
  /\ \A a \in PrecompiledLetter, b \in TemplatedLetter :
       FileLocation[a] # Filename[b]
ASSUME LettersAssumption ==
  /\ Doc \in [Uploaded -> Document]
  /\ RenderedPages \in [TemplatedLetter -> Nat \ {0}]
  /\ AttachmentOf \in [TemplatedLetter -> Attachment \cup {NULL}]
(* A letter is sanitised for the first time under one setting of its       *)
(* service's permission to send letters abroad.                            *)
ASSUME RequestsAssumption ==
  /\ Requests \subseteq Job
  /\ \A i, j \in Requests :
       i.task = SanitiseTask /\ j.task = SanitiseTask /\ i.id = j.id => i = j
ASSUME BoundsAssumption == MaxRetries \in Nat /\ MaxRedeliveries \in Nat

-----------------------------------------------------------------------------
VARIABLES
  requested,    \* jobs notifications-api has sent
  queue,        \* sanitise-letter-tasks: copies of each message
  redelivered,  \* how many copies SQS has added
  pc,           \* the next step of each process
  msg,          \* the message a process works on, NULL when idle
  file,         \* the PDF a process holds in memory
  details,      \* sanitisation_details of a process
  s3,           \* the objects of each bucket
  told,         \* callbacks ever sent on letter-tasks
  trouble       \* how runs of a job ended without a result

tasks == <<requested, queue, redelivered>>
process == <<pc, msg, file, details>>
vars == <<requested, queue, redelivered, pc, msg, file, details, s3, told,
          trouble>>

PC == {"idle", "download", "sanitise", "prepare", "upload", "backup", "send"}
Trouble == {"crashed", "raised", "boto_error", "gave_up", "refused"}

(* The steps of a task.                                                    *)
StepsOf(task) ==
  CASE task = SanitiseTask ->
         {"download", "sanitise", "upload", "backup", "send"}
    [] task = CreateTask -> {"prepare", "upload", "send"}
    [] OTHER -> {"download", "sanitise", "upload"}

JobOf(w) == msg[w].job

(* The API stores an uploaded letter in the scan bucket, and the original  *)
(* of an attachment in the backup bucket, before it sends a job about it.  *)
(* The sanitised attachments in kept are still there.                      *)
InitialObjects(kept) ==
  LET Stored(bucket, key, f) == [at |-> Location(bucket, key), file |-> f]
      objects ==
        {Stored(Scan, Filename[p], Original(p)) : p \in PrecompiledLetter}
          \cup {Stored(Backup, BackupKey(a), Original(a)) : a \in Attachment}
          \cup {Stored(LetterAttachment, AttachmentKey(a), Sanitised(a)) :
                  a \in kept}
  IN  [at \in Object |->
         IF \E o \in objects : o.at = at
         THEN (CHOOSE o \in objects : o.at = at).file
         ELSE Absent]

Init ==
  /\ requested = {}
  /\ queue = [m \in Message |-> 0]
  /\ redelivered = 0
  /\ pc = [w \in Worker |-> "idle"]
  /\ msg = [w \in Worker |-> NULL]
  /\ file = [w \in Worker |-> Absent]
  /\ details = [w \in Worker |-> NULL]
  /\ \E kept \in SUBSET Attachment : s3 = InitialObjects(kept)
  /\ told = {}
  /\ trouble = [j \in Job |-> {}]

-----------------------------------------------------------------------------
(* The queue and notifications-api, at the other end of both queues.       *)

Put(q, m) == [q EXCEPT ![m] = @ + 1]
Take(q, m) == [q EXCEPT ![m] = @ - 1]

(* Only a letter that passed before is asked to be made again.             *)
MayRequest(job) ==
  job.task = RecreateLetterTask =>
    \E c \in told : c.id = job.id /\ c.validation_status = "passed"

Request(job) ==
  /\ job \in Requests \ requested
  /\ MayRequest(job)
  /\ requested' = requested \cup {job}
  /\ queue' = Put(queue, [job |-> job, retries |-> 0])
  /\ UNCHANGED <<redelivered, process, s3, told, trouble>>

(* At-least-once delivery: a message that waits too long in the prefetch   *)
(* buffer of a process becomes visible to the others as well.              *)
Redeliver(m) ==
  /\ queue[m] > 0
  /\ redelivered < MaxRedeliveries
  /\ redelivered' = redelivered + 1
  /\ queue' = Put(queue, m)
  /\ UNCHANGED <<requested, process, s3, told, trouble>>

(* Somebody else removes the objects: the API moves a letter out of the    *)
(* scan bucket, and the backup bucket drops what is a week old.  A week is *)
(* longer than any run: no backup goes while the run that made it, or      *)
(* refreshed it, has yet to tell the API.                                  *)
ScanRemoved(p) ==
  /\ s3[Location(Scan, Filename[p])] # Absent
  /\ s3' = [s3 EXCEPT ![Location(Scan, Filename[p])] = Absent]
  /\ UNCHANGED <<tasks, process, told, trouble>>

BackupExpires(id) ==
  /\ s3[Location(Backup, BackupKey(id))] # Absent
  /\ ~ \E w \in Worker : pc[w] = "send" /\ JobOf(w).id = id
  /\ s3' = [s3 EXCEPT ![Location(Backup, BackupKey(id))] = Absent]
  /\ UNCHANGED <<tasks, process, told, trouble>>

-----------------------------------------------------------------------------
(* The processes.                                                          *)

GoTo(w, step) == pc' = [pc EXCEPT ![w] = step]

(* The process drops what it holds and takes the next message.             *)
Finish(w) ==
  /\ GoTo(w, "idle")
  /\ msg' = [msg EXCEPT ![w] = NULL]
  /\ file' = [file EXCEPT ![w] = Absent]
  /\ details' = [details EXCEPT ![w] = NULL]

FinishWith(w, ending) ==
  /\ Finish(w)
  /\ trouble' = [trouble EXCEPT ![JobOf(w)] = @ \cup {ending}]

(* Mutant: only a first sanitisation starts with a download.               *)
Receive_RecreatePrepares(w, m) ==
  /\ pc[w] = "idle"
  /\ queue[m] > 0
  /\ queue' = Take(queue, m)
  /\ msg' = [msg EXCEPT ![w] = m]
  /\ GoTo(w, IF m.job.task = SanitiseTask THEN "download" ELSE "prepare")
  /\ UNCHANGED <<requested, redelivered, file, details, s3, told, trouble>>

(* Mutant: a message is acknowledged when its job has been done.           *)
Receive_NotAcknowledged(w, m) ==
  /\ pc[w] = "idle"
  /\ queue[m] > 0
  /\ msg' = [msg EXCEPT ![w] = m]
  /\ GoTo(w, IF m.job.task = CreateTask THEN "prepare" ELSE "download")
  /\ UNCHANGED <<tasks, file, details, s3, told, trouble>>

(* Early acknowledgement: the queue forgets the message now.               *)
Receive(w, m) ==
  /\ pc[w] = "idle"
  /\ queue[m] > 0
  /\ queue' = Take(queue, m)
  /\ msg' = [msg EXCEPT ![w] = m]
  /\ GoTo(w, IF m.job.task = CreateTask THEN "prepare" ELSE "download")
  /\ UNCHANGED <<requested, redelivered, file, details, s3, told, trouble>>

Download(w) ==
  /\ pc[w] = "download"
  /\ s3[Source(JobOf(w))] # Absent
  /\ file' = [file EXCEPT ![w] = s3[Source(JobOf(w))]]
  /\ GoTo(w, "sanitise")
  /\ UNCHANGED <<tasks, msg, details, s3, told, trouble>>

(* Mutant: a letter that passed before may still go abroad.                *)
ResultsFor_AlwaysAbroad(job, doc) ==
  SanitiseOutcomes(doc, job.task = RecreateAttachmentTask,
                   job.task = RecreateLetterTask \/ job.allow_international)

(* The results of sanitising the document doc for a job.                   *)
ResultsFor(job, doc) ==
  SanitiseOutcomes(doc, job.task = RecreateAttachmentTask,
                   job.allow_international)

(* Mutant: the file that was downloaded is uploaded, not the result.       *)
SanitiseAccepts_OriginalKept(w) ==
  /\ pc[w] = "sanitise"
  /\ \E result \in ResultsFor(JobOf(w), Doc[file[w].of]) :
       /\ result.message = NULL
       /\ details' = [details EXCEPT ![w] = result]
  /\ GoTo(w, "upload")
  /\ UNCHANGED <<tasks, msg, file, s3, told, trouble>>

SanitiseAccepts(w) ==
  /\ pc[w] = "sanitise"
  /\ \E result \in ResultsFor(JobOf(w), Doc[file[w].of]) :
       /\ result.message = NULL
       /\ details' = [details EXCEPT ![w] = result]
  /\ file' = [file EXCEPT ![w] = Sanitised(file[w].of)]
  /\ GoTo(w, "upload")
  /\ UNCHANGED <<tasks, msg, s3, told, trouble>>

(* Mutant: a first sanitisation returns early as well.                     *)
SanitiseRejects_NobodyTold(w) ==
  /\ pc[w] = "sanitise"
  /\ \E result \in ResultsFor(JobOf(w), Doc[file[w].of]) :
       result.message # NULL
  /\ Finish(w)
  /\ UNCHANGED <<tasks, s3, told, trouble>>

(* A first sanitisation reports the failure; the two that start from a     *)
(* backup, which passed before, log it for somebody to investigate.        *)
SanitiseRejects(w) ==
  /\ pc[w] = "sanitise"
  /\ \E result \in ResultsFor(JobOf(w), Doc[file[w].of]) :
       /\ result.message # NULL
       /\ IF Recreates(JobOf(w))
          THEN FinishWith(w, "refused")
          ELSE /\ details' = [details EXCEPT ![w] = result]
               /\ GoTo(w, "send")
               /\ UNCHANGED <<msg, file, trouble>>
  /\ UNCHANGED <<tasks, s3, told>>

(* generate_templated_pdf: WeasyPrint, Ghostscript, then the attachment.   *)
Prepare(w) ==
  LET a == AttachmentOf[JobOf(w).id]
  IN  /\ pc[w] = "prepare"
      /\ a # NULL => s3[Location(LetterAttachment, AttachmentKey(a))] # Absent
      /\ file' = [file EXCEPT ![w] = Printed(JobOf(w).id)]
      /\ GoTo(w, "upload")
      /\ UNCHANGED <<tasks, msg, details, s3, told, trouble>>

(* Mutant: the run ends without sending itself again.                      *)
Retry_NotSent(w) ==
  /\ pc[w] = "prepare"
  /\ msg[w].retries < MaxRetries
  /\ Finish(w)
  /\ UNCHANGED <<tasks, s3, told, trouble>>

(* Mutant: the letter is made without its image all the same.              *)
Retry_RunsOn(w) ==
  /\ pc[w] = "prepare"
  /\ msg[w].retries < MaxRetries
  /\ queue' = Put(queue, [msg[w] EXCEPT !.retries = @ + 1])
  /\ file' = [file EXCEPT ![w] = Printed(JobOf(w).id)]
  /\ GoTo(w, "upload")
  /\ UNCHANGED <<requested, redelivered, msg, details, s3, told, trouble>>

(* Mutant: the retries of a message are not counted.                       *)
Retry_NotCounted(w) ==
  /\ pc[w] = "prepare"
  /\ msg[w].retries < MaxRetries
  /\ queue' = Put(queue, msg[w])
  /\ Finish(w)
  /\ UNCHANGED <<requested, redelivered, s3, told, trouble>>

(* WeasyPrint could not load an image: the task sends itself once more and *)
(* gives up when that was the last retry.                                  *)
Retry(w) ==
  /\ pc[w] = "prepare"
  /\ msg[w].retries < MaxRetries
  /\ queue' = Put(queue, [msg[w] EXCEPT !.retries = @ + 1])
  /\ Finish(w)
  /\ UNCHANGED <<requested, redelivered, s3, told, trouble>>

GiveUp(w) ==
  /\ pc[w] = "prepare"
  /\ msg[w].retries = MaxRetries
  /\ FinishWith(w, "gave_up")
  /\ UNCHANGED <<tasks, s3, told>>

Store(w) == s3' = [s3 EXCEPT ![Target(JobOf(w))] = file[w]]

(* Mutants: an error of the upload is ignored.                             *)
UploadSanitised_ErrorIgnored(w) ==
  /\ pc[w] = "upload" /\ JobOf(w).task = SanitiseTask
  /\ Store(w) \/ UNCHANGED s3
  /\ GoTo(w, "backup")
  /\ UNCHANGED <<tasks, msg, file, details, told, trouble>>

UploadTemplated_ErrorIgnored(w) ==
  /\ pc[w] = "upload" /\ JobOf(w).task = CreateTask
  /\ Store(w) \/ UNCHANGED s3
  /\ GoTo(w, "send")
  /\ UNCHANGED <<tasks, msg, file, details, told, trouble>>

(* The upload of a first sanitisation is followed by the backup, that of a *)
(* templated letter by its callback, that of a recreated file by nothing.  *)
UploadSanitised(w) ==
  /\ pc[w] = "upload" /\ JobOf(w).task = SanitiseTask
  /\ Store(w)
  /\ GoTo(w, "backup")
  /\ UNCHANGED <<tasks, msg, file, details, told, trouble>>

UploadTemplated(w) ==
  /\ pc[w] = "upload" /\ JobOf(w).task = CreateTask
  /\ Store(w)
  /\ GoTo(w, "send")
  /\ UNCHANGED <<tasks, msg, file, details, told, trouble>>

UploadRecreated(w) ==
  /\ pc[w] = "upload" /\ Recreates(JobOf(w))
  /\ Store(w)
  /\ Finish(w)
  /\ UNCHANGED <<tasks, told, trouble>>

(* Mutant: nothing is copied when the scanned letter has gone.             *)
CopyToBackup_GoneIgnored(w) ==
  LET scanned == s3[Location(Scan, Filename[JobOf(w).id])]
  IN  /\ pc[w] = "backup"
      /\ IF scanned = Absent THEN UNCHANGED s3
         ELSE s3' = [s3 EXCEPT ![Location(Backup, BackupKey(JobOf(w).id))] =
                                 scanned]
      /\ GoTo(w, "send")
      /\ UNCHANGED <<tasks, msg, file, details, told, trouble>>

(* Mutant: the original is copied to where the sanitised letter is.        *)
CopyToBackup_OverResult(w) ==
  LET scanned == s3[Location(Scan, Filename[JobOf(w).id])]
  IN  /\ pc[w] = "backup"
      /\ scanned # Absent
      /\ s3' = [s3 EXCEPT ![Target(JobOf(w))] = scanned]
      /\ GoTo(w, "send")
      /\ UNCHANGED <<tasks, msg, file, details, told, trouble>>

(* copy_s3_object copies what is in the scan bucket now, which need not be *)
(* there any more.                                                         *)
CopyToBackup(w) ==
  LET scanned == s3[Location(Scan, Filename[JobOf(w).id])]
  IN  /\ pc[w] = "backup"
      /\ scanned # Absent
      /\ s3' = [s3 EXCEPT ![Location(Backup, BackupKey(JobOf(w).id))] = scanned]
      /\ GoTo(w, "send")
      /\ UNCHANGED <<tasks, msg, file, details, told, trouble>>

(* Mutant: the message of a failure is not looked at.                      *)
SanitisedCallback_AlwaysPassed(id, result) ==
  Callback(ProcessSanitised, id, "passed", result.page_count, result.message)

SanitisedCallback(id, result) ==
  Callback(ProcessSanitised, id,
           IF result.message = NULL THEN "passed" ELSE "failed",
           result.page_count, result.message)

(* Mutant: the pages of the attachment are not counted.                    *)
TemplatedCallback_AttachmentFree(id) ==
  Callback(IF IsLetterTooLong(RenderedPages[id]) THEN UpdateValidationFailed
           ELSE UpdateBillableUnits,
           id, NULL, PageCount(id), NULL)

TemplatedCallback(id) ==
  Callback(IF IsLetterTooLong(PageCount(id)) THEN UpdateValidationFailed
           ELSE UpdateBillableUnits,
           id, NULL, PageCount(id), NULL)

Send(w) ==
  /\ pc[w] = "send"
  /\ told' = told \cup {IF JobOf(w).task = CreateTask
                        THEN TemplatedCallback(JobOf(w).id)
                        ELSE SanitisedCallback(JobOf(w).id, details[w])}
  /\ Finish(w)
  /\ UNCHANGED <<tasks, s3, trouble>>

(* Mutant: a ClientError is reported as a failed letter.                   *)
BotoError_Reported(w) ==
  /\ pc[w] \in {"download", "upload", "backup"}
  /\ told' = told \cup (IF JobOf(w).task # SanitiseTask THEN {}
                        ELSE {Callback(ProcessSanitised, JobOf(w).id, "failed",
                                       NULL, NULL)})
  /\ FinishWith(w, "boto_error")
  /\ UNCHANGED <<tasks, s3>>

(* A ClientError of S3, a missing object among them, is logged and ends    *)
(* the run: nobody is told.                                                *)
BotoError(w) ==
  /\ pc[w] \in {"download", "upload", "backup"}
  /\ FinishWith(w, "boto_error")
  /\ UNCHANGED <<tasks, s3, told>>

(* Nothing catches an error of Ghostscript, of the attachment's download   *)
(* or of the broker, nor one of S3 that is not a ClientError.              *)
Raise(w) ==
  /\ pc[w] \in {"download", "prepare", "upload", "backup", "send"}
  /\ FinishWith(w, "raised")
  /\ UNCHANGED <<tasks, s3, told>>

(* The process is killed; the one that replaces it starts idle.            *)
Crash(w) ==
  /\ pc[w] # "idle"
  /\ FinishWith(w, "crashed")
  /\ UNCHANGED <<tasks, s3, told>>

-----------------------------------------------------------------------------
Step(w) ==
  \/ Download(w) \/ SanitiseAccepts(w) \/ SanitiseRejects(w)
  \/ Prepare(w) \/ Retry(w) \/ GiveUp(w)
  \/ UploadSanitised(w) \/ UploadTemplated(w) \/ UploadRecreated(w)
  \/ CopyToBackup(w) \/ Send(w) \/ BotoError(w) \/ Raise(w)

Environment ==
  \/ \E job \in Requests : Request(job)
  \/ \E m \in Message : Redeliver(m)
  \/ \E p \in PrecompiledLetter : ScanRemoved(p)
  \/ \E id \in Uploaded : BackupExpires(id)

Next ==
  \/ Environment
  \/ \E w \in Worker :
       Step(w) \/ Crash(w) \/ \E m \in Message : Receive(w, m)

(* A process that is alive takes a message and works on it to the end.     *)
Fairness ==
  \A w \in Worker :
    /\ WF_vars(Step(w))
    /\ WF_vars(\E m \in Message : Receive(w, m))

Spec == Init /\ [][Next]_vars /\ Fairness

-----------------------------------------------------------------------------
(* Properties.                                                             *)

(* Every variable keeps its type; a process that works has a message and   *)
(* is at a step of its task, and every callback is about a letter.         *)
QueueTypeOK ==
  /\ requested \in SUBSET Requests
  /\ queue \in [Message -> Nat]
  /\ redelivered \in 0..MaxRedeliveries

ProcessTypeOK ==
  /\ pc \in [Worker -> PC]
  /\ msg \in [Worker -> Message \cup {NULL}]
  /\ file \in [Worker -> File \cup {Absent}]
  /\ DOMAIN details = Worker
  /\ \A w \in Worker : IF pc[w] = "idle" THEN msg[w] = NULL
                        ELSE /\ msg[w] \in Message
                             /\ pc[w] \in StepsOf(JobOf(w).task)

TypeOK ==
  /\ QueueTypeOK
  /\ ProcessTypeOK
  /\ s3 \in [Object -> File \cup {Absent}]
  /\ \A c \in told : c.id \in Letter
  /\ trouble \in [Job -> SUBSET Trouble]

(* What the API was told to collect is there: no callback goes out before  *)
(* the file it speaks of is in its bucket, whatever copies of the job run  *)
(* at the same time and wherever another one was interrupted               *)
(* (tasks.py: every s3upload precedes the send_task).                      *)
StoredBeforeTold ==
  \A c \in told :
    /\ c.task = ProcessSanitised /\ c.validation_status = "passed" =>
         s3[Location(SanitisedLetter, Filename[c.id])] = Sanitised(c.id)
    /\ c.task = UpdateBillableUnits =>
         \E b \in {LettersPdf, TestLetters} :
           s3[Location(b, Filename[c.id])] = Printed(c.id)
    /\ c.task = UpdateValidationFailed =>
         s3[Location(InvalidPdf, RemoveFolder(Filename[c.id]))] = Printed(c.id)

(* The letters bucket, which is printed from, only ever holds letters that *)
(* may be printed, under their own name: never a letter that is too long,  *)
(* one sent with a test key, or an original; and a letter is only made     *)
(* again under a permission that was sent with a job for it and suffices   *)
(* for its address, however it passed the first time (the branches on      *)
(* page_count and key_type, and recreate's early return).                  *)
OnlyPrintableLetters ==
  \A k \in Key :
    LET f == s3[Location(LettersPdf, k)]
    IN  \/ f = Absent
        \/ /\ f.form = "printed" /\ k = Filename[f.of]
           /\ PageCount(f.of) <= LETTER_MAX_PAGE_COUNT
           /\ KeyType[f.of] # "test"
        \/ /\ f.form = "sanitised" /\ f.of \in PrecompiledLetter
           /\ k = FileLocation[f.of]
           /\ \E job \in requested :
                /\ job.task = RecreateLetterTask /\ job.id = f.of
                /\ Printable(Doc[f.of], FALSE, job.allow_international)

(* However often a job is delivered, the API never hears two verdicts on a *)
(* letter that contradict each other (passed and failed, billed and too    *)
(* long), but for the "unable-to-read-the-file" an unexpected exception is *)
(* turned into.                                                            *)
VerdictsAgree ==
  \A c, d \in told :
    \/ c.id # d.id
    \/ c.message = "unable-to-read-the-file"
    \/ d.message = "unable-to-read-the-file"
    \/ c = d

Queued(j) == {m \in Message : m.job = j /\ queue[m] > 0}
Runs(j) == {w \in Worker : pc[w] # "idle" /\ JobOf(w) = j}
Pending(j) == Queued(j) # {} \/ Runs(j) # {}

(* The job had the effect it was sent for.                                 *)
Done(j) ==
  IF Recreates(j) THEN s3[Target(j)] = Sanitised(j.id)
  ELSE \E c \in told : c.id = j.id

(* No job just disappears: one that is neither queued nor running has had  *)
(* its effect, or one of its runs was killed, failed on S3 or the broker,  *)
(* used up its retries or met a backup that no longer passes.  In          *)
(* particular a retry is never lost.                                       *)
NoSilentLoss ==
  \A j \in requested : Pending(j) \/ Done(j) \/ trouble[j] # {}

(* Unless SQS delivers a message twice, no job is ever in two places: two  *)
(* processes never work on it, nor one while it waits for a retry, and one *)
(* that has reported is over.  So the API hears of each letter once: every *)
(* contradiction VerdictsAgree allows for comes from a redelivery          *)
(* (acknowledgement on receipt, and retry, which raises when it has sent). *)
RunOnce ==
  redelivered = 0 =>
    /\ \A j \in requested :
         /\ \A m, n \in Queued(j) : m = n /\ queue[m] = 1
         /\ \A v, w \in Runs(j) : v = w
         /\ Queued(j) = {} \/ Runs(j) = {}
         /\ Pending(j) /\ ~Recreates(j) => ~Done(j)
    /\ \A c, d \in told : c.id = d.id => c = d

(* A letter that is made again has passed, and would again: the checks can *)
(* only refuse it for an address abroad, to which its service could send   *)
(* letters then and cannot now ("This task is only intended to be used for *)
(* letters which were valid when previously sanitised").                   *)
PassesAgain ==
  \A w \in Worker :
    pc[w] = "sanitise" /\ JobOf(w).task = RecreateLetterTask =>
      LET job == JobOf(w)
          message == Verdict(Doc[file[w].of], FALSE,
                             job.allow_international).message
      IN  message # NULL =>
            /\ message = "cant-send-international-letters"
            /\ ~job.allow_international
            /\ \E first \in requested : /\ first.task = SanitiseTask
                                        /\ first.id = job.id
                                        /\ first.allow_international

(* A file a task has made is neither removed nor replaced by another one:  *)
(* repeated and recreating runs overwrite it with its like ("it will       *)
(* overwrite the existing letter in the final letters-pdf bucket").        *)
MadeStays ==
  [][\A at \in Object :
       s3[at].form \in {"sanitised", "printed"} => s3'[at] = s3[at]]_vars

(* Steps a run has left at most, its present one included.                 *)
StepsLeft ==
  [idle |-> 0, send |-> 1, backup |-> 2, upload |-> 3, sanitise |-> 4,
   prepare |-> 4, download |-> 5]

(* A run only goes forward, on the message it took, and hands on nothing   *)
(* but its own job when it ends, with a retry fewer left than it had: no   *)
(* error path leads back, and no message makes runs without end            *)
(* (max_retries, and retry, which raises when it has sent).                *)
RunsEnd ==
  [][\A w \in Worker :
       pc[w] # "idle" /\ <<pc[w], msg[w]>>' # <<pc[w], msg[w]>> =>
         /\ StepsLeft[pc'[w]] < StepsLeft[pc[w]]
         /\ pc'[w] # "idle" => msg'[w] = msg[w]
         /\ \/ queue' = queue
            \/ /\ pc'[w] = "idle"
               /\ \E retries \in (msg[w].retries + 1)..MaxRetries :
                    queue' = Put(queue, [msg[w] EXCEPT !.retries = retries])]_vars

(* Every job the API sends has its effect in the end, or a run of it was   *)
(* in trouble: retries end, no process waits for another one.              *)
EveryJobEnds ==
  \A j \in Requests : j \in requested ~> Done(j) \/ trouble[j] # {}

-----------------------------------------------------------------------------
(* The inductive invariant behind the safety properties.                   *)

(* What a job makes, and whether it is in its bucket.                      *)
Made(job) ==
  IF job.task = CreateTask THEN Printed(job.id) ELSE Sanitised(job.id)
IsStored(job) == s3[Target(job)] = Made(job)

Accepts(job) ==
  Verdict(Doc[job.id], job.task = RecreateAttachmentTask,
          job.allow_international).message = NULL

(* Every object of S3 is an original under its own name, or what a job     *)
(* makes where the job stores it.                                          *)
ObjectOK(at) ==
  \/ s3[at] = Absent
  \/ \E p \in PrecompiledLetter :
       at = Location(Scan, Filename[p]) /\ s3[at] = Original(p)
  \/ \E id \in Uploaded :
       at = Location(Backup, BackupKey(id)) /\ s3[at] = Original(id)
  \/ \E job \in Job :
       /\ at = Target(job) /\ s3[at] = Made(job)
       /\ job.task = RecreateLetterTask => job \in requested /\ Accepts(job)

(* What a process holds at each step, and what its run has stored by then. *)
WorkOK(w) ==
  LET job == JobOf(w)
  IN  pc[w] # "idle" =>
        /\ job \in requested
        /\ pc[w] = "sanitise" => file[w] = Original(job.id)
        /\ pc[w] = "upload" => file[w] = Made(job)
        /\ pc[w] \in {"upload", "backup"} /\ job.task # CreateTask =>
             /\ details[w] \in ResultsFor(job, Doc[job.id])
             /\ details[w].message = NULL
        /\ pc[w] = "backup" => IsStored(job)
        /\ pc[w] = "send" /\ job.task = CreateTask => IsStored(job)
        /\ pc[w] = "send" /\ job.task = SanitiseTask =>
             /\ details[w] \in ResultsFor(job, Doc[job.id])
             /\ details[w].message = NULL => IsStored(job)

CallbacksOf(job) ==
  CASE job.task = SanitiseTask ->
         {SanitisedCallback(job.id, result) :
            result \in ResultsFor(job, Doc[job.id])}
    [] job.task = CreateTask -> {TemplatedCallback(job.id)}
    [] OTHER -> {}

(* Every callback is one of a job, which has stored its file unless the    *)
(* letter failed.                                                          *)
ToldOK(c) ==
  \E job \in Requests :
    c \in CallbacksOf(job) /\ (c.message = NULL => IsStored(job))

(* Whatever waits in the queue was asked for.                              *)
QueueOK == \A m \in Message : queue[m] > 0 => m.job \in requested

Inv ==
  /\ TypeOK
  /\ QueueOK
  /\ \A at \in Object : ObjectOK(at)
  /\ \A w \in Worker : WorkOK(w)
  /\ \A c \in told : ToldOK(c)

-----------------------------------------------------------------------------
(* The tasks implement LetterDelivery.                                     *)

StoredOf(id) ==
  {a \in {"sanitised", "original", "print", "too_long"} :
     CASE a = "sanitised" ->
            s3[Location(SanitisedLetter, Filename[id])] = Sanitised(id)
       [] a = "original" ->
            id \in Uploaded /\ s3[Location(Backup, BackupKey(id))] = Original(id)
       [] a = "print" ->
            \E b \in {LettersPdf, TestLetters} :
              s3[Location(b, Filename[id])] = Printed(id)
       [] a = "too_long" ->
            id \in TemplatedLetter
              /\ s3[Location(InvalidPdf, RemoveFolder(Filename[id]))]
                   = Printed(id)}

SaidBy(c) ==
  IF c.message = "unable-to-read-the-file" THEN "unreadable"
  ELSE CASE c.task = UpdateBillableUnits -> "billable"
         [] c.task = UpdateValidationFailed -> "too_long"
         [] OTHER -> c.validation_status

Delivery == INSTANCE LetterDelivery WITH
  stored <- [id \in Letter |-> StoredOf(id)],
  told <- [id \in Letter |-> {SaidBy(c) : c \in {d \in told : d.id = id}}]

(* Whatever is killed, lost, repeated or reordered, the API can rely on    *)
(* what it is told: at the moment of the callback the sanitised letter and *)
(* the backup of its original, or the templated letter, are in their       *)
(* buckets, and no later callback takes a verdict back.                    *)
ImplementsDelivery == Delivery!Spec

===========================================================================
