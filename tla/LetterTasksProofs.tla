------------------------- MODULE LetterTasksProofs -------------------------
(***************************************************************************)
(* Theorems about LetterTasks, for every set of letters, processes and     *)
(* requests and every bound on retries and redeliveries.                   *)
(***************************************************************************)
EXTENDS LetterTasks, SanitiseContractProofs

-----------------------------------------------------------------------------
(* The locations the tasks read and write are objects of S3.               *)
LEMMA LocationsAreObjects ==
  /\ \A id \in Letter, b \in Bucket : Location(b, Filename[id]) \in Object
  /\ \A p \in PrecompiledLetter :
       Location(LettersPdf, FileLocation[p]) \in Object
  /\ \A id \in Uploaded : Location(Backup, BackupKey(id)) \in Object
  /\ \A a \in Attachment : Location(LetterAttachment, AttachmentKey(a)) \in Object
  /\ \A t \in TemplatedLetter :
       Location(InvalidPdf, RemoveFolder(Filename[t])) \in Object
BY SMTT(30) DEF Location, Object, Bucket, Key, Letter, Uploaded, LettersPdf, Backup,
   LetterAttachment, InvalidPdf, Scan, SanitisedLetter, TestLetters

LEMMA JobFacts ==
  ASSUME NEW job \in Job
  PROVE  /\ job.task \in {SanitiseTask, CreateTask, RecreateLetterTask,
                          RecreateAttachmentTask}
         /\ job.task = SanitiseTask => job.id \in PrecompiledLetter
         /\ job.task = RecreateLetterTask => job.id \in PrecompiledLetter
         /\ job.task = CreateTask => job.id \in TemplatedLetter
         /\ job.task = RecreateAttachmentTask => job.id \in Attachment
         /\ job.allow_international \in BOOLEAN
BY DEF Job, SanitiseTask, CreateTask, RecreateLetterTask,
   RecreateAttachmentTask

LEMMA TasksDiffer ==
  /\ SanitiseTask # CreateTask
  /\ SanitiseTask # RecreateLetterTask
  /\ SanitiseTask # RecreateAttachmentTask
  /\ CreateTask # RecreateLetterTask
  /\ CreateTask # RecreateAttachmentTask
  /\ RecreateLetterTask # RecreateAttachmentTask
BY DEF SanitiseTask, CreateTask, RecreateLetterTask, RecreateAttachmentTask

LEMMA BucketsAreBuckets ==
  /\ Scan \in Bucket /\ SanitisedLetter \in Bucket /\ Backup \in Bucket
  /\ LettersPdf \in Bucket /\ TestLetters \in Bucket
  /\ InvalidPdf \in Bucket /\ LetterAttachment \in Bucket
BY DEF Bucket

LEMMA SourceIsObject ==
  ASSUME NEW job \in Job, job.task # CreateTask
  PROVE  Source(job) \in Object
BY JobFacts, TasksDiffer, BucketsAreBuckets, LocationsAreObjects
   DEF Source, Letter, Uploaded

LEMMA PrintTargetIsObject ==
  ASSUME NEW t \in TemplatedLetter
  PROVE  PrintTarget(t) \in Object
BY BucketsAreBuckets, LocationsAreObjects DEF PrintTarget, Letter

LEMMA TargetIsObject ==
  ASSUME NEW job \in Job
  PROVE  Target(job) \in Object
BY JobFacts, TasksDiffer, BucketsAreBuckets, LocationsAreObjects,
   PrintTargetIsObject DEF Target, Letter

-----------------------------------------------------------------------------
(* Names tell the files of different letters apart.                        *)

LEMMA BucketsDiffer ==
  /\ Scan \notin {SanitisedLetter, Backup, LettersPdf, TestLetters, InvalidPdf,
                  LetterAttachment}
  /\ Backup \notin {SanitisedLetter, LettersPdf, TestLetters, InvalidPdf,
                    LetterAttachment}
  /\ SanitisedLetter \notin {LettersPdf, TestLetters, InvalidPdf,
                             LetterAttachment}
  /\ LetterAttachment \notin {LettersPdf, TestLetters, InvalidPdf}
  /\ LettersPdf \notin {TestLetters, InvalidPdf}
  /\ TestLetters # InvalidPdf
BY DEF Scan, SanitisedLetter, Backup, LettersPdf, TestLetters, InvalidPdf,
   LetterAttachment

LEMMA LocationFields ==
  ASSUME NEW b, NEW k
  PROVE  Location(b, k).bucket = b /\ Location(b, k).key = k
BY DEF Location

LEMMA LocationsEqual ==
  ASSUME NEW b, NEW k, NEW c, NEW l, Location(b, k) = Location(c, l)
  PROVE  b = c /\ k = l
BY DEF Location

(* The bucket of what a job makes.                                         *)
LEMMA TargetBucket ==
  ASSUME NEW job \in Job
  PROVE  /\ job.task = SanitiseTask => Target(job).bucket = SanitisedLetter
         /\ job.task = CreateTask =>
              Target(job).bucket \in {InvalidPdf, TestLetters, LettersPdf}
         /\ job.task = RecreateLetterTask => Target(job).bucket = LettersPdf
         /\ job.task = RecreateAttachmentTask =>
              Target(job).bucket = LetterAttachment
<1>1. CASE job.task = SanitiseTask
  BY <1>1, TasksDiffer DEF Target, Location
<1>2. CASE job.task = CreateTask
  <2>1. Target(job) = PrintTarget(job.id)
    BY <1>2, TasksDiffer DEF Target
  <2>2. PrintTarget(job.id).bucket \in {InvalidPdf, TestLetters, LettersPdf}
    <3>1. CASE IsLetterTooLong(PageCount(job.id))
      BY <3>1 DEF PrintTarget, Location
    <3>2. CASE ~IsLetterTooLong(PageCount(job.id)) /\ KeyType[job.id] = "test"
      BY <3>2 DEF PrintTarget, Location
    <3>3. CASE ~IsLetterTooLong(PageCount(job.id)) /\ KeyType[job.id] # "test"
      BY <3>3 DEF PrintTarget, Location
    <3> QED
      BY <3>1, <3>2, <3>3
  <2> QED
    BY <1>2, <2>1, <2>2, TasksDiffer
<1>3. CASE job.task = RecreateLetterTask
  BY <1>3, TasksDiffer DEF Target, Location
<1>4. CASE job.task = RecreateAttachmentTask
  BY <1>4, TasksDiffer DEF Target, Location
<1> QED
  BY <1>1, <1>2, <1>3, <1>4, JobFacts

LEMMA TargetIsNoSource ==
  ASSUME NEW job \in Job
  PROVE  Target(job).bucket \notin {Scan, Backup}
BY TargetBucket, BucketsDiffer, JobFacts

(* The three places a templated letter can go to.                          *)
LEMMA PrintTargetCases ==
  ASSUME NEW t \in TemplatedLetter
  PROVE  \/ /\ IsLetterTooLong(PageCount(t))
            /\ PrintTarget(t) = Location(InvalidPdf, RemoveFolder(Filename[t]))
         \/ /\ ~IsLetterTooLong(PageCount(t)) /\ KeyType[t] = "test"
            /\ PrintTarget(t) = Location(TestLetters, Filename[t])
         \/ /\ ~IsLetterTooLong(PageCount(t)) /\ KeyType[t] # "test"
            /\ PrintTarget(t) = Location(LettersPdf, Filename[t])
BY DEF PrintTarget

LEMMA PrintTargetsDiffer ==
  ASSUME NEW a \in TemplatedLetter, NEW b \in TemplatedLetter,
         PrintTarget(a) = PrintTarget(b)
  PROVE  a = b
<1>1. a \in Letter /\ b \in Letter
  BY DEF Letter
<1>2. PrintTarget(a).bucket = PrintTarget(b).bucket
        /\ PrintTarget(a).key = PrintTarget(b).key
  OBVIOUS
<1>3. \/ Filename[a] = Filename[b]
      \/ RemoveFolder(Filename[a]) = RemoveFolder(Filename[b])
  BY <1>2, PrintTargetCases, BucketsDiffer DEF Location
<1> QED
  BY <1>1, <1>3, NamesAssumption

(* Two jobs that store to the same place store the same file: what one     *)
(* stored the other can only overwrite with its equal.                     *)
LEMMA SameTargetSameFile ==
  ASSUME NEW i \in Job, NEW j \in Job, Target(i) = Target(j)
  PROVE  Made(i) = Made(j)
<1>1. Target(i).bucket = Target(j).bucket /\ Target(i).key = Target(j).key
  OBVIOUS
<1>2. CASE i.task = CreateTask /\ j.task = CreateTask
  <2>1. PrintTarget(i.id) = PrintTarget(j.id)
    BY <1>2, TasksDiffer DEF Target
  <2> QED
    BY <1>2, <2>1, PrintTargetsDiffer, JobFacts DEF Made
<1>3. CASE i.task = SanitiseTask
  <2>1. j.task = SanitiseTask
    BY <1>1, <1>3, TargetBucket, BucketsDiffer, JobFacts
  <2>2. Filename[i.id] = Filename[j.id]
    <3>1. /\ Target(i) = Location(SanitisedLetter, Filename[i.id])
          /\ Target(j) = Location(SanitisedLetter, Filename[j.id])
      BY <1>3, <2>1, TasksDiffer DEF Target
    <3>2. Location(SanitisedLetter, Filename[i.id])
            = Location(SanitisedLetter, Filename[j.id])
      BY <3>1
    <3> QED
      BY <3>2, LocationsEqual
  <2>3. i.id \in Letter /\ j.id \in Letter
    BY <1>3, <2>1, JobFacts DEF Letter
  <2> QED
    BY <1>3, <2>1, <2>2, <2>3, NamesAssumption, TasksDiffer DEF Made
<1>4. CASE i.task = RecreateAttachmentTask
  <2>1. j.task = RecreateAttachmentTask
    BY <1>1, <1>4, TargetBucket, BucketsDiffer, JobFacts
  <2>2. AttachmentKey(i.id) = AttachmentKey(j.id)
    BY <1>1, <1>4, <2>1, TasksDiffer DEF Target, Location
  <2> QED
    BY <1>4, <2>1, <2>2, TasksDiffer DEF Made, AttachmentKey
<1>5. CASE i.task = RecreateLetterTask /\ j.task = RecreateLetterTask
  <2>1. FileLocation[i.id] = FileLocation[j.id]
    BY <1>1, <1>5, TasksDiffer DEF Target, Location
  <2> QED
    BY <1>5, <2>1, NamesAssumption, JobFacts, TasksDiffer DEF Made
<1>6. ASSUME NEW r \in Job, NEW c \in Job, r.task = RecreateLetterTask,
             c.task = CreateTask, Target(r) = Target(c)
      PROVE  FALSE
  <2>1. Target(r) = Location(LettersPdf, FileLocation[r.id])
    BY <1>6, TasksDiffer DEF Target
  <2>2. Target(c) = PrintTarget(c.id)
    BY <1>6, TasksDiffer DEF Target
  <2>3. r.id \in PrecompiledLetter /\ c.id \in TemplatedLetter
    BY <1>6, JobFacts
  <2>4. PrintTarget(c.id) = Location(LettersPdf, Filename[c.id])
    <3>1. PrintTarget(c.id) = Location(LettersPdf, FileLocation[r.id])
      BY <1>6, <2>1, <2>2
    <3>2. PrintTarget(c.id).bucket = LettersPdf
      BY <3>1, LocationFields
    <3> QED
      BY <2>3, <3>2, PrintTargetCases, BucketsDiffer, LocationFields
  <2>5. Location(LettersPdf, FileLocation[r.id])
        = Location(LettersPdf, Filename[c.id])
    BY <1>6, <2>1, <2>2, <2>4
  <2>6. FileLocation[r.id] = Filename[c.id]
    BY <2>5, LocationsEqual
  <2> QED
    BY <2>3, <2>6, NamesAssumption
<1> QED
  <2>1. i.task \in {CreateTask, RecreateLetterTask} =>
          j.task \in {CreateTask, RecreateLetterTask}
    BY <1>1, TargetBucket, BucketsDiffer, JobFacts
  <2> QED
    BY <1>2, <1>3, <1>4, <1>5, <1>6, <2>1, JobFacts

-----------------------------------------------------------------------------
(* What a step may do to S3.                                               *)

Write(at, f) == s3' = [s3 EXCEPT ![at] = f]

(* Nothing, storing what a job made where it goes, or storing or removing  *)
(* an original.                                                            *)
HarmlessWrite ==
  \/ s3' = s3
  \/ \E job \in Job : /\ Write(Target(job), Made(job))
                      /\ job.task = RecreateLetterTask =>
                           job \in requested /\ Accepts(job)
  \/ \E p \in PrecompiledLetter : Write(Location(Scan, Filename[p]), Absent)
  \/ \E id \in Uploaded : Write(Location(Backup, BackupKey(id)), Absent)
  \/ \E id \in Uploaded : Write(Location(Backup, BackupKey(id)), Original(id))

(* What a job stored stays where it is.                                    *)
LEMMA StoredStays ==
  ASSUME TypeOK, HarmlessWrite, NEW job \in Job, IsStored(job)
  PROVE  IsStored(job)'
<1>1. Target(job) \in Object /\ s3[Target(job)] = Made(job)
        /\ Target(job).bucket \notin {Scan, Backup}
  BY TargetIsObject, TargetIsNoSource DEF IsStored
<1>2. SUFFICES s3'[Target(job)] = s3[Target(job)]
  BY <1>1 DEF IsStored
<1>3. ASSUME NEW at, NEW f, Write(at, f), at # Target(job)
      PROVE  s3'[Target(job)] = s3[Target(job)]
  BY <1>1, <1>3 DEF Write, TypeOK
<1>4. CASE s3' = s3
  BY <1>4
<1>5. ASSUME NEW other \in Job, Write(Target(other), Made(other))
      PROVE  s3'[Target(job)] = s3[Target(job)]
  <2>1. CASE Target(other) = Target(job)
    BY <1>1, <1>5, <2>1, SameTargetSameFile DEF Write, TypeOK
  <2> QED
    BY <1>3, <1>5, <2>1
<1>6. ASSUME NEW b \in {Scan, Backup}, NEW k
      PROVE  Location(b, k) # Target(job)
  BY <1>1, <1>6, LocationFields
<1> QED
  BY <1>3, <1>4, <1>5, <1>6 DEF HarmlessWrite

LEMMA ObjectsStayOK ==
  ASSUME TypeOK, \A at \in Object : ObjectOK(at), HarmlessWrite,
         requested \subseteq requested', NEW at \in Object
  PROVE  ObjectOK(at)'
<1>1. ASSUME s3'[at] = s3[at]
      PROVE  ObjectOK(at)'
  <2>1. ObjectOK(at)
    OBVIOUS
  <2> QED
    BY <1>1, <2>1 DEF ObjectOK
<1>2. ASSUME NEW to, NEW f, Write(to, f)
      PROVE  s3'[at] = s3[at] \/ (to = at /\ s3'[at] = f)
  BY <1>2 DEF Write, TypeOK
<1>3. CASE s3' = s3
  BY <1>1, <1>3
<1>4. ASSUME NEW job \in Job, Write(Target(job), Made(job)),
             job.task = RecreateLetterTask => job \in requested /\ Accepts(job)
      PROVE  ObjectOK(at)'
  BY <1>1, <1>2, <1>4 DEF ObjectOK
<1>5. ASSUME NEW to, Write(to, Absent)
      PROVE  ObjectOK(at)'
  BY <1>1, <1>2, <1>5 DEF ObjectOK
<1>6. ASSUME NEW id \in Uploaded, Write(Location(Backup, BackupKey(id)), Original(id))
      PROVE  ObjectOK(at)'
  BY <1>1, <1>2, <1>6 DEF ObjectOK
<1> QED
  BY <1>3, <1>4, <1>5, <1>6 DEF HarmlessWrite

(* What a task downloads is the original of the document it is about.      *)
LEMMA SourceHoldsOriginal ==
  ASSUME NEW job \in Job, job.task # CreateTask, ObjectOK(Source(job)),
         s3[Source(job)] # Absent
  PROVE  s3[Source(job)] = Original(job.id)
<1>1. CASE job.task = SanitiseTask
  <2>1. Source(job) = Location(Scan, Filename[job.id])
    BY <1>1 DEF Source
  <2>2. job.id \in Letter
    BY <1>1, JobFacts DEF Letter
  <2>3. Source(job).bucket = Scan
    BY <2>1, LocationFields
  <2>4. \A other \in Job : Source(job) # Target(other)
    BY <2>3, TargetIsNoSource
  <2>5. \A id \in Uploaded : Source(job) # Location(Backup, BackupKey(id))
    BY <2>3, BucketsDiffer, LocationFields
  <2>6. PICK p \in PrecompiledLetter : Source(job) = Location(Scan, Filename[p])
                                         /\ s3[Source(job)] = Original(p)
    BY <2>4, <2>5 DEF ObjectOK
  <2>7. Location(Scan, Filename[p]) = Location(Scan, Filename[job.id])
    BY <2>1, <2>6
  <2>8. p = job.id
    BY <2>2, <2>7, LocationsEqual, NamesAssumption DEF Letter
  <2> QED
    BY <2>6, <2>8
<1>2. CASE job.task # SanitiseTask
  <2>1. Source(job) = Location(Backup, BackupKey(job.id))
    BY <1>2 DEF Source
  <2>3. Source(job).bucket = Backup
    BY <2>1, LocationFields
  <2>4. \A other \in Job : Source(job) # Target(other)
    BY <2>3, TargetIsNoSource
  <2>5. \A p \in PrecompiledLetter : Source(job) # Location(Scan, Filename[p])
    BY <2>3, BucketsDiffer, LocationFields
  <2>6. PICK id \in Uploaded : Source(job) = Location(Backup, BackupKey(id))
                                 /\ s3[Source(job)] = Original(id)
    BY <2>4, <2>5 DEF ObjectOK
  <2>7. Location(Backup, BackupKey(id)) = Location(Backup, BackupKey(job.id))
    BY <2>1, <2>6
  <2>8. id = job.id
    BY <2>7, LocationsEqual DEF BackupKey
  <2> QED
    BY <2>6, <2>8
<1> QED
  BY <1>1, <1>2

-----------------------------------------------------------------------------
(* The steps of a process.                                                 *)

(* The process w is the only one whose state a step changes.               *)
OnlyProcess(w) ==
  \A v \in Worker \ {w} : /\ pc'[v] = pc[v] /\ msg'[v] = msg[v]
                          /\ file'[v] = file[v] /\ details'[v] = details[v]

LEMMA MadeIsFile ==
  ASSUME NEW job \in Job
  PROVE  Made(job) \in File
BY JobFacts DEF Made, Printed, Sanitised, File, Id, Letter

LEMMA OriginalIsFile ==
  ASSUME NEW id \in Uploaded
  PROVE  Original(id) \in File
BY DEF Original, File, Id, Letter, Uploaded

LEMMA StepFacts ==
  /\ StepsOf(SanitiseTask) = {"download", "sanitise", "upload", "backup", "send"}
  /\ StepsOf(CreateTask) = {"prepare", "upload", "send"}
  /\ StepsOf(RecreateLetterTask) = {"download", "sanitise", "upload"}
  /\ StepsOf(RecreateAttachmentTask) = {"download", "sanitise", "upload"}
<1>1. StepsOf(SanitiseTask) = {"download", "sanitise", "upload", "backup", "send"}
  BY TasksDiffer DEF StepsOf
<1>2. StepsOf(CreateTask) = {"prepare", "upload", "send"}
  BY TasksDiffer DEF StepsOf
<1>3. StepsOf(RecreateLetterTask) = {"download", "sanitise", "upload"}
  BY TasksDiffer DEF StepsOf
<1>4. StepsOf(RecreateAttachmentTask) = {"download", "sanitise", "upload"}
  BY TasksDiffer DEF StepsOf
<1> QED
  BY <1>1, <1>2, <1>3, <1>4

(* The job of a process that works.                                        *)
LEMMA WorkingFacts ==
  ASSUME TypeOK, NEW w \in Worker, pc[w] # "idle"
  PROVE  /\ msg[w] \in Message /\ JobOf(w) \in Job
         /\ pc[w] \in StepsOf(JobOf(w).task)
BY DEF TypeOK, ProcessTypeOK, JobOf, Message

(* A process goes on to a step of its task.                                *)
LEMMA AdvanceTyped ==
  ASSUME TypeOK, NEW w \in Worker, pc[w] # "idle",
         NEW step \in StepsOf(JobOf(w).task), GoTo(w, step), msg' = msg,
         file' \in [Worker -> File \cup {Absent}], DOMAIN details' = Worker
  PROVE  ProcessTypeOK'
<1>1. step \in PC /\ step # "idle"
  BY WorkingFacts, JobFacts, StepFacts DEF PC
<1>2. pc' \in [Worker -> PC]
  BY <1>1 DEF TypeOK, ProcessTypeOK, GoTo
<1>3. ASSUME NEW v \in Worker
      PROVE  IF pc'[v] = "idle" THEN msg'[v] = NULL
             ELSE msg'[v] \in Message /\ pc'[v] \in StepsOf(msg'[v].job.task)
  <2>1. CASE v = w
    BY <1>1, <2>1, WorkingFacts DEF TypeOK, ProcessTypeOK, GoTo, JobOf
  <2>2. CASE v # w
    BY <2>2 DEF TypeOK, ProcessTypeOK, GoTo, JobOf
  <2> QED
    BY <2>1, <2>2
<1> QED
  BY <1>2, <1>3 DEF TypeOK, ProcessTypeOK, JobOf

LEMMA FinishTyped ==
  ASSUME TypeOK, NEW w \in Worker, Finish(w)
  PROVE  ProcessTypeOK' /\ OnlyProcess(w) /\ pc'[w] = "idle"
<1>1. pc' \in [Worker -> PC] /\ msg' \in [Worker -> Message \cup {NULL}]
        /\ file' \in [Worker -> File \cup {Absent}] /\ DOMAIN details' = Worker
  BY DEF TypeOK, ProcessTypeOK, Finish, GoTo, PC
<1>2. OnlyProcess(w) /\ pc'[w] = "idle" /\ msg'[w] = NULL
  BY DEF TypeOK, ProcessTypeOK, Finish, GoTo, OnlyProcess
<1>3. ASSUME NEW v \in Worker
      PROVE  IF pc'[v] = "idle" THEN msg'[v] = NULL
             ELSE msg'[v] \in Message /\ pc'[v] \in StepsOf(msg'[v].job.task)
  BY <1>2 DEF TypeOK, ProcessTypeOK, OnlyProcess, JobOf
<1> QED
  BY <1>1, <1>2, <1>3 DEF ProcessTypeOK, JobOf

LEMMA TroubleTyped ==
  ASSUME TypeOK, NEW w \in Worker, pc[w] # "idle", NEW ending \in Trouble,
         FinishWith(w, ending)
  PROVE  trouble' \in [Job -> SUBSET Trouble]
BY WorkingFacts DEF TypeOK, FinishWith

(* An accepted result is the verdict on the document.                      *)
LEMMA AcceptedResult ==
  ASSUME NEW job, NEW result \in ResultsFor(job, Doc[job.id]),
         result.message = NULL
  PROVE  Accepts(job)
<1>1. Unreadable.message # NULL
  BY NullAssumption DEF Unreadable, Result, Messages
<1> QED
  BY <1>1 DEF ResultsFor, SanitiseOutcomes, Accepts

-----------------------------------------------------------------------------
(* Every step preserves the invariant.                                     *)

LEMMA StoreIsHarmless ==
  ASSUME Inv, NEW w \in Worker, pc[w] = "upload", Store(w)
  PROVE  HarmlessWrite /\ s3'[Target(JobOf(w))] = Made(JobOf(w))
<1> DEFINE job == JobOf(w)
<1>1. job \in Job /\ WorkOK(w) /\ TypeOK
  BY WorkingFacts DEF Inv
<1>2. file[w] = Made(job)
  BY <1>1 DEF WorkOK
<1>3. job.task = RecreateLetterTask => job \in requested /\ Accepts(job)
  BY <1>1, AcceptedResult, TasksDiffer DEF WorkOK
<1>4. Write(Target(job), Made(job))
  BY <1>2 DEF Store, Write
<1>5. s3'[Target(job)] = Made(job)
  BY <1>1, <1>4, TargetIsObject DEF Write, TypeOK
<1> QED
  BY <1>1, <1>3, <1>4, <1>5 DEF HarmlessWrite

LEMMA CopyIsHarmless ==
  ASSUME Inv, NEW w \in Worker, CopyToBackup(w)
  PROVE  HarmlessWrite
<1> DEFINE job == JobOf(w)
<1>1. pc[w] = "backup" /\ job \in Job /\ pc[w] \in StepsOf(job.task)
  BY WorkingFacts DEF Inv, CopyToBackup
<1>2. job.task = SanitiseTask /\ job.id \in PrecompiledLetter
  BY <1>1, JobFacts, StepFacts
<1>3. Source(job) = Location(Scan, Filename[job.id]) /\ Source(job) \in Object
  BY <1>1, <1>2, SourceIsObject, TasksDiffer DEF Source
<1>4. s3[Source(job)] = Original(job.id)
  BY <1>1, <1>2, <1>3, SourceHoldsOriginal, TasksDiffer DEF Inv, CopyToBackup
<1>5. Write(Location(Backup, BackupKey(job.id)), Original(job.id))
  BY <1>3, <1>4 DEF CopyToBackup, Write
<1> QED
  BY <1>2, <1>5 DEF HarmlessWrite, Uploaded

LEMMA StepWrites ==
  ASSUME Inv, Next
  PROVE  HarmlessWrite
<1>1. CASE Environment
  <2>1. CASE \/ \E job \in Requests : Request(job)
             \/ \E m \in Message : Redeliver(m)
    BY <2>1 DEF Request, Redeliver, HarmlessWrite
  <2>2. ASSUME NEW p \in PrecompiledLetter, ScanRemoved(p)
        PROVE  HarmlessWrite
    BY <2>2 DEF ScanRemoved, HarmlessWrite, Write
  <2>3. ASSUME NEW id \in Uploaded, BackupExpires(id)
        PROVE  HarmlessWrite
    BY <2>3 DEF BackupExpires, HarmlessWrite, Write
  <2> QED
    BY <1>1, <2>1, <2>2, <2>3 DEF Environment
<1>2. ASSUME NEW w \in Worker, Step(w) \/ Crash(w) \/ \E m \in Message : Receive(w, m)
      PROVE  HarmlessWrite
  <2>1. CASE UploadSanitised(w) \/ UploadTemplated(w) \/ UploadRecreated(w)
    BY <2>1, StoreIsHarmless DEF UploadSanitised, UploadTemplated, UploadRecreated
  <2>2. CASE CopyToBackup(w)
    BY <2>2, CopyIsHarmless
  <2>3. CASE \/ Download(w) \/ SanitiseAccepts(w) \/ SanitiseRejects(w)
             \/ Prepare(w) \/ Retry(w) \/ GiveUp(w) \/ Send(w)
             \/ BotoError(w) \/ Raise(w) \/ Crash(w)
             \/ \E m \in Message : Receive(w, m)
    BY <2>3 DEF Download, SanitiseAccepts, SanitiseRejects, Prepare, Retry,
       GiveUp, Send, BotoError, Raise, Crash, Receive, HarmlessWrite
  <2> QED
    BY <1>2, <2>1, <2>2, <2>3 DEF Step
<1> QED
  BY <1>1, <1>2 DEF Next

(* What has been requested stays so.                                       *)
LEMMA RequestsStay ==
  ASSUME Next
  PROVE  requested \subseteq requested'
BY DEF Next, Environment, Step, Request, Redeliver, ScanRemoved, BackupExpires,
   Download, SanitiseAccepts, SanitiseRejects, Prepare, Retry, GiveUp,
   UploadSanitised, UploadTemplated, UploadRecreated, CopyToBackup, Send,
   BotoError, Raise, Crash, Receive, tasks

LEMMA WriteTyped ==
  ASSUME TypeOK, HarmlessWrite
  PROVE  s3' \in [Object -> File \cup {Absent}]
<1>1. ASSUME NEW at, NEW f \in File \cup {Absent}, Write(at, f)
      PROVE  s3' \in [Object -> File \cup {Absent}]
  BY <1>1 DEF Write, TypeOK
<1> QED
  BY <1>1, MadeIsFile, OriginalIsFile DEF HarmlessWrite, TypeOK

LEMMA RequestFacts ==
  ASSUME NEW job \in Requests
  PROVE  job \in Job /\ [job |-> job, retries |-> 0] \in Message
BY RequestsAssumption, BoundsAssumption DEF Message

LEMMA QueueTyped ==
  ASSUME Inv, Next
  PROVE  QueueTypeOK'
<1> USE DEF Inv, TypeOK, QueueTypeOK
<1>1. CASE Environment
  <2>1. ASSUME NEW job \in Requests, Request(job)
        PROVE  QueueTypeOK'
    BY <2>1, RequestFacts DEF Request, Put
  <2>2. ASSUME NEW m \in Message, Redeliver(m)
        PROVE  QueueTypeOK'
    BY <2>2, BoundsAssumption DEF Redeliver, Put
  <2>3. CASE \/ \E p \in PrecompiledLetter : ScanRemoved(p)
             \/ \E id \in Uploaded : BackupExpires(id)
    BY <2>3 DEF ScanRemoved, BackupExpires, tasks
  <2> QED
    BY <1>1, <2>1, <2>2, <2>3 DEF Environment
<1>2. ASSUME NEW w \in Worker, NEW m \in Message, Receive(w, m)
      PROVE  QueueTypeOK'
  BY <1>2 DEF Receive, Take
<1>3. ASSUME NEW w \in Worker, Retry(w)
      PROVE  QueueTypeOK'
  <2>1. msg[w] \in Message /\ msg[w].retries < MaxRetries
    BY <1>3, WorkingFacts DEF Retry
  <2>2. [msg[w] EXCEPT !.retries = @ + 1] \in Message
    BY <2>1, BoundsAssumption DEF Message
  <2> QED
    BY <1>3, <2>2 DEF Retry, Put
<1>4. ASSUME NEW w \in Worker, Step(w) \/ Crash(w), ~Retry(w)
      PROVE  QueueTypeOK'
  BY <1>4 DEF Step, Crash, Download, SanitiseAccepts, SanitiseRejects, Prepare,
     GiveUp, UploadSanitised, UploadTemplated, UploadRecreated, CopyToBackup,
     Send, BotoError, Raise, tasks
<1> QED
  BY <1>1, <1>2, <1>3, <1>4 DEF Next

(* A finished run leaves no trace in the state of its process; the other   *)
(* steps of a run go on to a step of the task.                             *)
LEMMA ProcessTyped ==
  ASSUME Inv, NEW w \in Worker, Step(w) \/ Crash(w)
  PROVE  ProcessTypeOK' /\ OnlyProcess(w) /\ pc[w] # "idle"
<1> DEFINE job == JobOf(w)
<1>1. TypeOK /\ file \in [Worker -> File \cup {Absent}] /\ DOMAIN details = Worker
        /\ pc \in [Worker -> PC]
  BY DEF Inv, TypeOK, ProcessTypeOK
<1>2. pc[w] # "idle"
  BY DEF Step, Crash, Download, SanitiseAccepts, SanitiseRejects, Prepare, Retry,
     GiveUp, UploadSanitised, UploadTemplated, UploadRecreated, CopyToBackup,
     Send, BotoError, Raise
<1>3. job \in Job /\ pc[w] \in StepsOf(job.task)
  BY <1>1, <1>2, WorkingFacts
<1>4. ASSUME NEW step \in StepsOf(job.task), GoTo(w, step), msg' = msg,
             \/ file' = file
             \/ \E f \in File : file' = [file EXCEPT ![w] = f],
             \/ details' = details
             \/ \E r : details' = [details EXCEPT ![w] = r]
      PROVE  ProcessTypeOK' /\ OnlyProcess(w)
  <2>1. file' \in [Worker -> File \cup {Absent}] /\ DOMAIN details' = Worker
    BY <1>1, <1>4
  <2>2. ProcessTypeOK'
    BY <1>1, <1>2, <1>4, <2>1, AdvanceTyped
  <2> QED
    BY <1>1, <1>4, <2>2 DEF OnlyProcess, GoTo
<1>5. CASE Finish(w)
  BY <1>1, <1>2, <1>5, FinishTyped
<1>6. CASE Download(w)
  <2>1. Source(job) \in Object /\ job.task # CreateTask
    BY <1>3, <1>6, SourceIsObject, StepFacts, JobFacts DEF Download
  <2>2. s3[Source(job)] \in File
    BY <1>1, <1>6, <2>1 DEF Download, TypeOK
  <2>3. "sanitise" \in StepsOf(job.task)
    BY <1>3, <2>1, StepFacts, JobFacts
  <2> QED
    BY <1>2, <1>4, <1>6, <2>2, <2>3 DEF Download
<1>7. CASE SanitiseAccepts(w) \/ (SanitiseRejects(w) /\ ~Finish(w))
  <2>1. WorkOK(w) /\ pc[w] = "sanitise" /\ job.task # CreateTask
    BY <1>3, <1>7, StepFacts, JobFacts DEF Inv, SanitiseAccepts, SanitiseRejects
  <2>2. file[w] = Original(job.id) /\ job.id \in Uploaded
    BY <1>2, <1>3, <2>1, JobFacts DEF WorkOK, Uploaded
  <2>3. Sanitised(file[w].of) \in File
    BY <2>2 DEF Original, Sanitised, File, Id, Letter, Uploaded
  <2>4. CASE SanitiseAccepts(w)
    <3>1. "upload" \in StepsOf(job.task)
      BY <1>3, StepFacts, JobFacts
    <3> QED
      BY <1>2, <1>4, <2>3, <2>4, <3>1 DEF SanitiseAccepts
  <2>5. CASE SanitiseRejects(w) /\ ~Finish(w)
    <3>1. "send" \in StepsOf(job.task)
      BY <1>3, <2>5, StepFacts, JobFacts
         DEF SanitiseRejects, Recreates, FinishWith
    <3>2. GoTo(w, "send") /\ msg' = msg /\ file' = file
            /\ \E r : details' = [details EXCEPT ![w] = r]
      BY <2>5 DEF SanitiseRejects, FinishWith
    <3> QED
      BY <1>2, <1>4, <3>1, <3>2
  <2> QED
    BY <1>7, <2>4, <2>5
<1>8. CASE Prepare(w)
  <2>1. job.task = CreateTask
    BY <1>3, <1>8, StepFacts, JobFacts DEF Prepare
  <2>2. Printed(job.id) \in File /\ "upload" \in StepsOf(job.task)
    BY <1>3, <2>1, StepFacts, JobFacts DEF Printed, File, Id, Letter
  <2> QED
    BY <1>2, <1>4, <1>8, <2>2 DEF Prepare
<1>9. CASE UploadSanitised(w) \/ UploadTemplated(w) \/ CopyToBackup(w)
  <2>1. \/ GoTo(w, "backup") /\ "backup" \in StepsOf(job.task)
        \/ GoTo(w, "send") /\ "send" \in StepsOf(job.task)
    BY <1>3, <1>9, StepFacts, JobFacts
       DEF UploadSanitised, UploadTemplated, CopyToBackup
  <2>2. msg' = msg /\ file' = file /\ details' = details
    BY <1>9 DEF UploadSanitised, UploadTemplated, CopyToBackup
  <2> QED
    BY <1>2, <1>4, <2>1, <2>2
<1> QED
  BY <1>5, <1>6, <1>7, <1>8, <1>9
     DEF Step, Crash, SanitiseRejects, Retry, GiveUp, UploadRecreated, Send,
         BotoError, Raise, FinishWith

LEMMA ReceiveTyped ==
  ASSUME Inv, NEW w \in Worker, NEW m \in Message, Receive(w, m)
  PROVE  ProcessTypeOK' /\ OnlyProcess(w)
<1>1. TypeOK /\ m.job \in Job
  BY DEF Inv, Message
<1>2. OnlyProcess(w) /\ msg'[w] = m /\ pc'[w] \in StepsOf(m.job.task)
        /\ pc'[w] \in PC \ {"idle"}
  BY <1>1, JobFacts, StepFacts
     DEF Receive, OnlyProcess, GoTo, TypeOK, ProcessTypeOK, PC
<1>3. pc' \in [Worker -> PC] /\ msg' \in [Worker -> Message \cup {NULL}]
        /\ file' = file /\ details' = details
  BY <1>1, <1>2 DEF Receive, GoTo, TypeOK, ProcessTypeOK, PC
<1>4. ASSUME NEW v \in Worker
      PROVE  IF pc'[v] = "idle" THEN msg'[v] = NULL
             ELSE msg'[v] \in Message /\ pc'[v] \in StepsOf(msg'[v].job.task)
  BY <1>1, <1>2 DEF TypeOK, ProcessTypeOK, OnlyProcess, JobOf
<1> QED
  BY <1>1, <1>2, <1>3, <1>4 DEF TypeOK, ProcessTypeOK, JobOf

LEMMA TypePreserved ==
  ASSUME Inv, Next
  PROVE  TypeOK'
<1>1. QueueTypeOK'
  BY QueueTyped
<1>2. ProcessTypeOK'
  <2>1. CASE Environment
    BY <2>1 DEF Environment, Request, Redeliver, ScanRemoved, BackupExpires,
       process, Inv, TypeOK, ProcessTypeOK, JobOf
  <2> QED
    BY <2>1, ProcessTyped, ReceiveTyped DEF Next
<1>3. s3' \in [Object -> File \cup {Absent}]
  BY StepWrites, WriteTyped DEF Inv
<1>4. \A c \in told' : c.id \in Letter
  <2>1. ASSUME NEW w \in Worker, Send(w)
        PROVE  \A c \in told' : c.id \in Letter
    <3>1. JobOf(w).id \in Letter
      BY <2>1, WorkingFacts, StepFacts, JobFacts DEF Send, Inv, Letter
    <3> QED
      BY <2>1, <3>1 DEF Send, SanitisedCallback, TemplatedCallback, Callback,
         Inv, TypeOK
  <2>2. CASE ~ \E w \in Worker : Send(w)
    BY <2>2 DEF Next, Environment, Step, Request, Redeliver, ScanRemoved,
       BackupExpires, Download, SanitiseAccepts, SanitiseRejects, Prepare, Retry,
       GiveUp, UploadSanitised, UploadTemplated, UploadRecreated, CopyToBackup,
       BotoError, Raise, Crash, Receive, Inv, TypeOK
  <2> QED
    BY <2>1, <2>2
<1>5. trouble' \in [Job -> SUBSET Trouble]
  <2>1. ASSUME NEW w \in Worker, NEW ending \in Trouble, pc[w] # "idle",
               FinishWith(w, ending)
        PROVE  trouble' \in [Job -> SUBSET Trouble]
    BY <2>1, TroubleTyped DEF Inv
  <2>2. CASE Environment \/ \E w \in Worker, m \in Message : Receive(w, m)
    BY <2>2 DEF Environment, Request, Redeliver, ScanRemoved, BackupExpires,
       Receive, Inv, TypeOK
  <2>3. ASSUME NEW w \in Worker, Step(w) \/ Crash(w)
        PROVE  trouble' = trouble \/ \E ending \in Trouble : FinishWith(w, ending)
    BY <2>3 DEF Step, Crash, Download, SanitiseAccepts, SanitiseRejects, Prepare,
       Retry, GiveUp, UploadSanitised, UploadTemplated, UploadRecreated,
       CopyToBackup, Send, BotoError, Raise, Trouble
  <2> QED
    BY <2>1, <2>2, <2>3, ProcessTyped DEF Next, Inv, TypeOK
<1> QED
  BY <1>1, <1>2, <1>3, <1>4, <1>5 DEF TypeOK

LEMMA QueuePreserved ==
  ASSUME Inv, Next
  PROVE  QueueOK'
<1> USE RequestsStay
<1>1. ASSUME NEW m \in Message, m.job \in requested', queue' = Put(queue, m)
      PROVE  QueueOK'
  BY <1>1 DEF Put, Inv, TypeOK, QueueTypeOK, QueueOK
<1>2. ASSUME NEW w \in Worker, Retry(w)
      PROVE  QueueOK'
  <2>1. msg[w] \in Message /\ msg[w].retries < MaxRetries /\ JobOf(w) \in requested
    BY <1>2, WorkingFacts DEF Retry, Inv, WorkOK
  <2>2. /\ [msg[w] EXCEPT !.retries = @ + 1] \in Message
        /\ [msg[w] EXCEPT !.retries = @ + 1].job \in requested
    BY <2>1, BoundsAssumption DEF Message, JobOf
  <2> QED
    BY <1>1, <1>2, <2>2 DEF Retry
<1>3. ASSUME NEW w \in Worker, NEW m \in Message, Receive(w, m)
      PROVE  QueueOK'
  BY <1>3 DEF Receive, Take, Inv, TypeOK, QueueTypeOK, QueueOK
<1>4. ASSUME NEW job \in Requests, Request(job)
      PROVE  QueueOK'
  BY <1>1, <1>4, RequestFacts DEF Request
<1>5. ASSUME NEW m \in Message, Redeliver(m)
      PROVE  QueueOK'
  BY <1>1, <1>5 DEF Redeliver, Inv, QueueOK
<1>6. CASE queue' = queue
  BY <1>6 DEF Inv, QueueOK
<1> QED
  BY <1>2, <1>3, <1>4, <1>5, <1>6
     DEF Next, Environment, Step, ScanRemoved, BackupExpires, Download,
         SanitiseAccepts, SanitiseRejects, Prepare, GiveUp, UploadSanitised,
         UploadTemplated, UploadRecreated, CopyToBackup, Send, BotoError, Raise,
         Crash, tasks

(* A step leaves the work of a process as good as it was unless it is the  *)
(* step of that process: what was stored stays.                            *)
LEMMA OtherWorkPreserved ==
  ASSUME Inv, HarmlessWrite, requested \subseteq requested', NEW v \in Worker,
         pc'[v] = pc[v], msg'[v] = msg[v], file'[v] = file[v],
         details'[v] = details[v]
  PROVE  WorkOK(v)'
<1> DEFINE job == JobOf(v)
<1>1. SUFFICES ASSUME pc[v] # "idle"
               PROVE  WorkOK(v)'
  BY DEF WorkOK
<1>2. job \in Job /\ WorkOK(v)
  BY <1>1, WorkingFacts DEF Inv
<1>3. IsStored(job) => s3'[Target(job)] = Made(job)
  BY <1>2, StoredStays DEF Inv, IsStored
<1>4. msg'[v].job = job
  BY DEF JobOf
<1> QED
  BY <1>1, <1>2, <1>3, <1>4 DEF WorkOK, IsStored, JobOf

(* What a process that goes on has to show.                                *)
LEMMA NextWork ==
  ASSUME NEW w \in Worker, NEW job, WorkOK(w), pc[w] # "idle", job = JobOf(w),
         requested \subseteq requested', msg'[w] = msg[w],
         pc'[w] = "sanitise" => file'[w] = Original(job.id),
         pc'[w] = "upload" => file'[w] = Made(job),
         pc'[w] \in {"upload", "backup"} /\ job.task # CreateTask =>
           details'[w] \in ResultsFor(job, Doc[job.id]) /\ details'[w].message = NULL,
         pc'[w] = "backup" => s3'[Target(job)] = Made(job),
         pc'[w] = "send" /\ job.task = CreateTask => s3'[Target(job)] = Made(job),
         pc'[w] = "send" /\ job.task = SanitiseTask =>
           /\ details'[w] \in ResultsFor(job, Doc[job.id])
           /\ details'[w].message = NULL => s3'[Target(job)] = Made(job)
  PROVE  WorkOK(w)'
BY DEF WorkOK, IsStored, JobOf

LEMMA WorkPreserved ==
  ASSUME Inv, Next, NEW v \in Worker
  PROVE  WorkOK(v)'
<1> USE StepWrites, RequestsStay
<1>1. CASE Environment
  BY <1>1, OtherWorkPreserved
     DEF Environment, Request, Redeliver, ScanRemoved, BackupExpires, process
<1>2. ASSUME NEW w \in Worker, NEW m \in Message, Receive(w, m)
      PROVE  WorkOK(v)'
  <2>1. CASE v # w
    BY <1>2, <2>1, ReceiveTyped, OtherWorkPreserved DEF OnlyProcess
  <2>2. CASE v = w
    <3>1. m.job \in requested
      BY <1>2 DEF Inv, QueueOK, Receive
    <3>2. msg'[w] = m /\ pc'[w] \in {"prepare", "download"}
      BY <1>2 DEF Receive, GoTo, Inv, TypeOK, ProcessTypeOK
    <3> QED
      BY <2>2, <3>1, <3>2 DEF WorkOK, JobOf
  <2> QED
    BY <2>1, <2>2
<1>3. ASSUME NEW w \in Worker, Step(w) \/ Crash(w)
      PROVE  WorkOK(v)'
  <2>1. CASE v # w
    BY <1>3, <2>1, ProcessTyped, OtherWorkPreserved DEF OnlyProcess
  <2>2. CASE v = w
    <3> DEFINE job == JobOf(w)
    <3>1. /\ TypeOK /\ WorkOK(w) /\ pc[w] # "idle" /\ job \in Job
          /\ pc[w] \in StepsOf(job.task)
      BY <1>3, ProcessTyped, WorkingFacts DEF Inv
    <3>2. ASSUME NEW step, GoTo(w, step)
          PROVE  pc'[w] = step
      BY <3>1, <3>2 DEF GoTo, TypeOK, ProcessTypeOK
    <3>3. CASE Finish(w)
      <4>1. pc'[w] = "idle"
        BY <3>1, <3>3, FinishTyped
      <4> QED
        BY <2>2, <4>1 DEF WorkOK
    <3>4. CASE Download(w)
      <4>1. job.task # CreateTask /\ Source(job) \in Object
        BY <3>1, <3>4, SourceIsObject, StepFacts, JobFacts DEF Download
      <4>2. s3[Source(job)] = Original(job.id)
        BY <3>1, <3>4, <4>1, SourceHoldsOriginal DEF Download, Inv
      <4>3. pc'[w] = "sanitise" /\ file'[w] = Original(job.id) /\ msg' = msg
        BY <3>1, <3>2, <3>4, <4>2 DEF Download, TypeOK, ProcessTypeOK
      <4> QED
        BY <2>2, <3>1, <4>3, NextWork
    <3>5. CASE SanitiseAccepts(w)
      <4>1. job.task # CreateTask /\ file[w] = Original(job.id)
        BY <3>1, <3>5, StepFacts, JobFacts DEF SanitiseAccepts, WorkOK
      <4>2. PICK result \in ResultsFor(job, Doc[job.id]) :
              result.message = NULL /\ details' = [details EXCEPT ![w] = result]
        <5>1. file[w].of = job.id
          BY <4>1 DEF Original
        <5> QED
          BY <3>5, <5>1 DEF SanitiseAccepts
      <4>3. details'[w] = result
        BY <3>1, <4>2 DEF TypeOK, ProcessTypeOK
      <4>4. pc'[w] = "upload" /\ file'[w] = Made(job) /\ msg' = msg
        BY <3>1, <3>2, <3>5, <4>1
           DEF SanitiseAccepts, TypeOK, ProcessTypeOK, Made, Original
      <4> QED
        BY <2>2, <3>1, <4>2, <4>3, <4>4, NextWork
    <3>6. CASE SanitiseRejects(w) /\ ~Finish(w)
      <4>1. file[w] = Original(job.id) /\ job.task = SanitiseTask
        BY <3>1, <3>6, StepFacts, JobFacts
           DEF SanitiseRejects, WorkOK, Recreates, FinishWith
      <4>2. PICK result \in ResultsFor(job, Doc[job.id]) :
              result.message # NULL /\ details' = [details EXCEPT ![w] = result]
        BY <3>6, <4>1 DEF SanitiseRejects, FinishWith, Original
      <4>3. details'[w] = result
        BY <3>1, <4>2 DEF TypeOK, ProcessTypeOK
      <4>4. pc'[w] = "send" /\ msg' = msg
        BY <3>2, <3>6 DEF SanitiseRejects, FinishWith
      <4> QED
        BY <2>2, <3>1, <4>1, <4>2, <4>3, <4>4, NextWork, TasksDiffer
    <3>7. CASE Prepare(w)
      <4>1. job.task = CreateTask
        BY <3>1, <3>7, StepFacts, JobFacts DEF Prepare
      <4>2. pc'[w] = "upload" /\ file'[w] = Made(job) /\ msg' = msg
        BY <3>1, <3>2, <3>7, <4>1 DEF Prepare, TypeOK, ProcessTypeOK, Made
      <4> QED
        BY <2>2, <3>1, <4>1, <4>2, NextWork
    <3>8. CASE UploadSanitised(w) \/ UploadTemplated(w)
      <4>1. s3'[Target(job)] = Made(job)
        BY <3>8, StoreIsHarmless DEF UploadSanitised, UploadTemplated
      <4>2. msg' = msg /\ file' = file /\ details' = details /\ pc[w] = "upload"
        BY <3>8 DEF UploadSanitised, UploadTemplated
      <4>3. \/ pc'[w] = "backup" /\ job.task = SanitiseTask
            \/ pc'[w] = "send" /\ job.task = CreateTask
        BY <3>2, <3>8 DEF UploadSanitised, UploadTemplated
      <4> QED
        BY <2>2, <3>1, <4>1, <4>2, <4>3, NextWork, TasksDiffer DEF WorkOK
    <3>9. CASE CopyToBackup(w)
      <4>1. msg' = msg /\ details' = details /\ pc[w] = "backup" /\ pc'[w] = "send"
        BY <3>2, <3>9 DEF CopyToBackup
      <4>2. IsStored(job) /\ job.task = SanitiseTask
        BY <3>1, <4>1, StepFacts, JobFacts DEF WorkOK
      <4>3. s3'[Target(job)] = Made(job)
        BY <3>1, <4>2, StoredStays DEF IsStored
      <4> QED
        BY <2>2, <3>1, <4>1, <4>2, <4>3, NextWork, TasksDiffer DEF WorkOK
    <3> QED
      BY <1>3, <3>3, <3>4, <3>5, <3>6, <3>7, <3>8, <3>9
         DEF Step, Crash, SanitiseRejects, Retry, GiveUp, UploadRecreated, Send,
             BotoError, Raise, FinishWith
  <2> QED
    BY <2>1, <2>2
<1> QED
  BY <1>1, <1>2, <1>3 DEF Next

(* A callback of a job that has stored its file.                           *)
LEMMA SentCallback ==
  ASSUME Inv, NEW w \in Worker, Send(w), NEW c \in told', c \notin told
  PROVE  ToldOK(c)'
<1> DEFINE job == JobOf(w)
<1>1. /\ pc[w] = "send" /\ WorkOK(w) /\ job \in Job /\ job \in Requests
      /\ job.task \in {SanitiseTask, CreateTask}
  BY WorkingFacts, StepFacts, JobFacts
     DEF Inv, TypeOK, QueueTypeOK, Send, WorkOK
<1>2. s3' = s3
  BY DEF Send
<1>3. CASE job.task = CreateTask
  <2>1. c = TemplatedCallback(job.id) /\ IsStored(job)
    BY <1>1, <1>3 DEF Send, WorkOK
  <2>2. c \in CallbacksOf(job)
    BY <1>3, <2>1, TasksDiffer DEF CallbacksOf
  <2> QED
    BY <1>1, <1>2, <2>1, <2>2 DEF ToldOK, IsStored
<1>4. CASE job.task = SanitiseTask
  <2>1. /\ c = SanitisedCallback(job.id, details[w])
        /\ details[w] \in ResultsFor(job, Doc[job.id])
        /\ details[w].message = NULL => IsStored(job)
    BY <1>1, <1>4, TasksDiffer DEF Send, WorkOK
  <2>2. c \in CallbacksOf(job) /\ c.message = details[w].message
    BY <1>4, <2>1, TasksDiffer DEF CallbacksOf, SanitisedCallback, Callback
  <2> QED
    BY <1>1, <1>2, <2>1, <2>2 DEF ToldOK, IsStored
<1> QED
  BY <1>1, <1>3, <1>4

LEMMA ToldPreserved ==
  ASSUME Inv, Next, NEW c \in told'
  PROVE  ToldOK(c)'
<1>1. CASE c \in told
  <2>1. PICK job \in Requests :
          c \in CallbacksOf(job) /\ (c.message = NULL => IsStored(job))
    BY <1>1 DEF Inv, ToldOK
  <2>2. job \in Job
    BY RequestsAssumption
  <2>3. IsStored(job) => IsStored(job)'
    BY <2>2, StepWrites, StoredStays DEF Inv
  <2> QED
    BY <2>1, <2>3 DEF ToldOK
<1>2. CASE c \notin told
  <2>1. \E w \in Worker : Send(w)
    BY <1>2 DEF Next, Environment, Step, Request, Redeliver, ScanRemoved,
       BackupExpires, Download, SanitiseAccepts, SanitiseRejects, Prepare, Retry,
       GiveUp, UploadSanitised, UploadTemplated, UploadRecreated, CopyToBackup,
       BotoError, Raise, Crash, Receive
  <2> QED
    BY <1>2, <2>1, SentCallback
<1> QED
  BY <1>1, <1>2

(* Stuttering changes nothing the invariant speaks of.                     *)
LEMMA InvStutters ==
  ASSUME Inv, UNCHANGED vars
  PROVE  Inv'
<1>1. TypeOK'
  BY DEF Inv, vars, TypeOK, QueueTypeOK, ProcessTypeOK, JobOf
<1>2. QueueOK'
  BY DEF Inv, vars, QueueOK
<1>3. \A at \in Object : ObjectOK(at)'
  BY DEF Inv, vars, ObjectOK
<1>4. \A w \in Worker : WorkOK(w)'
  BY DEF Inv, vars, WorkOK, JobOf, IsStored
<1>5. \A c \in told' : ToldOK(c)'
  BY DEF Inv, vars, ToldOK, IsStored
<1> QED
  BY <1>1, <1>2, <1>3, <1>4, <1>5 DEF Inv

LEMMA InvPreserved ==
  ASSUME Inv, [Next]_vars
  PROVE  Inv'
<1>1. CASE Next
  <2>1. \A at \in Object : ObjectOK(at)'
    BY <1>1, StepWrites, RequestsStay, ObjectsStayOK DEF Inv
  <2>2. \A w \in Worker : WorkOK(w)'
    BY <1>1, WorkPreserved
  <2>3. \A c \in told' : ToldOK(c)'
    BY <1>1, ToldPreserved
  <2> QED
    BY <1>1, <2>1, <2>2, <2>3, TypePreserved, QueuePreserved DEF Inv
<1>2. CASE UNCHANGED vars
  BY <1>2, InvStutters
<1> QED
  BY <1>1, <1>2

-----------------------------------------------------------------------------
(* The initial objects are where they belong.                              *)

LEMMA InitialObjectsOK ==
  ASSUME NEW kept \in SUBSET Attachment, s3 = InitialObjects(kept)
  PROVE  /\ s3 \in [Object -> File \cup {Absent}]
         /\ \A at \in Object : ObjectOK(at)
<1> DEFINE Stored(bucket, key, f) == [at |-> Location(bucket, key), file |-> f]
           objects ==
             {Stored(Scan, Filename[p], Original(p)) : p \in PrecompiledLetter}
               \cup {Stored(Backup, BackupKey(a), Original(a)) : a \in Attachment}
               \cup {Stored(LetterAttachment, AttachmentKey(a), Sanitised(a)) :
                       a \in kept}
<1>1. s3 = [at \in Object |->
              IF \E o \in objects : o.at = at
              THEN (CHOOSE o \in objects : o.at = at).file
              ELSE Absent]
  BY DEF InitialObjects
<1>2. ASSUME NEW at \in Object, \E o \in objects : o.at = at
      PROVE  s3[at] \in File /\ ObjectOK(at)
  <2>1. PICK o \in objects : o.at = at /\ s3[at] = o.file
    BY <1>1, <1>2
  <2>2. CASE \E p \in PrecompiledLetter : o = Stored(Scan, Filename[p], Original(p))
    BY <2>1, <2>2, OriginalIsFile DEF ObjectOK, Uploaded
  <2>3. CASE \E a \in Attachment : o = Stored(Backup, BackupKey(a), Original(a))
    BY <2>1, <2>3, OriginalIsFile DEF ObjectOK, Uploaded
  <2>4. ASSUME NEW a \in kept,
               o = Stored(LetterAttachment, AttachmentKey(a), Sanitised(a))
        PROVE  s3[at] \in File /\ ObjectOK(at)
    <3> DEFINE job == [task |-> RecreateAttachmentTask, id |-> a,
                       allow_international |-> FALSE]
    <3>1. job \in Job
      BY DEF Job
    <3>2. Target(job) = Location(LetterAttachment, AttachmentKey(a))
            /\ Made(job) = Sanitised(a)
      BY TasksDiffer DEF Target, Made
    <3>3. at = Target(job) /\ s3[at] = Made(job)
      BY <2>1, <2>4, <3>2
    <3>4. ObjectOK(at)
      BY <3>1, <3>3, TasksDiffer DEF ObjectOK
    <3> QED
      BY <3>1, <3>3, <3>4, MadeIsFile
  <2> QED
    BY <2>2, <2>3, <2>4
<1>3. ASSUME NEW at \in Object, ~ \E o \in objects : o.at = at
      PROVE  s3[at] = Absent /\ ObjectOK(at)
  BY <1>1, <1>3 DEF ObjectOK
<1> QED
  BY <1>1, <1>2, <1>3

LEMMA InvInitially ==
  ASSUME Init
  PROVE  Inv
<1>1. s3 \in [Object -> File \cup {Absent}] /\ \A at \in Object : ObjectOK(at)
  BY InitialObjectsOK DEF Init
<1>2. TypeOK
  BY <1>1, BoundsAssumption DEF Init, TypeOK, QueueTypeOK, ProcessTypeOK, PC
<1>3. QueueOK /\ \A w \in Worker : WorkOK(w)
  BY DEF Init, QueueOK, WorkOK
<1> QED
  BY <1>1, <1>2, <1>3 DEF Init, Inv

(* The invariant holds in every reachable state.                           *)
THEOREM InvHolds == Spec => []Inv
BY InvInitially, InvPreserved, PTL DEF Spec

(* TypeOK for every instance: tasks.py never leaves a process, a file or   *)
(* an object in a state its code does not expect.                          *)
THEOREM TypeCorrect == Spec => []TypeOK
<1>1. Inv => TypeOK
  BY DEF Inv
<1> QED
  BY <1>1, InvHolds, PTL

-----------------------------------------------------------------------------
(* What the API is told.                                                   *)

LEMMA CallbackTasksDiffer ==
  /\ ProcessSanitised \notin {UpdateBillableUnits, UpdateValidationFailed}
  /\ UpdateBillableUnits # UpdateValidationFailed
BY DEF ProcessSanitised, UpdateBillableUnits, UpdateValidationFailed

(* A callback is that of a first sanitisation or of a templated letter.    *)
LEMMA CallbackCases ==
  ASSUME NEW job \in Job, NEW c \in CallbacksOf(job)
  PROVE  /\ c.id = job.id
         /\ \/ /\ job.task = SanitiseTask
               /\ c.task = ProcessSanitised
               /\ \E result \in ResultsFor(job, Doc[job.id]) :
                    c = SanitisedCallback(job.id, result)
               /\ c.validation_status = "passed" => c.message = NULL
            \/ /\ job.task = CreateTask
               /\ c = TemplatedCallback(job.id) /\ c.message = NULL
<1>1. CASE job.task = SanitiseTask
  <2>1. PICK result \in ResultsFor(job, Doc[job.id]) :
          c = SanitisedCallback(job.id, result)
    BY <1>1, TasksDiffer DEF CallbacksOf
  <2> QED
    BY <1>1, <2>1 DEF SanitisedCallback, Callback
<1>2. CASE job.task = CreateTask
  <2>1. c = TemplatedCallback(job.id)
    BY <1>2, TasksDiffer DEF CallbacksOf
  <2> QED
    BY <1>2, <2>1 DEF TemplatedCallback, Callback
<1> QED
  BY <1>1, <1>2, JobFacts, TasksDiffer DEF CallbacksOf

(* The file a callback speaks of is stored before the callback is sent,    *)
(* for any number of processes, redeliveries and crashes.                  *)
THEOREM StoredBeforeToldHolds == Spec => []StoredBeforeTold
<1>1. ASSUME Inv, NEW c \in told
      PROVE  /\ c.task = ProcessSanitised /\ c.validation_status = "passed" =>
                  s3[Location(SanitisedLetter, Filename[c.id])] = Sanitised(c.id)
             /\ c.task = UpdateBillableUnits =>
                  \E b \in {LettersPdf, TestLetters} :
                    s3[Location(b, Filename[c.id])] = Printed(c.id)
             /\ c.task = UpdateValidationFailed =>
                  s3[Location(InvalidPdf, RemoveFolder(Filename[c.id]))]
                    = Printed(c.id)
  <2>1. PICK job \in Requests :
          c \in CallbacksOf(job) /\ (c.message = NULL => IsStored(job))
    BY <1>1 DEF Inv, ToldOK
  <2>2. job \in Job
    BY RequestsAssumption
  <2>3. CASE job.task = SanitiseTask
    <3>1. /\ c.id = job.id /\ c.task = ProcessSanitised
          /\ c.validation_status = "passed" => c.message = NULL
      BY <2>1, <2>2, <2>3, CallbackCases, TasksDiffer
    <3>2. Target(job) = Location(SanitisedLetter, Filename[job.id])
            /\ Made(job) = Sanitised(job.id)
      BY <2>3, TasksDiffer DEF Target, Made
    <3> QED
      BY <2>1, <3>1, <3>2, CallbackTasksDiffer DEF IsStored
  <2>4. CASE job.task = CreateTask
    <3>1. c.id = job.id /\ c = TemplatedCallback(job.id) /\ c.message = NULL
      BY <2>1, <2>2, <2>4, CallbackCases, TasksDiffer
    <3>2. s3[PrintTarget(job.id)] = Printed(job.id)
      BY <2>1, <2>4, <3>1, TasksDiffer DEF IsStored, Target, Made
    <3>3. job.id \in TemplatedLetter
      BY <2>2, <2>4, JobFacts
    <3>4. c.task = IF IsLetterTooLong(PageCount(job.id))
                   THEN UpdateValidationFailed ELSE UpdateBillableUnits
      BY <3>1 DEF TemplatedCallback, Callback
    <3> QED
      BY <3>1, <3>2, <3>3, <3>4, PrintTargetCases, CallbackTasksDiffer
  <2> QED
    BY <2>1, <2>2, <2>3, <2>4, CallbackCases
<1>2. Inv => StoredBeforeTold
  BY <1>1 DEF StoredBeforeTold
<1> QED
  BY <1>2, InvHolds, PTL

(* No two verdicts on a letter contradict each other.                      *)
THEOREM VerdictsAgreeHolds == Spec => []VerdictsAgree
<1>1. ASSUME Inv, NEW c \in told, NEW d \in told, c.id = d.id,
             c.message # "unable-to-read-the-file",
             d.message # "unable-to-read-the-file"
      PROVE  c = d
  <2>1. PICK i \in Requests : c \in CallbacksOf(i)
    BY <1>1 DEF Inv, ToldOK
  <2>2. PICK j \in Requests : d \in CallbacksOf(j)
    BY <1>1 DEF Inv, ToldOK
  <2>3. i \in Job /\ j \in Job /\ i.id = j.id
    BY <1>1, <2>1, <2>2, RequestsAssumption, CallbackCases
  <2>4. ASSUME NEW job \in Job, NEW e \in CallbacksOf(job),
               job.task = SanitiseTask, e.message # "unable-to-read-the-file"
        PROVE  e = SanitisedCallback(job.id, Verdict(Doc[job.id], FALSE,
                                                     job.allow_international))
    <3>1. PICK result \in ResultsFor(job, Doc[job.id]) :
            e = SanitisedCallback(job.id, result)
      BY <2>4, CallbackCases, TasksDiffer
    <3>2. result # Unreadable
      BY <2>4, <3>1 DEF SanitisedCallback, Callback, Unreadable, Result
    <3>3. (job.task = RecreateAttachmentTask) = FALSE
      BY <2>4, TasksDiffer
    <3> QED
      BY <3>1, <3>2, <3>3 DEF ResultsFor, SanitiseOutcomes
  <2>5. CASE i.task = SanitiseTask /\ j.task = SanitiseTask
    <3>1. i = j
      BY <2>3, <2>5, RequestsAssumption
    <3> QED
      BY <1>1, <2>1, <2>2, <2>3, <2>4, <2>5, <3>1
  <2>6. CASE i.task = CreateTask /\ j.task = CreateTask
    BY <2>1, <2>2, <2>3, <2>6, CallbackCases, TasksDiffer
  <2>7. i.task = j.task
    BY <2>1, <2>2, <2>3, CallbackCases, JobFacts, IdsAssumption
  <2> QED
    BY <2>1, <2>2, <2>3, <2>5, <2>6, <2>7, CallbackCases
<1>2. Inv => VerdictsAgree
  BY <1>1 DEF VerdictsAgree
<1> QED
  BY <1>2, InvHolds, PTL

(* What a job made stays where it is, whatever other jobs and other copies *)
(* of the job store: no task removes it, or overwrites it with a different *)
(* file.                                                                   *)
THEOREM MadeStaysHolds == Spec => MadeStays
<1>1. ASSUME Inv, Next, NEW at \in Object,
             s3[at].form \in {"sanitised", "printed"}
      PROVE  s3'[at] = s3[at]
  <2>1. s3[at] # Absent /\ \A id : s3[at] # Original(id)
    BY <1>1 DEF Absent, Original
  <2>2. PICK job \in Job : at = Target(job) /\ s3[at] = Made(job)
    BY <1>1, <2>1 DEF Inv, ObjectOK
  <2>3. IsStored(job)'
    BY <1>1, <2>2, StepWrites, StoredStays DEF Inv, IsStored
  <2> QED
    BY <2>2, <2>3 DEF IsStored
<1>2. ASSUME Inv, [Next]_vars
      PROVE  [\A at \in Object : s3[at].form \in {"sanitised", "printed"} =>
                s3'[at] = s3[at]]_vars
  BY <1>1, <1>2
<1> QED
  BY <1>2, InvHolds, PTL DEF Spec, MadeStays

-----------------------------------------------------------------------------
(* How a run moves on.                                                     *)

(* A step of the process w that goes on to the step named.                 *)
Advances(w, step) ==
  /\ GoTo(w, step) /\ StepsLeft[step] < StepsLeft[pc[w]]
  /\ msg' = msg /\ queue' = queue

(* A step that ends the run, or hands its job on with a retry fewer left.  *)
Ends(w) ==
  /\ Finish(w)
  /\ \/ queue' = queue
     \/ \E retries \in (msg[w].retries + 1)..MaxRetries :
          queue' = Put(queue, [msg[w] EXCEPT !.retries = retries])

LEMMA StepMovesOn ==
  ASSUME TypeOK, NEW w \in Worker, Step(w) \/ Crash(w)
  PROVE  \/ Ends(w)
         \/ \E step \in {"sanitise", "upload", "backup", "send"} :
              Advances(w, step)
<1>1. CASE Retry(w)
  <2>1. msg[w] \in Message /\ msg[w].retries \in 0..MaxRetries
    BY <1>1, WorkingFacts DEF Retry, Message
  <2>2. msg[w].retries + 1 \in (msg[w].retries + 1)..MaxRetries
    BY <1>1, <2>1, BoundsAssumption DEF Retry
  <2> QED
    BY <1>1, <2>2 DEF Retry, Ends
<1>2. CASE \/ GiveUp(w) \/ UploadRecreated(w) \/ Send(w) \/ BotoError(w)
           \/ Raise(w) \/ Crash(w)
  BY <1>2 DEF GiveUp, UploadRecreated, Send, BotoError, Raise, Crash,
     FinishWith, Ends, tasks
<1>3. CASE \/ Download(w) \/ SanitiseAccepts(w) \/ Prepare(w)
           \/ UploadSanitised(w) \/ UploadTemplated(w) \/ CopyToBackup(w)
  BY <1>3 DEF Download, SanitiseAccepts, Prepare, UploadSanitised,
     UploadTemplated, CopyToBackup, Advances, StepsLeft, tasks
<1>4. CASE SanitiseRejects(w)
  BY <1>4 DEF SanitiseRejects, FinishWith, Ends, Advances, StepsLeft, tasks
<1> QED
  BY <1>1, <1>2, <1>3, <1>4 DEF Step

(* A run takes finitely many steps and its job finitely many runs: every   *)
(* step brings it nearer to its end, and a retry uses one up.              *)
THEOREM RunsEndHolds == Spec => RunsEnd
<1> DEFINE Onward(w) ==
             /\ StepsLeft[pc'[w]] < StepsLeft[pc[w]]
             /\ pc'[w] # "idle" => msg'[w] = msg[w]
             /\ \/ queue' = queue
                \/ /\ pc'[w] = "idle"
                   /\ \E retries \in (msg[w].retries + 1)..MaxRetries :
                        queue' = Put(queue, [msg[w] EXCEPT !.retries = retries])
           Moved(w) == pc[w] # "idle" /\ <<pc[w], msg[w]>>' # <<pc[w], msg[w]>>
<1>1. ASSUME Inv, Next, NEW w \in Worker, Moved(w)
      PROVE  Onward(w)
  <2>1. TypeOK /\ pc[w] \in PC \ {"idle"}
    BY <1>1 DEF Inv, TypeOK, ProcessTypeOK
  <2>2. Step(w) \/ Crash(w)
    <3>1. ~Environment
      BY <1>1 DEF Environment, Request, Redeliver, ScanRemoved, BackupExpires,
         process
    <3>2. PICK v \in Worker :
            Step(v) \/ Crash(v) \/ \E m \in Message : Receive(v, m)
      BY <1>1, <3>1 DEF Next
    <3>3. CASE \E m \in Message : Receive(v, m)
      BY <1>1, <2>1, <3>3 DEF Receive, GoTo, TypeOK, ProcessTypeOK
    <3>4. CASE Step(v) \/ Crash(v)
      <4>1. v # w => pc'[w] = pc[w] /\ msg'[w] = msg[w]
        BY <2>1, <3>4, StepMovesOn
           DEF Ends, Advances, Finish, GoTo, TypeOK, ProcessTypeOK
      <4> QED
        BY <1>1, <3>4, <4>1
    <3> QED
      BY <3>2, <3>3, <3>4
  <2>3. CASE Ends(w)
    <3>1. pc'[w] = "idle"
      BY <2>1, <2>3 DEF Ends, Finish, GoTo, TypeOK, ProcessTypeOK
    <3>2. StepsLeft["idle"] < StepsLeft[pc[w]]
      BY <2>1 DEF StepsLeft, PC
    <3> QED
      BY <2>3, <3>1, <3>2 DEF Ends
  <2>4. ASSUME NEW step \in {"sanitise", "upload", "backup", "send"},
               Advances(w, step)
        PROVE  Onward(w)
    <3>1. pc'[w] = step
      BY <2>1, <2>4 DEF Advances, GoTo, TypeOK, ProcessTypeOK
    <3> QED
      BY <2>4, <3>1 DEF Advances
  <2> QED
    BY <2>1, <2>2, <2>3, <2>4, StepMovesOn
<1>2. ASSUME Inv, [Next]_vars
      PROVE  [\A w \in Worker : Moved(w) => Onward(w)]_vars
  BY <1>1, <1>2
<1> QED
  BY <1>2, InvHolds, PTL DEF Spec, RunsEnd

-----------------------------------------------------------------------------
(* The letters bucket holds printable letters only, under their own names. *)
THEOREM OnlyPrintableLettersHolds == Spec => []OnlyPrintableLetters
<1>1. ASSUME Inv, NEW k \in Key, s3[Location(LettersPdf, k)] # Absent
      PROVE  LET f == s3[Location(LettersPdf, k)]
             IN  \/ /\ f.form = "printed" /\ k = Filename[f.of]
                    /\ PageCount(f.of) <= LETTER_MAX_PAGE_COUNT
                    /\ KeyType[f.of] # "test"
                 \/ /\ f.form = "sanitised" /\ f.of \in PrecompiledLetter
                    /\ k = FileLocation[f.of]
                    /\ \E job \in requested :
                         /\ job.task = RecreateLetterTask /\ job.id = f.of
                         /\ Printable(Doc[f.of], FALSE, job.allow_international)
  <2> DEFINE at == Location(LettersPdf, k)
  <2>1. at \in Object /\ at.bucket = LettersPdf
    BY <1>1, BucketsAreBuckets DEF Location, Object
  <2>2. PICK job \in Job : /\ at = Target(job) /\ s3[at] = Made(job)
                           /\ job.task = RecreateLetterTask =>
                                job \in requested /\ Accepts(job)
    <3>1. ObjectOK(at)
      BY <1>1, <2>1 DEF Inv
    <3>2. \A key : at # Location(Scan, key) /\ at # Location(Backup, key)
      BY <2>1, BucketsDiffer, LocationFields
    <3> QED
      BY <1>1, <3>1, <3>2 DEF ObjectOK
  <2>3. job.task \in {CreateTask, RecreateLetterTask}
    BY <2>1, <2>2, TargetBucket, BucketsDiffer, JobFacts
  <2>4. CASE job.task = CreateTask
    <3>1. job.id \in TemplatedLetter /\ at = PrintTarget(job.id)
            /\ s3[at] = Printed(job.id)
      BY <2>2, <2>4, JobFacts, TasksDiffer DEF Target, Made
    <3>2. /\ ~IsLetterTooLong(PageCount(job.id)) /\ KeyType[job.id] # "test"
          /\ at = Location(LettersPdf, Filename[job.id])
      BY <2>1, <3>1, PrintTargetCases, BucketsDiffer, LocationFields
    <3>3. k = Filename[job.id]
      BY <3>2, LocationsEqual
    <3>4. PageCount(job.id) \in Nat
      <4>1. RenderedPages[job.id] \in Nat
        BY <3>1, LettersAssumption
      <4>2. AttachmentOf[job.id] # NULL => Doc[AttachmentOf[job.id]] \in Document
        BY <3>1, LettersAssumption DEF Uploaded
      <4>3. AttachmentOf[job.id] # NULL =>
              Len(Doc[AttachmentOf[job.id]].pages) \in Nat
        BY <4>2 DEF Document
      <4> QED
        BY <4>1, <4>3 DEF PageCount
    <3>5. PageCount(job.id) <= LETTER_MAX_PAGE_COUNT
      BY <3>2, <3>4, PageLimitAssumption DEF IsLetterTooLong
    <3> QED
      BY <3>1, <3>2, <3>3, <3>5 DEF Printed
  <2>5. CASE job.task = RecreateLetterTask
    <3>1. job.id \in PrecompiledLetter /\ job.allow_international \in BOOLEAN
            /\ s3[at] = Sanitised(job.id)
            /\ at = Location(LettersPdf, FileLocation[job.id])
      BY <2>2, <2>5, JobFacts, TasksDiffer DEF Target, Made
    <3>2. k = FileLocation[job.id]
      BY <3>1, LocationsEqual
    <3>3. Verdict(Doc[job.id], FALSE, job.allow_international).message = NULL
      <4>1. (job.task = RecreateAttachmentTask) = FALSE
        BY <2>5, TasksDiffer
      <4> QED
        BY <2>2, <2>5, <4>1 DEF Accepts
    <3>4. Doc[job.id] \in Document
      BY <3>1, LettersAssumption DEF Uploaded
    <3>5. Printable(Doc[job.id], FALSE, job.allow_international)
      BY <3>1, <3>3, <3>4, AcceptedIffPrintable, Zenon
    <3>6. s3[at].form = "sanitised" /\ s3[at].of = job.id
      BY <3>1 DEF Sanitised
    <3>7. job \in requested
      BY <2>2, <2>5
    <3> QED
      BY <2>5, <3>1, <3>2, <3>5, <3>6, <3>7, Zenon
  <2> QED
    BY <2>3, <2>4, <2>5
<1>2. Inv => OnlyPrintableLetters
  BY <1>1 DEF OnlyPrintableLetters
<1> QED
  BY <1>2, InvHolds, PTL

===========================================================================
