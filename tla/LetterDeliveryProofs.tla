------------------------ MODULE LetterDeliveryProofs ------------------------
(***************************************************************************)
(* LetterTasks implements LetterDelivery, for every value of the           *)
(* constants.  Each step of the queues, the processes and S3 is followed   *)
(* to what it means for the letters: something is stored, a backup         *)
(* expires, the API is told something, or nothing.                         *)
(***************************************************************************)
EXTENDS LetterTasksProofs

(* While a run has yet to say that a letter passed, the backup it made, or *)
(* an equal one of another run, is there.                                  *)
BackedUp(id) == s3[Location(Backup, BackupKey(id))] = Original(id)

BackupOK(w) ==
  pc[w] = "send" /\ JobOf(w).task = SanitiseTask /\ details[w].message = NULL
  => BackedUp(JobOf(w).id)

DeliveryInv == Inv /\ \A w \in Worker : BackupOK(w)

-----------------------------------------------------------------------------
(* What a step does to S3 and to what was said.                            *)

LEMMA StepCases ==
  ASSUME Next
  PROVE  /\ \/ s3' = s3
            \/ \E w \in Worker : pc[w] = "upload" /\ Store(w) /\ told' = told
            \/ \E w \in Worker : CopyToBackup(w)
            \/ \E p \in PrecompiledLetter : ScanRemoved(p)
            \/ \E id \in Uploaded : BackupExpires(id)
         /\ told' = told \/ \E w \in Worker : Send(w)
BY DEF Next, Environment, Step, Request, Redeliver, Download, SanitiseAccepts,
   SanitiseRejects, Prepare, Retry, GiveUp, UploadSanitised, UploadTemplated,
   UploadRecreated, CopyToBackup, ScanRemoved, BackupExpires, Send, BotoError,
   Raise, Crash, Receive

LEMMA WriteAt ==
  ASSUME TypeOK, NEW to, NEW f, Write(to, f), NEW at \in Object
  PROVE  s3'[at] = IF at = to THEN f ELSE s3[at]
BY DEF Write, TypeOK

LEMMA FilesDiffer ==
  ASSUME NEW a, NEW b
  PROVE  /\ Original(a) # Sanitised(b) /\ Original(a) # Printed(b)
         /\ Sanitised(a) # Printed(b)
         /\ Original(a) # Absent /\ Sanitised(a) # Absent /\ Printed(a) # Absent
         /\ Original(a) = Original(b) => a = b
         /\ Sanitised(a) = Sanitised(b) => a = b
         /\ Printed(a) = Printed(b) => a = b
BY DEF Original, Sanitised, Printed, Absent

LEMMA UploadWrites ==
  ASSUME Inv, NEW w \in Worker, pc[w] = "upload", Store(w)
  PROVE  JobOf(w) \in Job /\ Write(Target(JobOf(w)), Made(JobOf(w)))
<1>1. JobOf(w) \in Job /\ WorkOK(w)
  BY WorkingFacts DEF Inv
<1> QED
  BY <1>1 DEF WorkOK, Store, Write

LEMMA CopyWrites ==
  ASSUME Inv, NEW w \in Worker, CopyToBackup(w)
  PROVE  /\ JobOf(w).task = SanitiseTask /\ JobOf(w).id \in PrecompiledLetter
         /\ Write(Location(Backup, BackupKey(JobOf(w).id)), Original(JobOf(w).id))
<1> DEFINE job == JobOf(w)
<1>1. pc[w] = "backup" /\ job \in Job /\ pc[w] \in StepsOf(job.task)
  BY WorkingFacts DEF Inv, CopyToBackup
<1>2. job.task = SanitiseTask /\ job.id \in PrecompiledLetter
  BY <1>1, JobFacts, StepFacts
<1>3. Source(job) = Location(Scan, Filename[job.id]) /\ Source(job) \in Object
  BY <1>1, <1>2, SourceIsObject, TasksDiffer DEF Source
<1>4. s3[Source(job)] = Original(job.id)
  BY <1>1, <1>2, <1>3, SourceHoldsOriginal, TasksDiffer DEF Inv, CopyToBackup
<1> QED
  BY <1>2, <1>3, <1>4 DEF CopyToBackup, Write

(* Storing what a job makes adds that file and disturbs no other one: if   *)
(* there was something in its place, it was the same.                      *)
LEMMA StoreAdds ==
  ASSUME Inv, NEW job \in Job, Write(Target(job), Made(job)),
         NEW at \in Object, NEW f, f # Absent
  PROVE  s3'[at] = f <=> s3[at] = f \/ (at = Target(job) /\ f = Made(job))
<1>1. TypeOK
  BY DEF Inv
<1>2. CASE at # Target(job)
  BY <1>1, <1>2, WriteAt
<1>3. CASE at = Target(job)
  <2>1. s3'[at] = Made(job)
    BY <1>1, <1>3, WriteAt
  <2>2. s3[at] = f => f = Made(job)
    <3> SUFFICES ASSUME s3[at] = f
                 PROVE  f = Made(job)
      OBVIOUS
    <3>1. ObjectOK(at)
      BY DEF Inv
    <3>2. \A key : at # Location(Scan, key) /\ at # Location(Backup, key)
      BY <1>3, TargetIsNoSource, LocationFields
    <3>3. PICK other \in Job : at = Target(other) /\ s3[at] = Made(other)
      BY <3>1, <3>2 DEF ObjectOK
    <3> QED
      BY <1>3, <3>3, SameTargetSameFile
  <2> QED
    BY <1>3, <2>1, <2>2
<1> QED
  BY <1>2, <1>3

-----------------------------------------------------------------------------
(* The backup is there when it is needed.                                  *)

LEMMA BackupStays ==
  ASSUME Inv, Next, NEW id \in Uploaded, BackedUp(id), ~BackupExpires(id)
  PROVE  BackedUp(id)'
<1> DEFINE at == Location(Backup, BackupKey(id))
<1>1. TypeOK /\ at \in Object /\ s3[at] = Original(id) /\ at.bucket = Backup
  BY LocationsAreObjects, LocationFields DEF Inv, BackedUp
<1>2. SUFFICES s3'[at] = Original(id)
  BY DEF BackedUp
<1> HIDE DEF at
<1>3. CASE s3' = s3
  BY <1>1, <1>3
<1>4. ASSUME NEW to, NEW f, Write(to, f), to # at
      PROVE  s3'[at] = Original(id)
  BY <1>1, <1>4, WriteAt
<1>5. ASSUME NEW w \in Worker, pc[w] = "upload", Store(w)
      PROVE  s3'[at] = Original(id)
  <2>1. JobOf(w) \in Job /\ Write(Target(JobOf(w)), Made(JobOf(w)))
    BY <1>5, UploadWrites
  <2>2. Target(JobOf(w)) # at
    BY <1>1, <2>1, TargetIsNoSource
  <2> QED
    BY <1>4, <2>1, <2>2
<1>6. ASSUME NEW w \in Worker, CopyToBackup(w)
      PROVE  s3'[at] = Original(id)
  <2>1. PICK i : Write(Location(Backup, BackupKey(i)), Original(i))
    BY <1>6, CopyWrites
  <2>2. CASE Location(Backup, BackupKey(i)) = at
    <3>1. BackupKey(i) = BackupKey(id)
      BY <2>2, LocationsEqual DEF at
    <3>2. i = id
      BY <3>1 DEF BackupKey
    <3> QED
      BY <1>1, <2>1, <2>2, <3>2, WriteAt
  <2> QED
    BY <1>4, <2>1, <2>2
<1>7. ASSUME NEW p \in PrecompiledLetter, ScanRemoved(p)
      PROVE  s3'[at] = Original(id)
  <2>1. Write(Location(Scan, Filename[p]), Absent)
    BY <1>7 DEF ScanRemoved, Write
  <2>2. Location(Scan, Filename[p]) # at
    BY <1>1, BucketsDiffer, LocationFields
  <2> QED
    BY <1>4, <2>1, <2>2
<1>8. ASSUME NEW i \in Uploaded, BackupExpires(i)
      PROVE  s3'[at] = Original(id)
  <2>1. Write(Location(Backup, BackupKey(i)), Absent) /\ i # id
    BY <1>8 DEF BackupExpires, Write
  <2>2. BackupKey(i) # BackupKey(id)
    BY <2>1 DEF BackupKey
  <2>3. Location(Backup, BackupKey(i)) # at
    BY <2>2, LocationsEqual DEF at
  <2> QED
    BY <1>4, <2>1, <2>3
<1> QED
  BY <1>3, <1>5, <1>6, <1>7, <1>8, StepCases

LEMMA OtherBackupPreserved ==
  ASSUME DeliveryInv, Next, NEW v \in Worker,
         pc'[v] = pc[v], msg'[v] = msg[v], details'[v] = details[v]
  PROVE  BackupOK(v)'
<1>1. PICK id : id = JobOf(v).id
  OBVIOUS
<1>2. SUFFICES ASSUME pc[v] = "send", JobOf(v).task = SanitiseTask,
                      details[v].message = NULL
               PROVE  BackedUp(id)'
  BY <1>1 DEF BackupOK, JobOf, BackedUp
<1>3. id \in Uploaded
  BY <1>1, <1>2, WorkingFacts, JobFacts DEF DeliveryInv, Inv, Uploaded
<1>4. BackedUp(id)
  BY <1>1, <1>2 DEF DeliveryInv, BackupOK
<1>5. ~BackupExpires(id)
  BY <1>1, <1>2 DEF BackupExpires
<1> QED
  BY <1>3, <1>4, <1>5, BackupStays DEF DeliveryInv

LEMMA BackupPreserved ==
  ASSUME DeliveryInv, Next, NEW v \in Worker
  PROVE  BackupOK(v)'
<1>1. Inv /\ TypeOK
  BY DEF DeliveryInv, Inv
<1>2. CASE Environment
  BY <1>2, OtherBackupPreserved
     DEF Environment, Request, Redeliver, ScanRemoved, BackupExpires, process
<1>3. ASSUME NEW w \in Worker, NEW m \in Message, Receive(w, m)
      PROVE  BackupOK(v)'
  <2>1. CASE v # w
    BY <1>1, <1>3, <2>1, ReceiveTyped, OtherBackupPreserved DEF OnlyProcess
  <2>2. CASE v = w
    <3>1. pc'[w] \in {"prepare", "download"}
      BY <1>1, <1>3 DEF Receive, GoTo, TypeOK, ProcessTypeOK
    <3> QED
      BY <2>2, <3>1 DEF BackupOK
  <2> QED
    BY <2>1, <2>2
<1>4. ASSUME NEW w \in Worker, Step(w) \/ Crash(w)
      PROVE  BackupOK(v)'
  <2>1. CASE v # w
    BY <1>1, <1>4, <2>1, ProcessTyped, OtherBackupPreserved DEF OnlyProcess
  <2>2. CASE v = w
    <3> DEFINE job == JobOf(w)
    <3>1. ASSUME NEW step, GoTo(w, step)
          PROVE  pc'[w] = step
      BY <1>1, <3>1 DEF GoTo, TypeOK, ProcessTypeOK
    <3>2. CASE pc'[w] # "send"
      BY <2>2, <3>2 DEF BackupOK
    <3>3. CASE SanitiseRejects(w)
      <4>1. CASE Recreates(job)
        <5>1. pc'[w] = "idle"
          BY <3>1, <3>3, <4>1 DEF SanitiseRejects, FinishWith, Finish
        <5> QED
          BY <3>2, <5>1
      <4>2. CASE ~Recreates(job)
        <5>1. details'[w].message # NULL
          BY <1>1, <3>3, <4>2 DEF SanitiseRejects, TypeOK, ProcessTypeOK
        <5> QED
          BY <2>2, <5>1 DEF BackupOK
      <4> QED
        BY <4>1, <4>2
    <3>4. CASE UploadTemplated(w)
      <4>1. msg'[w] = msg[w] /\ JobOf(w).task = CreateTask
        BY <3>4 DEF UploadTemplated
      <4> QED
        BY <2>2, <4>1, TasksDiffer DEF BackupOK, JobOf
    <3>5. CASE CopyToBackup(w)
      <4>1. /\ Write(Location(Backup, BackupKey(job.id)), Original(job.id))
            /\ job.id \in Uploaded
        BY <1>1, <3>5, CopyWrites DEF Uploaded
      <4>2. Location(Backup, BackupKey(job.id)) \in Object
        BY <4>1, LocationsAreObjects
      <4>3. s3'[Location(Backup, BackupKey(job.id))] = Original(job.id)
        BY <1>1, <4>1, <4>2, WriteAt
      <4>4. msg'[w] = msg[w]
        BY <3>5 DEF CopyToBackup
      <4> QED
        BY <2>2, <4>3, <4>4 DEF BackupOK, BackedUp, JobOf
    <3>6. CASE Finish(w)
      BY <3>1, <3>2, <3>6 DEF Finish
    <3>7. CASE Download(w) \/ SanitiseAccepts(w) \/ Prepare(w) \/ UploadSanitised(w)
      BY <3>1, <3>2, <3>7
         DEF Download, SanitiseAccepts, Prepare, UploadSanitised
    <3> QED
      BY <1>4, <3>3, <3>4, <3>5, <3>6, <3>7
         DEF Step, Crash, Retry, GiveUp, UploadRecreated, Send, BotoError, Raise,
             FinishWith
  <2> QED
    BY <2>1, <2>2
<1> QED
  BY <1>2, <1>3, <1>4 DEF Next

LEMMA DeliveryInvHolds == Spec => []DeliveryInv
<1>1. Init => DeliveryInv
  <2> SUFFICES ASSUME Init
               PROVE  DeliveryInv
    OBVIOUS
  <2>1. \A w \in Worker : BackupOK(w)
    BY DEF Init, BackupOK
  <2> QED
    BY <2>1, InvInitially DEF DeliveryInv
<1>2. DeliveryInv /\ [Next]_vars => DeliveryInv'
  <2> SUFFICES ASSUME DeliveryInv, [Next]_vars
               PROVE  DeliveryInv'
    OBVIOUS
  <2>1. Inv'
    BY InvPreserved DEF DeliveryInv
  <2>2. CASE Next
    BY <2>1, <2>2, BackupPreserved DEF DeliveryInv
  <2>3. CASE UNCHANGED vars
    <3>1. \A w \in Worker : BackupOK(w)'
      BY <2>3 DEF DeliveryInv, BackupOK, BackedUp, vars, JobOf
    <3> QED
      BY <2>1, <3>1 DEF DeliveryInv
  <2> QED
    BY <2>2, <2>3
<1> QED
  BY <1>1, <1>2, PTL DEF Spec

-----------------------------------------------------------------------------
(* What S3 holds of a letter, one artefact at a time.                      *)

Artefacts == {"sanitised", "original", "print", "too_long"}

Has(id, a) ==
  \/ /\ a = "sanitised"
     /\ s3[Location(SanitisedLetter, Filename[id])] = Sanitised(id)
  \/ a = "original" /\ id \in Uploaded /\ BackedUp(id)
  \/ /\ a = "print"
     /\ \/ s3[Location(LettersPdf, Filename[id])] = Printed(id)
        \/ s3[Location(TestLetters, Filename[id])] = Printed(id)
  \/ /\ a = "too_long" /\ id \in TemplatedLetter
     /\ s3[Location(InvalidPdf, RemoveFolder(Filename[id]))] = Printed(id)

LEMMA StoredIs ==
  ASSUME NEW id
  PROVE  /\ StoredOf(id) \subseteq Artefacts
         /\ \A a \in Artefacts : a \in StoredOf(id) <=> Has(id, a)
         /\ StoredOf(id)' \subseteq Artefacts
         /\ \A a \in Artefacts : a \in StoredOf(id)' <=> Has(id, a)'
<1>1. \A a \in Artefacts : a \in StoredOf(id) <=> Has(id, a)
  BY DEF StoredOf, Has, Artefacts, BackedUp
<1>2. \A a \in Artefacts : a \in StoredOf(id)' <=> Has(id, a)'
  BY DEF StoredOf, Has, Artefacts, BackedUp
<1> QED
  BY <1>1, <1>2 DEF StoredOf, Artefacts

(* The artefact a job stores.                                              *)
Adds(job, a) ==
  \/ job.task = SanitiseTask /\ a = "sanitised"
  \/ job.task = CreateTask /\ IsLetterTooLong(PageCount(job.id)) /\ a = "too_long"
  \/ job.task = CreateTask /\ ~IsLetterTooLong(PageCount(job.id)) /\ a = "print"

LEMMA StoreMaps ==
  ASSUME Inv, NEW job \in Job, Write(Target(job), Made(job)),
         NEW id \in Letter, NEW a \in Artefacts
  PROVE  Has(id, a)' <=> Has(id, a) \/ (id = job.id /\ Adds(job, a))
<1>1. ASSUME NEW at \in Object, NEW f, f # Absent
      PROVE  s3'[at] = f <=> s3[at] = f \/ (at = Target(job) /\ f = Made(job))
  BY <1>1, StoreAdds
<1>2. CASE a = "sanitised"
  <2> DEFINE at == Location(SanitisedLetter, Filename[id])
  <2>1. at \in Object /\ Sanitised(id) # Absent
    BY LocationsAreObjects, BucketsAreBuckets, FilesDiffer
  <2>2. at = Target(job) /\ Sanitised(id) = Made(job)
          <=> id = job.id /\ job.task = SanitiseTask
    <3>1. ASSUME at = Target(job), Sanitised(id) = Made(job)
          PROVE  id = job.id /\ job.task = SanitiseTask
      <4>1. Target(job).bucket = SanitisedLetter
        BY <3>1, LocationFields
      <4>2. job.task = SanitiseTask
        BY <4>1, TargetBucket, BucketsDiffer, JobFacts
      <4>3. Made(job) = Sanitised(job.id)
        BY <4>2, TasksDiffer DEF Made
      <4> QED
        BY <3>1, <4>2, <4>3, FilesDiffer
    <3>2. ASSUME id = job.id, job.task = SanitiseTask
          PROVE  at = Target(job) /\ Sanitised(id) = Made(job)
      BY <3>2, TasksDiffer DEF Target, Made
    <3> QED
      BY <3>1, <3>2
  <2>3. s3'[at] = Sanitised(id) <=>
          s3[at] = Sanitised(id) \/ (at = Target(job) /\ Sanitised(id) = Made(job))
    BY <1>1, <2>1
  <2> QED
    BY <1>2, <2>2, <2>3 DEF Has, Adds
<1>3. CASE a = "original"
  <2>1. SUFFICES ASSUME id \in Uploaded
                 PROVE  BackedUp(id)' <=> BackedUp(id)
    BY <1>3 DEF Has, Adds
  <2> DEFINE at == Location(Backup, BackupKey(id))
  <2>2. at \in Object /\ Original(id) # Absent
    BY <2>1, LocationsAreObjects, FilesDiffer
  <2>3. at # Target(job)
    BY TargetIsNoSource, LocationFields
  <2>4. s3'[at] = Original(id) <=> s3[at] = Original(id)
    BY <1>1, <2>2, <2>3
  <2> QED
    BY <2>4 DEF BackedUp
<1>4. ASSUME Printed(id) = Made(job)
      PROVE  job.task = CreateTask /\ id = job.id /\ id \in TemplatedLetter
             /\ Target(job) = PrintTarget(id)
  <2>1. job.task = CreateTask
    BY <1>4, FilesDiffer DEF Made
  <2>2. id = job.id
    BY <1>4, <2>1, FilesDiffer DEF Made
  <2> QED
    BY <2>1, <2>2, JobFacts, TasksDiffer DEF Target
<1>5. ASSUME job.task = CreateTask, id = job.id
      PROVE  Printed(id) = Made(job)
  BY <1>5 DEF Made
<1>6. CASE a = "print"
  <2>1. ASSUME NEW b \in {LettersPdf, TestLetters}
        PROVE  LET at == Location(b, Filename[id])
               IN  s3'[at] = Printed(id) <=>
                     s3[at] = Printed(id)
                       \/ (at = Target(job) /\ Printed(id) = Made(job))
    BY <1>1, LocationsAreObjects, BucketsAreBuckets, FilesDiffer
  <2>2. ASSUME NEW b \in {LettersPdf, TestLetters}, Printed(id) = Made(job),
               Location(b, Filename[id]) = Target(job)
        PROVE  ~IsLetterTooLong(PageCount(job.id))
    <3>1. Target(job) = PrintTarget(id) /\ id \in TemplatedLetter /\ id = job.id
      BY <1>4, <2>2
    <3>2. PrintTarget(id).bucket # InvalidPdf
      BY <2>2, <3>1, BucketsDiffer, LocationFields
    <3> QED
      BY <3>1, <3>2, PrintTargetCases, LocationFields
  <2>3. ASSUME job.task = CreateTask, id = job.id,
               ~IsLetterTooLong(PageCount(job.id))
        PROVE  /\ Printed(id) = Made(job)
               /\ \/ Location(LettersPdf, Filename[id]) = Target(job)
                  \/ Location(TestLetters, Filename[id]) = Target(job)
    <3>1. Printed(id) = Made(job)
      BY <1>5, <2>3
    <3> QED
      BY <1>4, <2>3, <3>1, PrintTargetCases
  <2>4. /\ s3'[Location(LettersPdf, Filename[id])] = Printed(id) <=>
             \/ s3[Location(LettersPdf, Filename[id])] = Printed(id)
             \/ /\ Location(LettersPdf, Filename[id]) = Target(job)
                /\ Printed(id) = Made(job)
        /\ s3'[Location(TestLetters, Filename[id])] = Printed(id) <=>
             \/ s3[Location(TestLetters, Filename[id])] = Printed(id)
             \/ /\ Location(TestLetters, Filename[id]) = Target(job)
                /\ Printed(id) = Made(job)
    BY <2>1
  <2>5. /\ Printed(id) = Made(job)
        /\ \/ Location(LettersPdf, Filename[id]) = Target(job)
           \/ Location(TestLetters, Filename[id]) = Target(job)
        <=> id = job.id /\ Adds(job, "print")
    BY <1>4, <2>2, <2>3 DEF Adds
  <2>6. Has(id, "print")' <=> Has(id, "print") \/ (id = job.id /\ Adds(job, "print"))
    BY <2>4, <2>5 DEF Has
  <2> QED
    BY <1>6, <2>6
<1>7. CASE a = "too_long"
  <2>1. SUFFICES ASSUME id \in TemplatedLetter
                 PROVE  Has(id, a)' <=> Has(id, a) \/ (id = job.id /\ Adds(job, a))
    BY <1>7, JobFacts DEF Has, Adds
  <2> DEFINE at == Location(InvalidPdf, RemoveFolder(Filename[id]))
  <2>2. s3'[at] = Printed(id) <=>
          s3[at] = Printed(id) \/ (at = Target(job) /\ Printed(id) = Made(job))
    BY <1>1, <2>1, LocationsAreObjects, FilesDiffer
  <2>3. at = Target(job) /\ Printed(id) = Made(job)
          <=> id = job.id /\ Adds(job, a)
    <3>1. ASSUME at = Target(job), Printed(id) = Made(job)
          PROVE  id = job.id /\ Adds(job, a)
      <4>1. Target(job) = PrintTarget(id) /\ id = job.id /\ job.task = CreateTask
        BY <1>4, <3>1
      <4>2. PrintTarget(id).bucket = InvalidPdf
        BY <3>1, <4>1, LocationFields
      <4>3. IsLetterTooLong(PageCount(id))
        BY <2>1, <4>2, PrintTargetCases, BucketsDiffer, LocationFields
      <4> QED
        BY <1>7, <4>1, <4>3 DEF Adds
    <3>2. ASSUME id = job.id, Adds(job, a)
          PROVE  at = Target(job) /\ Printed(id) = Made(job)
      <4>1. job.task = CreateTask /\ IsLetterTooLong(PageCount(id))
        BY <1>7, <3>2 DEF Adds
      <4>2. Printed(id) = Made(job)
        BY <1>5, <3>2, <4>1
      <4>3. Target(job) = PrintTarget(id)
        BY <1>4, <4>2
      <4> QED
        BY <2>1, <4>1, <4>2, <4>3, PrintTargetCases
    <3> QED
      BY <3>1, <3>2
  <2> QED
    BY <1>7, <2>1, <2>2, <2>3 DEF Has
<1> QED
  BY <1>2, <1>3, <1>6, <1>7 DEF Artefacts

(* What is written to the backup bucket is about one letter only, and what *)
(* is removed from the scan bucket is no artefact.                         *)
LEMMA BackupMaps ==
  ASSUME Inv, NEW i \in Uploaded, NEW f, Write(Location(Backup, BackupKey(i)), f),
         NEW id \in Letter, NEW a \in Artefacts, id # i \/ a # "original"
  PROVE  Has(id, a)' <=> Has(id, a)
<1>1. ASSUME NEW b \in Bucket \ {Backup}, NEW k, Location(b, k) \in Object
      PROVE  s3'[Location(b, k)] = s3[Location(b, k)]
  <2>1. Location(b, k) # Location(Backup, BackupKey(i))
    BY <1>1, LocationsEqual
  <2> QED
    BY <1>1, <2>1, WriteAt DEF Inv
<1>2. CASE a = "original"
  <2>1. BackupKey(id) # BackupKey(i)
    BY <1>2 DEF BackupKey
  <2>2. Location(Backup, BackupKey(id)) # Location(Backup, BackupKey(i))
    BY <2>1, LocationsEqual
  <2>3. id \in Uploaded => (BackedUp(id)' <=> BackedUp(id))
    BY <2>2, WriteAt, LocationsAreObjects DEF Inv, BackedUp
  <2> QED
    BY <1>2, <2>3 DEF Has
<1>3. CASE a # "original"
  <2>1. {SanitisedLetter, LettersPdf, TestLetters, InvalidPdf}
          \subseteq Bucket \ {Backup}
    BY BucketsDiffer, BucketsAreBuckets
  <2>2. \A b \in {SanitisedLetter, LettersPdf, TestLetters} :
          s3'[Location(b, Filename[id])] = s3[Location(b, Filename[id])]
    BY <1>1, <2>1, LocationsAreObjects
  <2>3. id \in TemplatedLetter =>
          s3'[Location(InvalidPdf, RemoveFolder(Filename[id]))]
            = s3[Location(InvalidPdf, RemoveFolder(Filename[id]))]
    BY <1>1, <2>1, LocationsAreObjects
  <2> QED
    BY <1>3, <2>2, <2>3 DEF Has
<1> QED
  BY <1>2, <1>3

LEMMA ScanMaps ==
  ASSUME Inv, NEW p \in PrecompiledLetter, ScanRemoved(p),
         NEW id \in Letter, NEW a \in Artefacts
  PROVE  Has(id, a)' <=> Has(id, a)
<1>1. Write(Location(Scan, Filename[p]), Absent)
  BY DEF ScanRemoved, Write
<1>2. ASSUME NEW b \in Bucket \ {Scan}, NEW k, Location(b, k) \in Object
      PROVE  s3'[Location(b, k)] = s3[Location(b, k)]
  <2>1. Location(b, k) # Location(Scan, Filename[p])
    BY <1>2, LocationsEqual
  <2> QED
    BY <1>1, <1>2, <2>1, WriteAt DEF Inv
<1>3. {SanitisedLetter, LettersPdf, TestLetters, InvalidPdf, Backup}
        \subseteq Bucket \ {Scan}
  BY BucketsDiffer, BucketsAreBuckets
<1>4. \A b \in {SanitisedLetter, LettersPdf, TestLetters} :
        s3'[Location(b, Filename[id])] = s3[Location(b, Filename[id])]
  BY <1>2, <1>3, LocationsAreObjects
<1>5. id \in TemplatedLetter =>
        s3'[Location(InvalidPdf, RemoveFolder(Filename[id]))]
          = s3[Location(InvalidPdf, RemoveFolder(Filename[id]))]
  BY <1>2, <1>3, LocationsAreObjects
<1>6. id \in Uploaded => (BackedUp(id)' <=> BackedUp(id))
  BY <1>2, <1>3, LocationsAreObjects DEF BackedUp
<1> QED
  BY <1>4, <1>5, <1>6 DEF Has

-----------------------------------------------------------------------------
(* From artefacts and callbacks to the steps of LetterDelivery.            *)

SaidOf(id) == {SaidBy(c) : c \in {d \in told : d.id = id}}

LEMMA ArtefactsAre == Delivery!Artefact = Artefacts
BY DEF Delivery!Artefact, Artefacts

LEMMA SameStored ==
  ASSUME NEW id, \A a \in Artefacts : Has(id, a)' <=> Has(id, a)
  PROVE  StoredOf(id)' = StoredOf(id)
BY StoredIs

LEMMA SameSaid ==
  ASSUME NEW id, told' = told
  PROVE  SaidOf(id)' = SaidOf(id)
BY DEF SaidOf

LEMMA NothingHappens ==
  ASSUME told' = told,
         \A id \in Letter, a \in Artefacts : Has(id, a)' <=> Has(id, a)
  PROVE  UNCHANGED Delivery!vars
<1>1. \A id \in Letter : StoredOf(id)' = StoredOf(id)
  BY SameStored
<1> QED
  BY <1>1 DEF Delivery!vars

LEMMA SomethingStored ==
  ASSUME told' = told, NEW i \in Letter, NEW artefact \in Artefacts,
         \A id \in Letter, a \in Artefacts :
           Has(id, a)' <=> Has(id, a) \/ (id = i /\ a = artefact)
  PROVE  Delivery!Next
<1>1. \A id \in Letter :
        StoredOf(id)' = IF id = i THEN StoredOf(id) \cup {artefact} ELSE StoredOf(id)
  BY StoredIs
<1>2. Delivery!Store(i, artefact)
  BY <1>1 DEF Delivery!Store
<1> QED
  BY <1>2, ArtefactsAre DEF Delivery!Next

LEMMA BackupGone ==
  ASSUME told' = told, NEW i \in Letter, ~Has(i, "original")',
         \A id \in Letter, a \in Artefacts :
           id # i \/ a # "original" => (Has(id, a)' <=> Has(id, a))
  PROVE  Delivery!Next
<1>1. \A id \in Letter :
        StoredOf(id)' = IF id = i THEN StoredOf(id) \ {"original"} ELSE StoredOf(id)
  BY StoredIs DEF Artefacts
<1>2. Delivery!Expire(i)
  BY <1>1 DEF Delivery!Expire
<1> QED
  BY <1>2 DEF Delivery!Next

LEMMA SomethingSaid ==
  ASSUME s3' = s3, NEW c, told' = told \cup {c}, c.id \in Letter,
         SaidBy(c) \in Delivery!Saying,
         Delivery!Needs(SaidBy(c)) \subseteq StoredOf(c.id),
         \A said \in SaidOf(c.id) : ~Delivery!Contradict(SaidBy(c), said)
  PROVE  Delivery!Next
<1>1. \A id \in Letter : StoredOf(id)' = StoredOf(id)
  BY DEF StoredOf
<1>2. \A id \in Letter :
        SaidOf(id)' = IF id = c.id THEN SaidOf(id) \cup {SaidBy(c)} ELSE SaidOf(id)
  BY DEF SaidOf
<1>3. Delivery!Tell(c.id, SaidBy(c))
  BY <1>1, <1>2 DEF Delivery!Tell, SaidOf
<1> QED
  BY <1>3 DEF Delivery!Next

-----------------------------------------------------------------------------
(* What is said of a letter is true, and contradicts nothing.              *)

(* A callback of a first sanitisation, and one of a templated letter.      *)
LEMMA SanitisedSays ==
  ASSUME NEW id, NEW result
  PROVE  SaidBy(SanitisedCallback(id, result))
           = IF result.message = "unable-to-read-the-file" THEN "unreadable"
             ELSE IF result.message = NULL THEN "passed" ELSE "failed"
<1> DEFINE c == SanitisedCallback(id, result)
<1>1. /\ c.task = ProcessSanitised /\ c.message = result.message
      /\ c.validation_status = IF result.message = NULL THEN "passed" ELSE "failed"
  BY DEF SanitisedCallback, Callback
<1> HIDE DEF c
<1>2. SaidBy(c) = IF c.message = "unable-to-read-the-file" THEN "unreadable"
                  ELSE c.validation_status
  BY <1>1, CallbackTasksDiffer DEF SaidBy
<1>3. NULL # "unable-to-read-the-file"
  BY NullAssumption DEF Messages
<1>4. SaidBy(c) = IF result.message = "unable-to-read-the-file" THEN "unreadable"
                  ELSE IF result.message = NULL THEN "passed" ELSE "failed"
  BY <1>1, <1>2
<1> QED
  BY <1>4 DEF c

LEMMA TemplatedSays ==
  ASSUME NEW id
  PROVE  SaidBy(TemplatedCallback(id))
           = IF IsLetterTooLong(PageCount(id)) THEN "too_long" ELSE "billable"
<1> DEFINE c == TemplatedCallback(id)
<1>1. /\ c.message = NULL
      /\ c.task = IF IsLetterTooLong(PageCount(id)) THEN UpdateValidationFailed
                  ELSE UpdateBillableUnits
  BY DEF TemplatedCallback, Callback
<1>2. NULL # "unable-to-read-the-file"
  BY NullAssumption DEF Messages
<1> HIDE DEF c
<1>3. SaidBy(c) = IF IsLetterTooLong(PageCount(id)) THEN "too_long" ELSE "billable"
  BY <1>1, <1>2, CallbackTasksDiffer DEF SaidBy
<1> QED
  BY <1>3 DEF c

(* Everything the API will use is there when it is told.                   *)
LEMMA NeedsMet ==
  ASSUME DeliveryInv, NEW w \in Worker, Send(w)
  PROVE  \E c : /\ told' = told \cup {c} /\ c.id \in Letter
                /\ SaidBy(c) \in Delivery!Saying
                /\ Delivery!Needs(SaidBy(c)) \subseteq StoredOf(c.id)
<1> DEFINE job == JobOf(w)
<1>1. /\ pc[w] = "send" /\ WorkOK(w) /\ BackupOK(w) /\ job \in Job
      /\ job.task \in {SanitiseTask, CreateTask}
  BY WorkingFacts, StepFacts, JobFacts DEF DeliveryInv, Inv, Send
<1>2. CASE job.task = CreateTask
  <2> DEFINE c == TemplatedCallback(job.id)
  <2>1. told' = told \cup {c} /\ c.id = job.id
    BY <1>2 DEF Send, TemplatedCallback, Callback
  <2>2. job.id \in TemplatedLetter /\ job.id \in Letter
    BY <1>1, <1>2, JobFacts DEF Letter
  <2>3. s3[PrintTarget(job.id)] = Printed(job.id)
    BY <1>1, <1>2, TasksDiffer DEF WorkOK, IsStored, Target, Made
  <2>4. CASE IsLetterTooLong(PageCount(job.id))
    <3>1. SaidBy(c) = "too_long"
      BY <2>4, TemplatedSays
    <3>2. Has(job.id, "too_long")
      BY <2>2, <2>3, <2>4, PrintTargetCases DEF Has
    <3>3. "too_long" \in StoredOf(job.id)
      BY <3>2, StoredIs DEF Artefacts
    <3> QED
      BY <2>1, <2>2, <3>1, <3>3 DEF Delivery!Needs, Delivery!Saying
  <2>5. CASE ~IsLetterTooLong(PageCount(job.id))
    <3>1. SaidBy(c) = "billable"
      BY <2>5, TemplatedSays
    <3>2. Has(job.id, "print")
      BY <2>2, <2>3, <2>5, PrintTargetCases DEF Has
    <3>3. "print" \in StoredOf(job.id)
      BY <3>2, StoredIs DEF Artefacts
    <3> QED
      BY <2>1, <2>2, <3>1, <3>3 DEF Delivery!Needs, Delivery!Saying
  <2> QED
    BY <2>4, <2>5
<1>3. CASE job.task = SanitiseTask
  <2> DEFINE c == SanitisedCallback(job.id, details[w])
  <2>1. told' = told \cup {c} /\ c.id = job.id
    BY <1>3, TasksDiffer DEF Send, SanitisedCallback, Callback
  <2>2. job.id \in PrecompiledLetter /\ job.id \in Letter /\ job.id \in Uploaded
    BY <1>1, <1>3, JobFacts DEF Letter, Uploaded
  <2>3. SaidBy(c) = IF details[w].message = "unable-to-read-the-file"
                    THEN "unreadable"
                    ELSE IF details[w].message = NULL THEN "passed" ELSE "failed"
    BY SanitisedSays
  <2> HIDE DEF c
  <2>4. CASE SaidBy(c) = "passed"
    <3>1. details[w].message = NULL
      BY <2>3, <2>4
    <3>2. s3[Location(SanitisedLetter, Filename[job.id])] = Sanitised(job.id)
      BY <1>1, <1>3, <3>1, TasksDiffer DEF WorkOK, IsStored, Target, Made
    <3>3. BackedUp(job.id)
      BY <1>1, <1>3, <3>1 DEF BackupOK
    <3>4. Has(job.id, "sanitised") /\ Has(job.id, "original")
      BY <2>2, <3>2, <3>3 DEF Has
    <3>5. {"sanitised", "original"} \subseteq StoredOf(job.id)
      BY <3>4, StoredIs DEF Artefacts
    <3> QED
      BY <2>1, <2>2, <2>4, <3>5 DEF Delivery!Needs, Delivery!Saying
  <2>5. CASE SaidBy(c) \in {"failed", "unreadable"}
    <3>1. Delivery!Needs(SaidBy(c)) = {}
      BY <2>5 DEF Delivery!Needs
    <3> QED
      BY <2>1, <2>2, <2>5, <3>1 DEF Delivery!Saying
  <2> QED
    BY <2>3, <2>4, <2>5
<1> QED
  BY <1>1, <1>2, <1>3

LEMMA NothingTakenBack ==
  ASSUME VerdictsAgree', NEW c, told' = told \cup {c}
  PROVE  \A said \in SaidOf(c.id) : ~Delivery!Contradict(SaidBy(c), said)
<1> SUFFICES ASSUME NEW d \in told, d.id = c.id
             PROVE  ~Delivery!Contradict(SaidBy(c), SaidBy(d))
  BY DEF SaidOf
<1>1. \/ c.message = "unable-to-read-the-file"
      \/ d.message = "unable-to-read-the-file"
      \/ c = d
  BY DEF VerdictsAgree
<1>2. CASE c = d
  BY <1>2 DEF Delivery!Contradict
<1>3. ASSUME NEW e, e.message = "unable-to-read-the-file"
      PROVE  SaidBy(e) = "unreadable"
  BY <1>3 DEF SaidBy
<1> QED
  BY <1>1, <1>2, <1>3 DEF Delivery!Contradict

-----------------------------------------------------------------------------
(* Every step of LetterTasks is a step of LetterDelivery, or none.         *)
LEMMA StepDelivers ==
  ASSUME DeliveryInv, Next, VerdictsAgree'
  PROVE  [Delivery!Next]_(Delivery!vars)
<1>1. Inv /\ TypeOK
  BY DEF DeliveryInv, Inv
<1>2. ASSUME NEW w \in Worker, Send(w)
      PROVE  Delivery!Next
  <2>1. s3' = s3
    BY <1>2 DEF Send
  <2> QED
    BY <1>2, <2>1, NeedsMet, NothingTakenBack, SomethingSaid
<1>3. ASSUME s3' = s3, told' = told
      PROVE  UNCHANGED Delivery!vars
  <2>1. \A id \in Letter, a \in Artefacts : Has(id, a)' <=> Has(id, a)
    BY <1>3 DEF Has, BackedUp
  <2> QED
    BY <1>3, <2>1, NothingHappens
<1>4. ASSUME NEW w \in Worker, pc[w] = "upload", Store(w), told' = told
      PROVE  [Delivery!Next]_(Delivery!vars)
  <2>1. PICK job \in Job : Write(Target(job), Made(job))
    BY <1>1, <1>4, UploadWrites
  <2>2. \A id \in Letter, a \in Artefacts :
          Has(id, a)' <=> Has(id, a) \/ (id = job.id /\ Adds(job, a))
    BY <1>1, <2>1, StoreMaps
  <2>3. CASE job.task \in {SanitiseTask, CreateTask}
    <3>1. job.id \in Letter
      BY <2>3, JobFacts DEF Letter
    <3>2. PICK artefact \in Artefacts : \A a \in Artefacts : Adds(job, a) <=> a = artefact
      BY <2>3, TasksDiffer DEF Adds, Artefacts
    <3>3. \A id \in Letter, a \in Artefacts :
            Has(id, a)' <=> Has(id, a) \/ (id = job.id /\ a = artefact)
      BY <2>2, <3>2
    <3>4. Delivery!Next
      BY <1>4, <3>1, <3>3, SomethingStored
    <3> QED
      BY <3>4
  <2>4. CASE job.task \notin {SanitiseTask, CreateTask}
    BY <1>4, <2>2, <2>4, NothingHappens DEF Adds
  <2> QED
    BY <2>3, <2>4
<1>5. ASSUME NEW i \in Uploaded, NEW f \in {Original(i), Absent},
             Write(Location(Backup, BackupKey(i)), f), told' = told
      PROVE  [Delivery!Next]_(Delivery!vars)
  <2>1. \A id \in Letter, a \in Artefacts :
          id # i \/ a # "original" => (Has(id, a)' <=> Has(id, a))
    BY <1>1, <1>5, BackupMaps
  <2>2. s3'[Location(Backup, BackupKey(i))] = f
    BY <1>1, <1>5, WriteAt, LocationsAreObjects
  <2>3. CASE i \notin Letter
    BY <1>5, <2>1, <2>3, NothingHappens
  <2>4. CASE i \in Letter /\ f = Original(i)
    <3>1. Has(i, "original")'
      BY <2>2, <2>4 DEF Has, BackedUp
    <3>2. "original" \in Artefacts
      BY DEF Artefacts
    <3>3. \A id \in Letter, a \in Artefacts :
            Has(id, a)' <=> Has(id, a) \/ (id = i /\ a = "original")
      BY <2>1, <3>1
    <3>4. Delivery!Next
      BY <1>5, <2>4, <3>2, <3>3, SomethingStored
    <3> QED
      BY <3>4
  <2>5. CASE i \in Letter /\ f = Absent
    <3>1. ~Has(i, "original")'
      BY <2>2, <2>5, FilesDiffer DEF Has, BackedUp
    <3> QED
      BY <1>5, <2>1, <2>5, <3>1, BackupGone
  <2> QED
    BY <2>3, <2>4, <2>5
<1>6. ASSUME NEW w \in Worker, CopyToBackup(w)
      PROVE  [Delivery!Next]_(Delivery!vars)
  <2>1. told' = told
    BY <1>6 DEF CopyToBackup
  <2> QED
    BY <1>1, <1>5, <1>6, <2>1, CopyWrites DEF Uploaded
<1>7. ASSUME NEW p \in PrecompiledLetter, ScanRemoved(p)
      PROVE  [Delivery!Next]_(Delivery!vars)
  <2>1. told' = told
    BY <1>7 DEF ScanRemoved
  <2> QED
    BY <1>1, <1>7, <2>1, ScanMaps, NothingHappens
<1>8. ASSUME NEW i \in Uploaded, BackupExpires(i)
      PROVE  [Delivery!Next]_(Delivery!vars)
  BY <1>5, <1>8 DEF BackupExpires, Write
<1> QED
  BY <1>2, <1>3, <1>4, <1>6, <1>7, <1>8, StepCases

(* At first nothing of a letter is stored but what was uploaded.           *)
LEMMA InitDelivers ==
  ASSUME Init
  PROVE  Delivery!Init
<1>1. PICK kept \in SUBSET Attachment : s3 = InitialObjects(kept)
  BY DEF Init
<1> DEFINE Stored(bucket, key, f) == [at |-> Location(bucket, key), file |-> f]
           objects ==
             {Stored(Scan, Filename[p], Original(p)) : p \in PrecompiledLetter}
               \cup {Stored(Backup, BackupKey(a), Original(a)) : a \in Attachment}
               \cup {Stored(LetterAttachment, AttachmentKey(a), Sanitised(a)) :
                       a \in kept}
<1>2. s3 = [at \in Object |->
              IF \E o \in objects : o.at = at
              THEN (CHOOSE o \in objects : o.at = at).file
              ELSE Absent]
  BY <1>1 DEF InitialObjects
<1>3. ASSUME NEW at \in Object, s3[at] # Absent
      PROVE  \/ at.bucket \in {Scan, LetterAttachment}
             \/ \E a \in Attachment : at = Location(Backup, BackupKey(a))
  <2>1. PICK o \in objects : o.at = at
    BY <1>2, <1>3
  <2> QED
    BY <2>1 DEF Location
<1>4. ASSUME NEW id \in Letter, NEW a \in Artefacts
      PROVE  ~Has(id, a)
  <2> HIDE DEF objects
  <2>1. ASSUME NEW b \in {SanitisedLetter, LettersPdf, TestLetters, InvalidPdf},
               NEW k, Location(b, k) \in Object
        PROVE  s3[Location(b, k)] = Absent
    <3>1. Location(b, k).bucket \notin {Scan, LetterAttachment, Backup}
      BY <2>1, BucketsDiffer, LocationFields
    <3> QED
      BY <1>3, <2>1, <3>1, LocationFields
  <2>2. ~(id \in Uploaded /\ BackedUp(id))
    <3> SUFFICES ASSUME id \in Uploaded, BackedUp(id)
                 PROVE  FALSE
      OBVIOUS
    <3>1. /\ Location(Backup, BackupKey(id)) \in Object
          /\ s3[Location(Backup, BackupKey(id))] # Absent
      BY LocationsAreObjects, FilesDiffer DEF BackedUp
    <3>2. Location(Backup, BackupKey(id)).bucket \notin {Scan, LetterAttachment}
      BY BucketsDiffer, LocationFields
    <3>3. PICK i \in Attachment :
            Location(Backup, BackupKey(id)) = Location(Backup, BackupKey(i))
      BY <1>3, <3>1, <3>2
    <3>4. id = i
      BY <3>3, LocationsEqual DEF BackupKey
    <3> QED
      BY <3>4, IdsAssumption
  <2>3. \A b \in {SanitisedLetter, LettersPdf, TestLetters} :
          s3[Location(b, Filename[id])] = Absent
    BY <2>1, LocationsAreObjects, BucketsAreBuckets
  <2>4. id \in TemplatedLetter =>
          s3[Location(InvalidPdf, RemoveFolder(Filename[id]))] = Absent
    BY <2>1, LocationsAreObjects
  <2> QED
    BY <2>2, <2>3, <2>4, FilesDiffer DEF Has
<1>5. \A id \in Letter : StoredOf(id) = {}
  BY <1>4, StoredIs
<1>6. \A id \in Letter : {SaidBy(c) : c \in {d \in told : d.id = id}} = {}
  BY DEF Init
<1> QED
  BY <1>5, <1>6 DEF Delivery!Init

(* ImplementsDelivery for every instance: whatever is killed, lost,        *)
(* repeated or reordered, tasks.py tells the API about a letter only while *)
(* what the API goes on to use is in S3, and never takes a verdict back.   *)
THEOREM DeliveryImplemented == Spec => ImplementsDelivery
<1>1. Init => Delivery!Init
  BY InitDelivers
<1>2. DeliveryInv /\ VerdictsAgree' /\ [Next]_vars
        => [Delivery!Next]_(Delivery!vars)
  <2> SUFFICES ASSUME DeliveryInv, VerdictsAgree', [Next]_vars
               PROVE  [Delivery!Next]_(Delivery!vars)
    OBVIOUS
  <2>1. CASE Next
    BY <2>1, StepDelivers
  <2>2. CASE UNCHANGED vars
    <3>1. \A id \in Letter, a \in Artefacts : Has(id, a)' <=> Has(id, a)
      BY <2>2 DEF vars, Has, BackedUp
    <3>2. told' = told
      BY <2>2 DEF vars
    <3> QED
      BY <3>1, <3>2, NothingHappens
  <2> QED
    BY <2>1, <2>2
<1> QED
  BY <1>1, <1>2, DeliveryInvHolds, VerdictsAgreeHolds, PTL
     DEF Spec, ImplementsDelivery, Delivery!Spec

-----------------------------------------------------------------------------
(* What LetterDelivery comes to for the API.                               *)

(* Nothing but a backup is ever taken away, and what is said was checked   *)
(* against what was stored and said.                                       *)
LEMMA ReliableStep ==
  ASSUME Delivery!TypeOK, Delivery!Reliable, [Delivery!Next]_(Delivery!vars)
  PROVE  Delivery!TypeOK' /\ Delivery!Reliable'
<1> DEFINE S == [id \in Letter |-> StoredOf(id)]
           T == [id \in Letter |-> SaidOf(id)]
<1>1. PICK stored, said : stored = S /\ said = T
  OBVIOUS
<1>2. PICK newStored, newSaid : newStored = S' /\ newSaid = T'
  OBVIOUS
<1>3. /\ stored \in [Letter -> SUBSET Delivery!Artefact]
      /\ said \in [Letter -> SUBSET Delivery!Saying]
  BY <1>1 DEF Delivery!TypeOK, SaidOf
<1>4. \A id \in Letter : \A a \in said[id] :
        /\ Delivery!Needs(a) \ {"original"} \subseteq stored[id]
        /\ \A b \in said[id] : ~Delivery!Contradict(a, b)
  BY <1>1 DEF Delivery!Reliable, SaidOf
<1>5. \/ newStored = stored /\ newSaid = said
      \/ \E id \in Letter :
           \/ /\ newSaid = said
              /\ \/ \E artefact \in Delivery!Artefact :
                      newStored = [stored EXCEPT ![id] = @ \cup {artefact}]
                 \/ newStored = [stored EXCEPT ![id] = @ \ {"original"}]
           \/ /\ newStored = stored
              /\ \E a \in Delivery!Saying :
                   /\ newSaid = [said EXCEPT ![id] = @ \cup {a}]
                   /\ Delivery!Needs(a) \subseteq stored[id]
                   /\ \A b \in said[id] : ~Delivery!Contradict(a, b)
  BY <1>1, <1>2 DEF Delivery!Next, Delivery!Store, Delivery!Expire, Delivery!Tell,
     Delivery!vars, SaidOf
<1> HIDE DEF S, T
<1>6. /\ newStored \in [Letter -> SUBSET Delivery!Artefact]
      /\ newSaid \in [Letter -> SUBSET Delivery!Saying]
  BY <1>3, <1>5
<1>7. ASSUME NEW id \in Letter
      PROVE  \A a \in newSaid[id] :
               /\ Delivery!Needs(a) \ {"original"} \subseteq newStored[id]
               /\ \A b \in newSaid[id] : ~Delivery!Contradict(a, b)
  <2>1. stored[id] \ {"original"} \subseteq newStored[id]
    BY <1>3, <1>5
  <2>2. \/ newSaid[id] = said[id]
        \/ \E a : /\ newSaid[id] = said[id] \cup {a}
                  /\ Delivery!Needs(a) \subseteq stored[id]
                  /\ \A b \in said[id] : ~Delivery!Contradict(a, b)
    BY <1>3, <1>5
  <2>3. \A a \in said[id] :
          /\ Delivery!Needs(a) \ {"original"} \subseteq stored[id]
          /\ \A b \in said[id] : ~Delivery!Contradict(a, b)
    BY <1>4
  <2>4. \A a \in newSaid[id] : Delivery!Needs(a) \ {"original"} \subseteq newStored[id]
    BY <2>1, <2>2, <2>3
  <2>5. \A a, b \in newSaid[id] : ~Delivery!Contradict(a, b)
    BY <2>2, <2>3 DEF Delivery!Contradict
  <2> QED
    BY <2>4, <2>5
<1>8. Delivery!TypeOK'
  BY <1>2, <1>6 DEF Delivery!TypeOK, S, T, SaidOf
<1>9. Delivery!Reliable'
  BY <1>2, <1>7 DEF Delivery!Reliable, S, T, SaidOf
<1> QED
  BY <1>8, <1>9

(* Every behaviour LetterDelivery allows is one the API can go by.         *)
THEOREM DeliveryIsReliable ==
  Delivery!Spec => [](Delivery!TypeOK /\ Delivery!Reliable)
<1>1. Delivery!Init => Delivery!TypeOK /\ Delivery!Reliable
  BY DEF Delivery!Init, Delivery!TypeOK, Delivery!Reliable
<1>2. Delivery!TypeOK /\ Delivery!Reliable /\ [Delivery!Next]_(Delivery!vars)
        => Delivery!TypeOK' /\ Delivery!Reliable'
  BY ReliableStep
<1> QED
  BY <1>1, <1>2, PTL DEF Delivery!Spec

(* And so the tasks of tasks.py are, which is what the refinement is for.  *)
THEOREM TasksAreReliable == Spec => []Delivery!Reliable
BY DeliveryImplemented, DeliveryIsReliable, PTL DEF ImplementsDelivery

===========================================================================
