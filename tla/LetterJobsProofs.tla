-------------------------- MODULE LetterJobsProofs --------------------------
(***************************************************************************)
(* What becomes of a job of LetterTasks, for every value of the constants: *)
(* none just disappears, none is done twice unless it is delivered twice,  *)
(* and one that makes a letter again finds it as good as it was.           *)
(***************************************************************************)
EXTENDS LetterTasksProofs

-----------------------------------------------------------------------------
(* No job is lost.  What a step does to one job is followed from the queue *)
(* to a process, and from there back to the queue, to its effect or to the *)
(* trouble that ended it.                                                  *)

(* What has become of a job that was sent.                                 *)
Accounted(j) == Pending(j) \/ Done(j) \/ trouble[j] # {}

(* A job never stops being done, and trouble is not forgotten.             *)
LEMMA DoneStays ==
  ASSUME Inv, Next, NEW j \in Job, Done(j)
  PROVE  Done(j)'
<1>1. told \subseteq told'
  BY DEF Next, Environment, Request, Redeliver, ScanRemoved, BackupExpires,
     Receive, Step, Crash, Download, SanitiseAccepts, SanitiseRejects, Prepare,
     Retry, GiveUp, UploadSanitised, UploadTemplated, UploadRecreated,
     CopyToBackup, Send, BotoError, Raise
<1>2. CASE Recreates(j)
  <2>1. Made(j) = Sanitised(j.id)
    BY <1>2, TasksDiffer DEF Recreates, Made
  <2>2. IsStored(j)
    BY <1>2, <2>1 DEF Done, IsStored
  <2>3. IsStored(j)'
    BY <2>2, StepWrites, StoredStays DEF Inv
  <2> QED
    BY <1>2, <2>1, <2>3 DEF Done, IsStored
<1>3. CASE ~Recreates(j)
  BY <1>1, <1>3 DEF Done
<1> QED
  BY <1>2, <1>3

LEMMA TroubleStays ==
  ASSUME Inv, Next, NEW j \in Job, trouble[j] # {}
  PROVE  trouble'[j] # {}
<1>1. ASSUME NEW w \in Worker, NEW ending, FinishWith(w, ending)
      PROVE  trouble'[j] # {}
  BY <1>1 DEF FinishWith, Inv, TypeOK
<1>2. trouble' = trouble \/ \E w \in Worker, ending \in Trouble :
                              FinishWith(w, ending)
  BY DEF Trouble, Next, Environment, Request, Redeliver, ScanRemoved,
     BackupExpires, Receive, Step, Crash, Download, SanitiseAccepts,
     SanitiseRejects, Prepare, Retry, GiveUp, UploadSanitised, UploadTemplated,
     UploadRecreated, CopyToBackup, Send, BotoError, Raise
<1> QED
  BY <1>1, <1>2

(* A message waits until a process takes it.                               *)
LEMMA QueuedStaysPending ==
  ASSUME Inv, Next, NEW m \in Message, queue[m] > 0
  PROVE  Pending(m.job)'
<1> USE DEF Inv, TypeOK, QueueTypeOK
<1>1. ASSUME queue'[m] > 0
      PROVE  Pending(m.job)'
  BY <1>1 DEF Pending, Queued, Runs
<1>2. ASSUME queue' = queue \/ \E n \in Message : queue' = Put(queue, n)
      PROVE  queue'[m] > 0
  BY <1>2 DEF Put
<1>3. ASSUME NEW w \in Worker, NEW n \in Message, Receive(w, n)
      PROVE  Pending(m.job)'
  <2>1. CASE n = m
    <3>1. msg'[w] = m /\ pc'[w] # "idle"
      BY <1>3, <2>1 DEF Receive, GoTo, ProcessTypeOK
    <3> QED
      BY <3>1 DEF Pending, Queued, Runs, JobOf
  <2>2. CASE n # m
    <3>1. queue'[m] = queue[m]
      BY <1>3, <2>2 DEF Receive, Take
    <3> QED
      BY <1>1, <3>1
  <2> QED
    BY <2>1, <2>2
<1>4. ASSUME NEW w \in Worker, Retry(w)
      PROVE  \E n \in Message : queue' = Put(queue, n)
  <2>1. msg[w] \in Message /\ msg[w].retries < MaxRetries
    BY <1>4, WorkingFacts DEF Retry
  <2>2. [msg[w] EXCEPT !.retries = @ + 1] \in Message
    BY <2>1, BoundsAssumption DEF Message
  <2> QED
    BY <1>4, <2>2 DEF Retry
<1>5. ASSUME NEW w \in Worker, Step(w) \/ Crash(w), ~Retry(w)
      PROVE  queue' = queue
  BY <1>5 DEF tasks, Step, Crash, Download, SanitiseAccepts, SanitiseRejects,
     Prepare, GiveUp, UploadSanitised, UploadTemplated, UploadRecreated,
     CopyToBackup, Send, BotoError, Raise
<1>6. CASE Environment
  <2>1. \A job \in Requests : [job |-> job, retries |-> 0] \in Message
    BY RequestFacts
  <2> QED
    BY <1>1, <1>2, <1>6, <2>1
       DEF Environment, Request, Redeliver, ScanRemoved, BackupExpires, tasks
<1> QED
  BY <1>1, <1>2, <1>3, <1>4, <1>5, <1>6 DEF Next

(* Where the run of a job ends, the job has gone back to the queue, had    *)
(* its effect or met with trouble.                                         *)
LEMMA RunEndsAccounted ==
  ASSUME Inv, NEW w \in Worker, Step(w) \/ Crash(w), NEW j, j = JobOf(w)
  PROVE  Accounted(j)'
<1>1. /\ TypeOK /\ WorkOK(w) /\ pc[w] # "idle"
      /\ j \in Job /\ pc[w] \in StepsOf(j.task) /\ msg[w] \in Message
  BY ProcessTyped, WorkingFacts DEF Inv
<1>2. ASSUME msg' = msg, NEW step, step # "idle", GoTo(w, step)
      PROVE  Accounted(j)'
  <2>1. pc'[w] # "idle"
    BY <1>1, <1>2 DEF GoTo, TypeOK, ProcessTypeOK
  <2> QED
    BY <1>2, <2>1 DEF Accounted, Pending, Queued, Runs, JobOf
<1>3. ASSUME NEW ending, FinishWith(w, ending)
      PROVE  Accounted(j)'
  <2>1. trouble'[j] # {}
    BY <1>1, <1>3 DEF FinishWith, TypeOK
  <2> QED
    BY <2>1 DEF Accounted
<1>4. CASE Retry(w)
  <2> DEFINE m == [msg[w] EXCEPT !.retries = @ + 1]
  <2>1. m \in Message /\ m.job = j
    BY <1>1, <1>4, BoundsAssumption DEF Retry, Message, JobOf
  <2>2. queue'[m] > 0
    BY <1>1, <1>4, <2>1 DEF Retry, Put, TypeOK, QueueTypeOK
  <2> QED
    BY <2>1, <2>2 DEF Accounted, Pending, Queued, Runs
<1>5. CASE UploadRecreated(w)
  <2>1. pc[w] = "upload" /\ Recreates(j) /\ Store(w)
    BY <1>5 DEF UploadRecreated
  <2>2. s3'[Target(j)] = Made(j)
    BY <2>1, StoreIsHarmless
  <2>3. Made(j) = Sanitised(j.id)
    BY <2>1, TasksDiffer DEF Recreates, Made
  <2> QED
    BY <2>1, <2>2, <2>3 DEF Accounted, Done
<1>6. CASE Send(w)
  <2>1. ~Recreates(j)
    BY <1>1, <1>6, StepFacts, TasksDiffer DEF Send, Recreates
  <2>2. TemplatedCallback(j.id) \in told'
          \/ SanitisedCallback(j.id, details[w]) \in told'
    BY <1>6 DEF Send
  <2>3. TemplatedCallback(j.id).id = j.id
    BY DEF TemplatedCallback, Callback
  <2>4. SanitisedCallback(j.id, details[w]).id = j.id
    BY DEF SanitisedCallback, Callback
  <2> QED
    BY <2>1, <2>2, <2>3, <2>4 DEF Accounted, Done
<1>7. CASE SanitiseRejects(w)
  BY <1>2, <1>3, <1>7 DEF SanitiseRejects
<1>8. CASE GiveUp(w) \/ BotoError(w) \/ Raise(w) \/ Crash(w)
  BY <1>3, <1>8 DEF GiveUp, BotoError, Raise, Crash
<1>9. CASE \/ Download(w) \/ SanitiseAccepts(w) \/ Prepare(w)
           \/ UploadSanitised(w) \/ UploadTemplated(w) \/ CopyToBackup(w)
  BY <1>2, <1>9 DEF Download, SanitiseAccepts, Prepare, UploadSanitised,
     UploadTemplated, CopyToBackup
<1> QED
  BY <1>4, <1>5, <1>6, <1>7, <1>8, <1>9 DEF Step

(* A job in the hands of a process stays there until its run ends.         *)
LEMMA RunningStaysAccounted ==
  ASSUME Inv, Next, NEW v \in Worker, pc[v] # "idle", NEW j, j = JobOf(v)
  PROVE  Accounted(j)'
<1>1. ASSUME pc'[v] = pc[v], msg'[v] = msg[v]
      PROVE  Accounted(j)'
  BY <1>1 DEF Accounted, Pending, Queued, Runs, JobOf
<1>2. CASE Environment
  BY <1>1, <1>2 DEF Environment, Request, Redeliver, ScanRemoved,
     BackupExpires, process
<1>3. ASSUME NEW w \in Worker, NEW m \in Message, Receive(w, m)
      PROVE  Accounted(j)'
  <2>1. v # w
    BY <1>3 DEF Receive
  <2> QED
    BY <1>1, <1>3, <2>1, ReceiveTyped DEF OnlyProcess
<1>4. ASSUME NEW w \in Worker, Step(w) \/ Crash(w)
      PROVE  Accounted(j)'
  <2>1. CASE v = w
    BY <1>4, <2>1, RunEndsAccounted
  <2>2. CASE v # w
    BY <1>1, <1>4, <2>2, ProcessTyped DEF OnlyProcess
  <2> QED
    BY <2>1, <2>2
<1> QED
  BY <1>2, <1>3, <1>4 DEF Next

(* A job is queued, running, done or in trouble, once it has been sent:    *)
(* nothing in tasks.py drops one without a trace.                          *)
THEOREM NoSilentLossHolds == Spec => []NoSilentLoss
<1>1. Init => NoSilentLoss
  BY DEF Init, NoSilentLoss
<1>2. ASSUME Inv, NoSilentLoss, [Next]_vars
      PROVE  NoSilentLoss'
  <2>1. CASE UNCHANGED vars
    BY <1>2, <2>1 DEF vars, NoSilentLoss, Pending, Queued, Runs, Done, JobOf
  <2>2. ASSUME Next, NEW j \in requested'
        PROVE  Accounted(j)'
    <3>1. requested \subseteq Requests /\ Requests \subseteq Job
      BY <1>2, RequestsAssumption DEF Inv, TypeOK, QueueTypeOK
    <3>2. CASE j \in requested
      <4>1. Accounted(j) /\ j \in Job
        BY <1>2, <3>1, <3>2 DEF NoSilentLoss, Accounted
      <4>2. CASE Pending(j)
        BY <1>2, <2>2, <4>2, QueuedStaysPending, RunningStaysAccounted
           DEF Pending, Queued, Runs, Accounted
      <4>3. CASE Done(j)
        BY <1>2, <2>2, <4>1, <4>3, DoneStays DEF Accounted
      <4>4. CASE trouble[j] # {}
        BY <1>2, <2>2, <4>1, <4>4, TroubleStays DEF Accounted
      <4> QED
        BY <4>1, <4>2, <4>3, <4>4 DEF Accounted
    <3>3. CASE j \notin requested
      <4>1. PICK job \in Requests : Request(job)
        BY <2>2, <3>3 DEF Next, Environment, Redeliver, ScanRemoved,
           BackupExpires, tasks, Receive, Step, Crash, Download,
           SanitiseAccepts, SanitiseRejects, Prepare, Retry, GiveUp,
           UploadSanitised, UploadTemplated, UploadRecreated, CopyToBackup,
           Send, BotoError, Raise
      <4> DEFINE m == [job |-> job, retries |-> 0]
      <4>2. j = job
        BY <2>2, <3>3, <4>1 DEF Request
      <4>3. m \in Message /\ m.job = j
        BY <4>2, RequestFacts
      <4>4. queue'[m] > 0
        BY <1>2, <4>1, <4>3 DEF Request, Put, Inv, TypeOK, QueueTypeOK
      <4> QED
        BY <4>3, <4>4 DEF Accounted, Pending, Queued, Runs
    <3> QED
      BY <3>2, <3>3
  <2> QED
    BY <1>2, <2>1, <2>2 DEF NoSilentLoss, Accounted
<1> QED
  BY <1>1, <1>2, InvHolds, PTL DEF Spec

-----------------------------------------------------------------------------
(* Where jobs and callbacks come from.                                     *)

(* Whatever is queued or running was asked for, and may be; a callback is  *)
(* about the letter of a job that was asked for and reports, and is no     *)
(* better than the letter.                                                 *)
PendingOK(j) == Pending(j) => j \in requested /\ MayRequest(j)

ReportOK(c) ==
  \E j \in requested :
    /\ j.id = c.id /\ ~Recreates(j)
    /\ j.task = SanitiseTask /\ c.validation_status = "passed" => Accepts(j)

JobsOK ==
  /\ \A j \in Job : PendingOK(j)
  /\ \A c \in told : ReportOK(c)

(* At most one of the jobs reports on a letter.                            *)
LEMMA OneReporter ==
  ASSUME NEW i \in Requests, NEW j \in Requests, i.id = j.id,
         ~Recreates(i), ~Recreates(j)
  PROVE  i = j
<1>1. i \in Job /\ j \in Job
  BY RequestsAssumption
<1>2. i.task \in {SanitiseTask, CreateTask} /\ j.task \in {SanitiseTask, CreateTask}
  BY <1>1, JobFacts DEF Recreates
<1>3. CASE i.task = SanitiseTask /\ j.task = SanitiseTask
  BY <1>3, RequestsAssumption
<1>4. CASE i.task = CreateTask /\ j.task = CreateTask
  <2>1. ASSUME NEW j0 \in Job, j0.task = CreateTask
        PROVE  j0 = [task |-> CreateTask, id |-> j0.id,
                     allow_international |-> FALSE]
    <3>1. j0 \in [task : {CreateTask}, id : TemplatedLetter,
                  allow_international : {FALSE}]
      BY <2>1, TasksDiffer DEF Job
    <3> QED
      BY <3>1
  <2> QED
    BY <1>1, <1>4, <2>1
<1>5. i.task = j.task
  <2>1. \A t \in TemplatedLetter : t \notin PrecompiledLetter
    BY IdsAssumption
  <2> QED
    BY <1>1, <1>2, <2>1, JobFacts, TasksDiffer
<1> QED
  BY <1>2, <1>3, <1>4, <1>5

(* Only a request adds to requested, and what is told stays told.          *)
LEMMA OnlyGrows ==
  ASSUME Next
  PROVE  requested \subseteq requested' /\ told \subseteq told'
BY DEF Next, Environment, Request, Redeliver, ScanRemoved, BackupExpires,
   Receive, Step, Crash, Download, SanitiseAccepts, SanitiseRejects, Prepare,
   Retry, GiveUp, UploadSanitised, UploadTemplated, UploadRecreated,
   CopyToBackup, Send, BotoError, Raise, tasks, Finish, FinishWith

(* The step of a process carries on with its message, or lets go of it;    *)
(* only a retry adds to the queue then, and only Send to what is told.     *)
LEMMA StepOfJob ==
  ASSUME Inv, NEW w \in Worker, Step(w) \/ Crash(w)
  PROVE  /\ pc[w] # "idle" /\ OnlyProcess(w)
         /\ msg'[w] = msg[w] \/ pc'[w] = "idle"
         /\ requested' = requested /\ redelivered' = redelivered
         /\ Retry(w) \/ queue' = queue
         /\ Send(w) \/ told' = told
<1>1. pc[w] # "idle" /\ OnlyProcess(w)
  BY ProcessTyped
<1>2. /\ requested' = requested /\ redelivered' = redelivered
      /\ Retry(w) \/ queue' = queue
      /\ Send(w) \/ told' = told
  BY DEF Step, Crash, Download, SanitiseAccepts, SanitiseRejects, Prepare,
     Retry, GiveUp, UploadSanitised, UploadTemplated, UploadRecreated,
     CopyToBackup, Send, BotoError, Raise, tasks
<1>3. ASSUME Finish(w)
      PROVE  pc'[w] = "idle"
  BY <1>3 DEF Finish, GoTo, Inv, TypeOK, ProcessTypeOK
<1>4. msg' = msg \/ Finish(w)
  BY DEF Step, Crash, Download, SanitiseAccepts, SanitiseRejects, Prepare,
     Retry, GiveUp, UploadSanitised, UploadTemplated, UploadRecreated,
     CopyToBackup, Send, BotoError, Raise, FinishWith
<1> QED
  BY <1>1, <1>2, <1>3, <1>4

(* The queue and the processes, after such a step.                         *)
LEMMA StepMoves ==
  ASSUME Inv, NEW w \in Worker, Step(w) \/ Crash(w), NEW j \in Job
  PROVE  /\ Runs(j)' \subseteq Runs(j)
         /\ ~Retry(w) => Queued(j)' = Queued(j)
         /\ Retry(w) =>
              LET again == [msg[w] EXCEPT !.retries = @ + 1]
              IN  /\ again \in Message /\ again.job = JobOf(w)
                  /\ queue' = [queue EXCEPT ![again] = @ + 1]
                  /\ Queued(j)' =
                       Queued(j) \cup {m \in {again} : m.job = j}
                  /\ Runs(j)' = Runs(j) \ {w}
<1>1. /\ TypeOK /\ pc[w] # "idle" /\ OnlyProcess(w)
      /\ msg'[w] = msg[w] \/ pc'[w] = "idle"
      /\ Retry(w) \/ queue' = queue
  BY StepOfJob DEF Inv
<1>2. Runs(j)' \subseteq Runs(j)
  <2>1. ASSUME NEW v \in Worker, pc'[v] # "idle", msg'[v].job = j
        PROVE  pc[v] # "idle" /\ msg[v].job = j
    BY <1>1, <2>1 DEF OnlyProcess
  <2> QED
    BY <2>1 DEF Runs, JobOf
<1>3. CASE Retry(w)
  <2> DEFINE again == [msg[w] EXCEPT !.retries = @ + 1]
  <2>1. again \in Message /\ again.job = JobOf(w)
    BY <1>1, <1>3, WorkingFacts, BoundsAssumption DEF Retry, Message, JobOf
  <2>2. queue' = [queue EXCEPT ![again] = @ + 1]
    BY <1>3 DEF Retry, Put
  <2>3. pc'[w] = "idle"
    BY <1>1, <1>3 DEF Retry, Finish, GoTo, TypeOK, ProcessTypeOK
  <2> HIDE DEF again
  <2>4. Queued(j)' = Queued(j) \cup {m \in {again} : m.job = j}
    <3>1. \A m \in Message :
            queue'[m] > 0 <=> queue[m] > 0 \/ m = again
      BY <1>1, <2>1, <2>2 DEF TypeOK, QueueTypeOK
    <3> QED
      BY <2>1, <3>1 DEF Queued
  <2>5. Runs(j)' = Runs(j) \ {w}
    <3>1. \A v \in Worker \ {w} : pc'[v] = pc[v] /\ msg'[v] = msg[v]
      BY <1>1 DEF OnlyProcess
    <3> QED
      BY <2>3, <3>1 DEF Runs, JobOf
  <2> QED
    BY <1>2, <1>3, <2>1, <2>2, <2>4, <2>5 DEF again
<1>4. CASE ~Retry(w)
  BY <1>1, <1>2, <1>4 DEF Queued
<1> QED
  BY <1>3, <1>4

(* What is queued or running was before, or has just been asked for.       *)
LEMMA PendingFrom ==
  ASSUME Inv, Next, NEW j \in Job, Pending(j)'
  PROVE  Pending(j) \/ (j \in Requests /\ Request(j))
<1> USE DEF Inv, TypeOK, QueueTypeOK
<1>1. CASE Environment
  <2>1. ASSUME NEW job \in Requests, Request(job)
        PROVE  Pending(j) \/ (j \in Requests /\ Request(j))
    <3> DEFINE new == [job |-> job, retries |-> 0]
    <3>1. new \in Message /\ new.job = job
      BY RequestFacts
    <3>2. \A m \in Message : queue'[m] > 0 => queue[m] > 0 \/ m = new
      BY <2>1, <3>1 DEF Request, Put
    <3>3. pc' = pc /\ msg' = msg
      BY <2>1 DEF Request, process
    <3> HIDE DEF new
    <3> QED
      BY <2>1, <3>1, <3>2, <3>3 DEF Pending, Queued, Runs, JobOf
  <2>2. ASSUME NEW m \in Message, Redeliver(m)
        PROVE  Pending(j)
    <3>1. \A n \in Message : queue'[n] > 0 => queue[n] > 0
      BY <2>2 DEF Redeliver, Put
    <3>2. pc' = pc /\ msg' = msg
      BY <2>2 DEF Redeliver, process
    <3> QED
      BY <3>1, <3>2 DEF Pending, Queued, Runs, JobOf
  <2>3. CASE UNCHANGED <<tasks, process>>
    BY <2>3 DEF tasks, process, Pending, Queued, Runs, JobOf
  <2> QED
    BY <1>1, <2>1, <2>2, <2>3 DEF Environment, ScanRemoved, BackupExpires
<1>2. ASSUME NEW w \in Worker, NEW m \in Message, Receive(w, m)
      PROVE  Pending(j)
  <2>1. \A n \in Message : queue'[n] > 0 => queue[n] > 0
    BY <1>2 DEF Receive, Take
  <2>2. queue[m] > 0 /\ msg'[w] = m /\ OnlyProcess(w)
    BY <1>2, ReceiveTyped DEF Receive, ProcessTypeOK
  <2>3. ASSUME NEW v \in Worker, pc'[v] # "idle", msg'[v].job = j
        PROVE  Pending(j)
    <3>1. CASE v = w
      BY <2>2, <2>3, <3>1 DEF Pending, Queued
    <3>2. CASE v # w
      BY <2>2, <2>3, <3>2 DEF Pending, Runs, JobOf, OnlyProcess
    <3> QED
      BY <3>1, <3>2
  <2> QED
    BY <2>1, <2>3 DEF Pending, Queued, Runs, JobOf
<1>3. ASSUME NEW w \in Worker, Step(w) \/ Crash(w)
      PROVE  Pending(j)
  <2>1. pc[w] # "idle"
    BY <1>3, StepOfJob
  <2>2. w \in Runs(j) \/ JobOf(w) # j
    BY <2>1 DEF Runs
  <2> DEFINE again == [msg[w] EXCEPT !.retries = @ + 1]
  <2>3. /\ Runs(j)' \subseteq Runs(j)
        /\ ~Retry(w) => Queued(j)' = Queued(j)
        /\ Retry(w) => /\ again.job = JobOf(w)
                       /\ Queued(j)' = Queued(j) \cup {m \in {again} : m.job = j}
    BY <1>3, StepMoves
  <2> HIDE DEF again
  <2> QED
    BY <2>2, <2>3 DEF Pending
<1> QED
  BY <1>1, <1>2, <1>3 DEF Next

(* A new callback is about the letter of the job that sends it.            *)
LEMMA SentReport ==
  ASSUME Inv, JobsOK, NEW w \in Worker, Send(w), NEW c \in told', c \notin told
  PROVE  /\ JobOf(w) \in requested /\ ~Recreates(JobOf(w))
         /\ c.id = JobOf(w).id /\ told' = told \cup {c}
         /\ JobOf(w).task = SanitiseTask /\ c.validation_status = "passed" =>
              Accepts(JobOf(w))
<1> DEFINE job == JobOf(w)
<1>1. /\ pc[w] = "send" /\ WorkOK(w) /\ job \in Job
      /\ job.task \in {SanitiseTask, CreateTask}
  BY WorkingFacts, StepFacts, JobFacts DEF Inv, Send
<1>2. job \in requested /\ ~Recreates(job)
  <2>1. w \in Runs(job)
    BY <1>1 DEF Runs
  <2> QED
    BY <1>1, <2>1, TasksDiffer DEF JobsOK, PendingOK, Pending, Recreates
<1>3. c = IF job.task = CreateTask THEN TemplatedCallback(job.id)
          ELSE SanitisedCallback(job.id, details[w])
  BY DEF Send
<1>4. told' = told \cup {c}
  BY <1>3 DEF Send
<1>5. c.id = job.id
  BY <1>3 DEF TemplatedCallback, SanitisedCallback, Callback
<1>6. ASSUME job.task = SanitiseTask, c.validation_status = "passed"
      PROVE  Accepts(job)
  <2>1. c = SanitisedCallback(job.id, details[w])
    BY <1>3, <1>6, TasksDiffer
  <2>2. details[w].message = NULL
    BY <1>6, <2>1 DEF SanitisedCallback, Callback
  <2>3. details[w] \in ResultsFor(job, Doc[job.id])
    BY <1>1, <1>6 DEF WorkOK
  <2> QED
    BY <2>2, <2>3, AcceptedResult
<1> QED
  BY <1>2, <1>4, <1>5, <1>6

LEMMA JobsPreserved ==
  ASSUME Inv, JobsOK, [Next]_vars
  PROVE  JobsOK'
<1>1. CASE UNCHANGED vars
  BY <1>1 DEF vars, JobsOK, PendingOK, ReportOK, Pending, Queued, Runs, JobOf,
     MayRequest
<1>2. CASE Next
  <2>1. requested \subseteq requested' /\ told \subseteq told'
    BY <1>2, OnlyGrows
  <2>2. ASSUME NEW j \in Job, Pending(j)'
        PROVE  j \in requested' /\ MayRequest(j)'
    <3>1. CASE Pending(j)
      <4>1. j \in requested /\ MayRequest(j)
        BY <3>1 DEF JobsOK, PendingOK
      <4> QED
        BY <2>1, <4>1 DEF MayRequest
    <3>2. CASE Request(j)
      BY <2>1, <3>2 DEF Request, MayRequest
    <3> QED
      BY <1>2, <2>2, <3>1, <3>2, PendingFrom
  <2>3. ASSUME NEW c \in told'
        PROVE  ReportOK(c)'
    <3>1. CASE c \in told
      BY <2>1, <3>1 DEF JobsOK, ReportOK
    <3>2. CASE c \notin told
      <4>1. PICK w \in Worker : Send(w)
        <5>1. CASE Environment
          BY <2>3, <3>2, <5>1
             DEF Environment, Request, Redeliver, ScanRemoved, BackupExpires
        <5>2. ASSUME NEW w \in Worker, Step(w) \/ Crash(w)
              PROVE  Send(w)
          BY <2>3, <3>2, <5>2, StepOfJob
        <5> QED
          BY <1>2, <2>3, <3>2, <5>1, <5>2 DEF Next, Receive
      <4> DEFINE job == JobOf(w)
      <4>2. /\ job \in requested /\ ~Recreates(job) /\ c.id = job.id
            /\ job.task = SanitiseTask /\ c.validation_status = "passed" =>
                 Accepts(job)
        BY <2>3, <3>2, <4>1, SentReport
      <4>3. PICK j \in requested : j = job
        BY <4>2
      <4> QED
        BY <2>1, <4>2, <4>3 DEF ReportOK
    <3> QED
      BY <3>1, <3>2
  <2> QED
    BY <2>2, <2>3 DEF JobsOK, PendingOK
<1> QED
  BY <1>1, <1>2

(* Every job that waits or runs was asked for, and every callback is about *)
(* the letter of such a job.                                               *)
LEMMA JobsHold == Spec => []JobsOK
<1>1. Init => JobsOK
  BY DEF Init, JobsOK, PendingOK, Pending, Queued, Runs
<1>2. Inv /\ JobsOK /\ [Next]_vars => JobsOK'
  BY JobsPreserved
<1> QED
  BY <1>1, <1>2, InvHolds, PTL DEF Spec

(* A letter that is made again is the one that passed, and fails the       *)
(* checks only for an address abroad, when the permission has gone.        *)
THEOREM PassesAgainHolds == Spec => []PassesAgain
<1>1. ASSUME Inv, JobsOK, NEW w \in Worker, NEW job, NEW message, pc[w] = "sanitise",
             job = JobOf(w), job.task = RecreateLetterTask,
             message = Verdict(Doc[file[w].of], FALSE,
                               job.allow_international).message,
             message # NULL
      PROVE  /\ message = "cant-send-international-letters"
             /\ ~job.allow_international
             /\ \E first \in requested : /\ first.task = SanitiseTask
                                         /\ first.id = job.id
                                         /\ first.allow_international
  <2>1. job \in Job /\ job.id \in PrecompiledLetter /\ WorkOK(w)
          /\ job.allow_international \in BOOLEAN
    BY <1>1, WorkingFacts, JobFacts DEF Inv
  <2>2. file[w].of = job.id
    BY <1>1, <2>1 DEF WorkOK, Original
  <2>3. PICK c \in told : c.id = job.id /\ c.validation_status = "passed"
    <3>1. Pending(job)
      BY <1>1 DEF Pending, Runs
    <3>2. MayRequest(job)
      BY <1>1, <2>1, <3>1 DEF JobsOK, PendingOK
    <3> QED
      BY <1>1, <3>2 DEF MayRequest
  <2>4. PICK first \in requested :
          /\ first.id = job.id /\ ~Recreates(first)
          /\ first.task = SanitiseTask => Accepts(first)
    BY <1>1, <2>3 DEF JobsOK, ReportOK
  <2>5. first \in Job /\ first.allow_international \in BOOLEAN
    BY <1>1, RequestsAssumption, JobFacts DEF Inv, TypeOK, QueueTypeOK
  <2>6. first.task = SanitiseTask
    <3>1. job.id \notin TemplatedLetter
      BY <2>1, IdsAssumption
    <3> QED
      BY <2>4, <2>5, <3>1, JobFacts DEF Recreates
  <2>7. Verdict(Doc[job.id], FALSE, first.allow_international).message = NULL
    <3>1. (first.task = RecreateAttachmentTask) = FALSE
      BY <2>6, TasksDiffer
    <3> QED
      BY <2>4, <2>6, <3>1 DEF Accepts
  <2>8. Doc[job.id] \in Document
    BY <2>1, LettersAssumption DEF Uploaded
  <2>9. Verdict(Doc[job.id], FALSE, job.allow_international).message # NULL
    BY <1>1, <2>2
  <2>10. /\ first.allow_international /\ ~job.allow_international
         /\ Verdict(Doc[job.id], FALSE, job.allow_international).message
              = "cant-send-international-letters"
    BY <2>1, <2>5, <2>7, <2>8, <2>9, PermissionDecides
  <2> QED
    BY <1>1, <2>2, <2>4, <2>6, <2>10
<1>2. Inv /\ JobsOK => PassesAgain
  BY <1>1 DEF PassesAgain
<1> QED
  BY <1>2, InvHolds, JobsHold, PTL

-----------------------------------------------------------------------------
(* Nothing is done twice that is not delivered twice.                      *)

(* A job is in one place at most, and is over when it has reported.        *)
OnePlace(j) ==
  /\ \A m, n \in Queued(j) : m = n /\ queue[m] = 1
  /\ \A v, w \in Runs(j) : v = w
  /\ Queued(j) = {} \/ Runs(j) = {}
  /\ Pending(j) /\ ~Recreates(j) => ~Done(j)

(* Whether a job that reports has is a matter of what was told.            *)
LEMMA DoneIfTold ==
  ASSUME NEW j \in Job, ~Recreates(j)
  PROVE  /\ Done(j) = \E c \in told : c.id = j.id
         /\ Done(j)' = \E c \in told' : c.id = j.id
BY DEF Done

(* A job keeps its place when no copy of it is added and nothing is told.  *)
LEMMA OnePlaceKept ==
  ASSUME Inv, NEW j \in Job, OnePlace(j), told' = told,
         Queued(j)' = Queued(j), \A m \in Queued(j) : queue'[m] = queue[m],
         Runs(j)' \subseteq Runs(j)
  PROVE  OnePlace(j)'
<1>1. Pending(j)' => Pending(j)
  BY DEF Pending
<1>2. ~Recreates(j) => Done(j)' = Done(j)
  BY DoneIfTold
<1>3. /\ \A m, n \in Queued(j)' : m = n /\ queue'[m] = 1
      /\ \A v, w \in Runs(j)' : v = w
      /\ Queued(j)' = {} \/ Runs(j)' = {}
  BY DEF OnePlace
<1>4. Pending(j)' /\ ~Recreates(j) => ~Done(j)'
  BY <1>1, <1>2 DEF OnePlace
<1> QED
  BY <1>3, <1>4 DEF OnePlace

(* What a request adds is the first copy of its job.                       *)
LEMMA RequestPlaces ==
  ASSUME Inv, JobsOK, \A j \in requested : OnePlace(j), NEW job \in Requests,
         Request(job), NEW i \in requested'
  PROVE  OnePlace(i)'
<1> DEFINE new == [job |-> job, retries |-> 0]
<1>1. new \in Message /\ new.job = job /\ job \in Job
  BY RequestFacts
<1>2. /\ job \notin requested /\ requested' = requested \cup {job}
      /\ queue' = [queue EXCEPT ![new] = @ + 1]
      /\ pc' = pc /\ msg' = msg /\ told' = told
  BY DEF Request, Put, process
<1>3. queue \in [Message -> Nat] /\ requested \subseteq Requests
        /\ Requests \subseteq Job
  BY RequestsAssumption DEF Inv, TypeOK, QueueTypeOK
<1> HIDE DEF new
<1>4. Runs(i)' = Runs(i)
  BY <1>2 DEF Runs, JobOf
<1>5. CASE i = job
  <2>1. Queued(job) = {} /\ Runs(job) = {}
    BY <1>1, <1>2 DEF JobsOK, PendingOK, Pending
  <2>2. queue[new] = 0
    BY <1>1, <1>3, <2>1 DEF Queued
  <2>3. Queued(job)' = {new} /\ queue'[new] = 1
    BY <1>1, <1>2, <1>3, <2>1, <2>2 DEF Queued
  <2>4. ASSUME ~Recreates(job), Done(job)'
        PROVE  FALSE
    <3>1. PICK c \in told : c.id = job.id
      BY <1>1, <1>2, <2>4, DoneIfTold
    <3>2. PICK first \in requested : first.id = job.id /\ ~Recreates(first)
      BY <3>1 DEF JobsOK, ReportOK
    <3> QED
      BY <1>2, <1>3, <2>4, <3>2, OneReporter
  <2> QED
    BY <1>4, <1>5, <2>1, <2>3, <2>4 DEF OnePlace
<1>6. CASE i # job
  <2>1. i \in requested /\ i \in Job
    BY <1>2, <1>3, <1>6
  <2>2. \A m \in Message : m.job = i => queue'[m] = queue[m]
    BY <1>1, <1>2, <1>3, <1>6
  <2>3. Queued(i)' = Queued(i) /\ \A m \in Queued(i) : queue'[m] = queue[m]
    BY <2>2 DEF Queued
  <2> QED
    BY <1>2, <1>4, <2>1, <2>3, OnePlaceKept
<1> QED
  BY <1>5, <1>6

(* A process takes the only copy of its message.                           *)
LEMMA ReceivePlaces ==
  ASSUME Inv, JobsOK, \A j \in requested : OnePlace(j), NEW w \in Worker,
         NEW m \in Message, Receive(w, m), NEW i \in requested
  PROVE  OnePlace(i)'
<1>1. /\ pc[w] = "idle" /\ queue[m] > 0 /\ told' = told
      /\ queue' = [queue EXCEPT ![m] = @ - 1]
  BY DEF Receive, Take
<1>2. msg'[w] = m /\ pc'[w] # "idle" /\ OnlyProcess(w)
  BY ReceiveTyped DEF Receive, GoTo, Inv, TypeOK, ProcessTypeOK
<1>3. queue \in [Message -> Nat] /\ i \in Job
  BY RequestsAssumption DEF Inv, TypeOK, QueueTypeOK
<1>4. \A v \in Worker \ {w} : pc'[v] = pc[v] /\ msg'[v] = msg[v]
  BY <1>2 DEF OnlyProcess
<1>5. CASE i = m.job
  <2>1. m \in Queued(i)
    BY <1>1, <1>5 DEF Queued
  <2>2. Queued(i) = {m} /\ queue[m] = 1 /\ Runs(i) = {}
    BY <2>1 DEF OnePlace
  <2>3. Queued(i)' = {}
    <3>1. ASSUME NEW n \in Message, n.job = i, queue'[n] > 0
          PROVE  FALSE
      <4>1. CASE n = m
        BY <1>1, <1>3, <2>2, <3>1, <4>1
      <4>2. CASE n # m
        BY <1>1, <1>3, <2>2, <3>1, <4>2 DEF Queued
      <4> QED
        BY <4>1, <4>2
    <3> QED
      BY <3>1 DEF Queued
  <2>4. Runs(i)' = {w}
    BY <1>2, <1>4, <1>5, <2>2 DEF Runs, JobOf
  <2>5. ~Recreates(i) => ~Done(i)'
    BY <1>1, <1>3, <2>1, DoneIfTold DEF OnePlace, Pending
  <2> QED
    BY <2>3, <2>4, <2>5 DEF OnePlace
<1>6. CASE i # m.job
  <2>1. \A n \in Message : n.job = i => queue'[n] = queue[n]
    BY <1>1, <1>3, <1>6
  <2>2. Queued(i)' = Queued(i) /\ \A n \in Queued(i) : queue'[n] = queue[n]
    BY <2>1 DEF Queued
  <2>3. Runs(i)' \subseteq Runs(i)
    BY <1>2, <1>4, <1>6 DEF Runs, JobOf
  <2> QED
    BY <1>1, <1>3, <2>2, <2>3, OnePlaceKept
<1> QED
  BY <1>5, <1>6

(* A retry goes back to the queue when its process has let go of it; the   *)
(* callback is the end of its job; no other step adds a copy.              *)
LEMMA StepPlaces ==
  ASSUME Inv, JobsOK, \A j \in requested : OnePlace(j), NEW w \in Worker,
         Step(w) \/ Crash(w), NEW i \in requested
  PROVE  OnePlace(i)'
<1>1. /\ pc[w] # "idle" /\ OnlyProcess(w)
      /\ Retry(w) \/ queue' = queue
      /\ Send(w) \/ told' = told
  BY StepOfJob
<1>2. queue \in [Message -> Nat] /\ i \in Job /\ i \in Requests
  BY RequestsAssumption DEF Inv, TypeOK, QueueTypeOK
<1>3. Runs(i)' \subseteq Runs(i) /\ (~Retry(w) => Queued(i)' = Queued(i))
  BY <1>2, StepMoves
<1>4. JobOf(w) = i => Runs(i) = {w} /\ Queued(i) = {}
  BY <1>1 DEF OnePlace, Runs
<1>5. CASE Retry(w)
  <2> DEFINE again == [msg[w] EXCEPT !.retries = @ + 1]
  <2>1. /\ again \in Message /\ again.job = JobOf(w)
        /\ queue' = [queue EXCEPT ![again] = @ + 1]
        /\ Queued(i)' = Queued(i) \cup {m \in {again} : m.job = i}
        /\ Runs(i)' = Runs(i) \ {w}
    BY <1>2, <1>5, StepMoves
  <2>2. told' = told
    BY <1>5 DEF Retry
  <2> HIDE DEF again
  <2>3. CASE JobOf(w) = i
    <3>1. Queued(i)' = {again} /\ Runs(i)' = {}
      BY <1>4, <2>1, <2>3
    <3>2. queue[again] = 0
      BY <1>2, <1>4, <2>1, <2>3 DEF Queued
    <3>3. queue'[again] = 1
      BY <1>2, <2>1, <3>2
    <3>4. ~Recreates(i) => ~Done(i)'
      BY <1>2, <1>4, <2>2, <2>3, DoneIfTold DEF OnePlace, Pending
    <3> QED
      BY <3>1, <3>3, <3>4 DEF OnePlace
  <2>4. CASE JobOf(w) # i
    <3>1. Queued(i)' = Queued(i)
      BY <2>1, <2>4
    <3>2. \A m \in Queued(i) : queue'[m] = queue[m]
      BY <1>2, <2>1, <2>4 DEF Queued
    <3> QED
      BY <1>2, <1>3, <2>2, <3>1, <3>2, OnePlaceKept
  <2> QED
    BY <2>3, <2>4
<1>6. ASSUME ~Retry(w), told' = told
      PROVE  OnePlace(i)'
  BY <1>1, <1>2, <1>3, <1>6, OnePlaceKept
<1>7. ASSUME ~Retry(w), NEW c \in told', c \notin told
      PROVE  OnePlace(i)'
  <2>1. Send(w)
    BY <1>1, <1>7
  <2>2. /\ JobOf(w) \in requested /\ ~Recreates(JobOf(w))
        /\ c.id = JobOf(w).id /\ told' = told \cup {c}
    BY <1>7, <2>1, SentReport
  <2>3. pc'[w] = "idle"
    BY <2>1 DEF Send, Finish, GoTo, Inv, TypeOK, ProcessTypeOK
  <2>4. CASE JobOf(w) = i
    <3>1. Queued(i)' = {} /\ Runs(i)' = {}
      BY <1>3, <1>4, <1>7, <2>3, <2>4 DEF Runs
    <3> QED
      BY <3>1 DEF OnePlace, Pending
  <2>5. CASE JobOf(w) # i
    <3>1. ASSUME ~Recreates(i)
          PROVE  c.id # i.id
      <4>1. JobOf(w) \in Requests
        BY <2>2 DEF Inv, TypeOK, QueueTypeOK
      <4> QED
        BY <1>2, <2>2, <2>5, <3>1, <4>1, OneReporter
    <3>2. ~Recreates(i) => Done(i)' = Done(i)
      BY <1>2, <2>2, <3>1, DoneIfTold
    <3>3. /\ \A m, n \in Queued(i)' : m = n /\ queue'[m] = 1
          /\ \A v, u \in Runs(i)' : v = u
          /\ Queued(i)' = {} \/ Runs(i)' = {}
      BY <1>1, <1>3, <1>7 DEF OnePlace
    <3>4. Pending(i)' /\ ~Recreates(i) => ~Done(i)'
      BY <1>3, <1>7, <3>2 DEF OnePlace, Pending
    <3> QED
      BY <3>3, <3>4 DEF OnePlace
  <2> QED
    BY <2>4, <2>5
<1>8. told \subseteq told'
  BY <1>1 DEF Send
<1> QED
  BY <1>5, <1>6, <1>7, <1>8

(* The job of the process that tells has not told before.                  *)
LEMMA ToldOnce ==
  ASSUME Inv, JobsOK, \A j \in requested : OnePlace(j), NEW w \in Worker,
         Step(w) \/ Crash(w), \A c, d \in told : c.id = d.id => c = d
  PROVE  \A c, d \in told' : c.id = d.id => c = d
<1>1. ASSUME NEW c \in told', c \notin told
      PROVE  told' = told \cup {c} /\ \A d \in told : d.id # c.id
  <2>1. Send(w) /\ pc[w] # "idle" /\ JobOf(w) \in Job
    BY <1>1, StepOfJob, WorkingFacts DEF Inv
  <2>2. /\ JobOf(w) \in requested /\ ~Recreates(JobOf(w))
        /\ c.id = JobOf(w).id /\ told' = told \cup {c}
    BY <1>1, <2>1, SentReport
  <2>3. Pending(JobOf(w))
    BY <2>1 DEF Pending, Runs
  <2>4. ~Done(JobOf(w))
    BY <2>2, <2>3 DEF OnePlace
  <2> QED
    BY <2>2, <2>4 DEF Done
<1> QED
  BY <1>1

LEMMA RunOncePreserved ==
  ASSUME Inv, JobsOK, RunOnce, Next
  PROVE  RunOnce'
<1>1. SUFFICES ASSUME redelivered' = 0
               PROVE  /\ \A j \in requested' : OnePlace(j)'
                      /\ \A c, d \in told' : c.id = d.id => c = d
  BY DEF RunOnce, OnePlace
<1>2. ASSUME NEW m \in Message, Redeliver(m)
      PROVE  FALSE
  BY <1>1, <1>2 DEF Redeliver, Inv, TypeOK, QueueTypeOK
<1>3. ASSUME redelivered = 0
      PROVE  /\ \A j \in requested : OnePlace(j)
             /\ \A c, d \in told : c.id = d.id => c = d
  BY <1>3 DEF RunOnce, OnePlace
<1>4. ASSUME NEW job \in Requests, Request(job)
      PROVE  /\ \A j \in requested' : OnePlace(j)'
             /\ \A c, d \in told' : c.id = d.id => c = d
  <2>1. redelivered = 0 /\ told' = told
    BY <1>1, <1>4 DEF Request
  <2>2. \A j \in requested' : OnePlace(j)'
    BY <1>3, <1>4, <2>1, RequestPlaces
  <2> QED
    BY <1>3, <2>1, <2>2
<1>5. CASE UNCHANGED <<tasks, process, told>>
  <2>1. /\ redelivered = 0 /\ told' = told /\ requested' = requested
        /\ queue' = queue /\ pc' = pc /\ msg' = msg
    BY <1>1, <1>5 DEF tasks, process
  <2>2. ASSUME NEW j \in requested'
        PROVE  OnePlace(j)'
    <3>1. j \in requested /\ j \in Job
      BY <2>1, RequestsAssumption DEF Inv, TypeOK, QueueTypeOK
    <3>2. Queued(j)' = Queued(j) /\ Runs(j)' = Runs(j)
      BY <2>1 DEF Queued, Runs, JobOf
    <3> QED
      BY <1>3, <2>1, <3>1, <3>2, OnePlaceKept
  <2> QED
    BY <1>3, <2>1, <2>2
<1>6. ASSUME NEW w \in Worker, NEW m \in Message, Receive(w, m)
      PROVE  /\ \A j \in requested' : OnePlace(j)'
             /\ \A c, d \in told' : c.id = d.id => c = d
  <2>1. redelivered = 0 /\ told' = told /\ requested' = requested
    BY <1>1, <1>6 DEF Receive
  <2>2. \A j \in requested : OnePlace(j)'
    BY <1>3, <1>6, <2>1, ReceivePlaces
  <2> QED
    BY <1>3, <2>1, <2>2
<1>7. ASSUME NEW w \in Worker, Step(w) \/ Crash(w)
      PROVE  /\ \A j \in requested' : OnePlace(j)'
             /\ \A c, d \in told' : c.id = d.id => c = d
  <2>1. redelivered = 0 /\ requested' = requested
    BY <1>1, <1>7, StepOfJob
  <2>2. \A j \in requested : OnePlace(j)'
    BY <1>3, <1>7, <2>1, StepPlaces
  <2>3. \A c, d \in told' : c.id = d.id => c = d
    BY <1>3, <1>7, <2>1, ToldOnce
  <2> QED
    BY <2>1, <2>2, <2>3
<1> QED
  BY <1>2, <1>4, <1>5, <1>6, <1>7
     DEF Next, Environment, ScanRemoved, BackupExpires

(* As long as SQS delivers every message once, every job is done once, by  *)
(* one process, and the API hears of it once.                              *)
THEOREM RunOnceHolds == Spec => []RunOnce
<1>1. Init => RunOnce
  BY DEF Init, RunOnce
<1>2. ASSUME Inv, JobsOK, RunOnce, [Next]_vars
      PROVE  RunOnce'
  <2>1. CASE UNCHANGED vars
    BY <1>2, <2>1 DEF vars, RunOnce, Queued, Runs, Pending, Done, JobOf
  <2> QED
    BY <1>2, <2>1, RunOncePreserved
<1> QED
  BY <1>1, <1>2, InvHolds, JobsHold, PTL DEF Spec

=============================================================================
