------------------------ MODULE NotificationProofs ------------------------
(***************************************************************************)
(* Proofs about the notification path, for any number of operations,       *)
(* consumers, retries and failures.                                        *)
(***************************************************************************)
EXTENDS Notification, TLAPS

-----------------------------------------------------------------------------
(* The inductive invariant. *)

HasJob(i) == \E j \in DOMAIN jobs : jobs[j].op = outbox[i].about

\* The worker marks a row only after a job took it over (ProcessOnce).
RowsTaken ==
  /\ \A i \in DOMAIN outbox : outbox[i].delivered => HasJob(i)
  /\ worker.step = "mark" => \A i \in worker.batch : At(i) => HasJob(i)

\* A delivery is recorded on an answer, and an answer comes from a call
\* (deliver, handleDeliveryError).
PostsAnswered ==
  /\ \A j \in DOMAIN jobs : jobs[j].status = "delivered" => jobs[j].posts > 0
  /\ \A c \in Consumers :
       Held(c) # NoJob /\ consumer[c].answer # "none" => jobs[Held(c)].posts > 0

\* A retry is counted for every call whose job comes back to the queue.
PostsCounted ==
  /\ \A j \in DOMAIN jobs :
       /\ jobs[j].posts <= jobs[j].retry + 1
       /\ jobs[j].status \in {"pending", "failed"} => jobs[j].posts <= jobs[j].retry
  /\ \A c \in Consumers :
       Held(c) # NoJob /\ consumer[c].answer = "none"
         => jobs[Held(c)].posts <= jobs[Held(c)].retry

NotificationInv ==
  NotificationTypeOK /\ ClaimsDisjoint /\ RowsTaken /\ PostsAnswered /\ PostsCounted

-----------------------------------------------------------------------------
(* How the three ways of changing a record or a sequence keep its type. *)

\* Writing one job changes no other (UpdateStatus names the job by its id).
LEMMA JobWritten ==
  ASSUME jobs \in Seq(Job), NEW j \in DOMAIN jobs, NEW r \in Job,
         jobs' = [jobs EXCEPT ![j] = r]
  PROVE  /\ jobs' \in Seq(Job)
         /\ DOMAIN jobs' = DOMAIN jobs
         /\ jobs'[j] = r
         /\ \A k \in DOMAIN jobs : k # j => jobs'[k] = jobs[k]
  OBVIOUS

\* Inserting a job keeps the earlier ones (Create).
LEMMA JobAppended ==
  ASSUME jobs \in Seq(Job), NEW r \in Job, jobs' = Append(jobs, r)
  PROVE  /\ jobs' \in Seq(Job)
         /\ DOMAIN jobs \subseteq DOMAIN jobs'
         /\ \A k \in DOMAIN jobs : jobs'[k] = jobs[k]
         /\ \A k \in DOMAIN jobs' : k \in DOMAIN jobs \/ jobs'[k] = r
         /\ \E k \in DOMAIN jobs' : jobs'[k] = r
  <1>1. /\ jobs' \in Seq(Job)
        /\ DOMAIN jobs = 1 .. Len(jobs)
        /\ DOMAIN jobs' = 1 .. Len(jobs) + 1
        /\ \A k \in 1 .. Len(jobs) : jobs'[k] = jobs[k]
        /\ jobs'[Len(jobs) + 1] = r
        /\ Len(jobs) \in Nat
    OBVIOUS
  <1>2. QED BY <1>1

\* Queueing a row keeps the earlier ones (notification_outbox).
LEMMA RowAppended ==
  ASSUME outbox \in Seq(Row), NEW r \in Row, outbox' = Append(outbox, r)
  PROVE  /\ outbox' \in Seq(Row)
         /\ DOMAIN outbox \subseteq DOMAIN outbox'
         /\ \A k \in DOMAIN outbox : outbox'[k] = outbox[k]
         /\ \A k \in DOMAIN outbox' : k \in DOMAIN outbox \/ outbox'[k] = r
  <1>1. /\ outbox' \in Seq(Row)
        /\ DOMAIN outbox = 1 .. Len(outbox)
        /\ DOMAIN outbox' = 1 .. Len(outbox) + 1
        /\ \A k \in 1 .. Len(outbox) : outbox'[k] = outbox[k]
        /\ outbox'[Len(outbox) + 1] = r
        /\ Len(outbox) \in Nat
    OBVIOUS
  <1>2. QED BY <1>1

\* The writes to a job keep its type, its operation and the fields they do not
\* name.
LEMMA JobFields ==
  ASSUME NEW r \in Job
  PROVE  /\ r.op \in Operations /\ r.status \in Status
         /\ r.retry \in 0 .. MaxRetries /\ r.posts \in Nat
         /\ r.due \in BOOLEAN /\ r.old \in BOOLEAN
         /\ \A s \in Status : [r EXCEPT !.status = s] \in Job
         /\ \A s : /\ [r EXCEPT !.status = s].op = r.op
                   /\ [r EXCEPT !.status = s].status = s
                   /\ [r EXCEPT !.status = s].retry = r.retry
                   /\ [r EXCEPT !.status = s].posts = r.posts
  BY Zenon DEF Job

-----------------------------------------------------------------------------
LEMMA InvInit ==
  ASSUME NotificationAssumption, Init
  PROVE  NotificationInv
  BY DEF NotificationAssumption, Init, NotificationInv, NotificationTypeOK, ClaimsDisjoint,
         RowsTaken, PostsAnswered, PostsCounted, Idle, Free, Held, Answers

-----------------------------------------------------------------------------
(* Steps that write one job and leave the outbox and its worker alone. *)

Rewrites(j, r) ==
  /\ jobs' = [jobs EXCEPT ![j] = r]
  /\ UNCHANGED <<ended, outbox, worker>>

\* A job never changes the operation it is about, so a row keeps its job.
LEMMA RowsStayTaken ==
  ASSUME NotificationInv, NEW j \in DOMAIN jobs, NEW r \in Job, r.op = jobs[j].op,
         Rewrites(j, r)
  PROVE  RowsTaken'
  <1>1. DOMAIN jobs' = DOMAIN jobs /\ \A k \in DOMAIN jobs : jobs'[k].op = jobs[k].op
    BY JobWritten, Zenon DEF Rewrites, NotificationInv, NotificationTypeOK
  <1>2. \A i : HasJob(i) <=> HasJob(i)'
    BY <1>1, Zenon DEF HasJob, Rewrites
  <1>3. QED BY <1>2, Zenon DEF RowsTaken, At, Rewrites, NotificationInv

\* Writing a job that consumer c holds, or none does, keeps every other
\* consumer's claim.
LEMMA ClaimKept ==
  ASSUME NotificationInv, NEW c \in Consumers, Held(c) # NoJob
  PROVE  /\ Held(c) \in DOMAIN jobs
         /\ jobs[Held(c)] \in Job
         /\ jobs[Held(c)].status = "sending"
         /\ \A d \in Consumers : d # c => Held(d) # Held(c)
  BY DEF NotificationInv, NotificationTypeOK, ClaimsDisjoint, Held

LEMMA ClaimStep ==
  ASSUME NotificationInv, NEW c \in Consumers, ClaimNext(c)
  PROVE  NotificationInv'
  <1>1. PICK j \in DOMAIN jobs :
          /\ jobs[j].status \in {"pending", "failed"}
          /\ jobs' = [jobs EXCEPT ![j].status = "sending"]
          /\ consumer' = [consumer EXCEPT ![c] = [job |-> j, answer |-> "none"]]
    BY Zenon DEF ClaimNext
  <1> DEFINE r == [jobs[j] EXCEPT !.status = "sending"]
  <1>2. jobs \in Seq(Job) /\ jobs[j] \in Job
    BY DEF NotificationInv, NotificationTypeOK
  <1>3. /\ r \in Job /\ r.op = jobs[j].op /\ r.status = "sending"
        /\ r.retry = jobs[j].retry /\ r.posts = jobs[j].posts
    BY <1>2, JobFields, Zenon DEF Status, Live
  <1>4. Rewrites(j, r)
    BY <1>1, Zenon DEF Rewrites, ClaimNext
  <1> HIDE DEF r
  <1>5. /\ jobs' \in Seq(Job) /\ DOMAIN jobs' = DOMAIN jobs /\ jobs'[j] = r
        /\ \A k \in DOMAIN jobs : k # j => jobs'[k] = jobs[k]
    BY <1>2, <1>3, <1>4, JobWritten, Zenon DEF Rewrites
  <1>6. /\ consumer'[c] = [job |-> j, answer |-> "none"]
        /\ \A d \in Consumers : d # c => consumer'[d] = consumer[d]
        /\ consumer' \in [Consumers -> [job : DOMAIN jobs \cup {NoJob}, answer : Answers]]
    BY <1>1, Zenon DEF NotificationInv, NotificationTypeOK, Answers
  <1>7. NotificationTypeOK'
    BY <1>5, <1>6, Zenon DEF NotificationInv, NotificationTypeOK, ClaimNext
  <1>8. /\ Held(c)' = j /\ (consumer[c].answer)' = "none"
        /\ \A d \in Consumers : d # c => Held(d)' = Held(d) /\ consumer'[d] = consumer[d]
        /\ \A d \in Consumers : Held(d) # NoJob =>
             Held(d) \in DOMAIN jobs /\ Held(d) # j /\ jobs'[Held(d)] = jobs[Held(d)]
    BY <1>1, <1>5, <1>6, ClaimKept, Zenon DEF Held
  <1>9. ClaimsDisjoint'
    BY <1>3, <1>5, <1>8 DEF NotificationInv, ClaimsDisjoint
  <1>10. RowsTaken'
    BY <1>3, <1>4, RowsStayTaken, Zenon
  <1>11. PostsAnswered'
    BY <1>3, <1>5, <1>8 DEF NotificationInv, PostsAnswered
  <1>12. PostsCounted'
    BY <1>1, <1>3, <1>5, <1>8 DEF NotificationInv, PostsCounted
  <1>13. QED BY <1>7, <1>9, <1>10, <1>11, <1>12, Zenon DEF NotificationInv

\* A consumer that writes its outcome and lets the job go.
LEMMA Released ==
  ASSUME NotificationInv, NEW c \in Consumers, Held(c) # NoJob,
         NEW r \in Job, r.op = jobs[Held(c)].op, Rewrites(Held(c), r),
         consumer' = [consumer EXCEPT ![c] = Free], UNCHANGED faults,
         r.posts <= r.retry + 1,
         r.status \in {"pending", "failed"} => r.posts <= r.retry,
         r.status = "delivered" => r.posts > 0
  PROVE  NotificationInv'
  <1> DEFINE j == Held(c)
  <1>1. j \in DOMAIN jobs /\ jobs \in Seq(Job)
    BY ClaimKept, Zenon DEF NotificationInv, NotificationTypeOK
  <1>2. /\ jobs' \in Seq(Job) /\ DOMAIN jobs' = DOMAIN jobs /\ jobs'[j] = r
        /\ \A k \in DOMAIN jobs : k # j => jobs'[k] = jobs[k]
    BY <1>1, JobWritten, Zenon DEF Rewrites
  <1>3. /\ consumer'[c] = Free
        /\ \A d \in Consumers : d # c => consumer'[d] = consumer[d]
        /\ consumer' \in [Consumers -> [job : DOMAIN jobs \cup {NoJob}, answer : Answers]]
    BY Zenon DEF NotificationInv, NotificationTypeOK, Answers, Free
  <1>4. /\ Held(c)' = NoJob
        /\ \A d \in Consumers : d # c => Held(d)' = Held(d) /\ consumer'[d] = consumer[d]
        /\ \A d \in Consumers : d # c /\ Held(d) # NoJob =>
             Held(d) \in DOMAIN jobs /\ Held(d) # j /\ jobs'[Held(d)] = jobs[Held(d)]
    BY <1>2, <1>3, ClaimKept DEF Held, Free
  <1>5. NotificationTypeOK'
    BY <1>2, <1>3, Zenon DEF NotificationInv, NotificationTypeOK, Rewrites
  <1>6. ClaimsDisjoint'
    BY <1>4 DEF NotificationInv, ClaimsDisjoint
  <1>7. RowsTaken'
    BY <1>1, RowsStayTaken, Zenon
  <1>8. PostsAnswered'
    BY <1>2, <1>4 DEF NotificationInv, PostsAnswered
  <1>9. PostsCounted'
    BY <1>2, <1>4 DEF NotificationInv, PostsCounted
  <1>10. QED BY <1>5, <1>6, <1>7, <1>8, <1>9, Zenon DEF NotificationInv

\* Time passes for a job, or a dead letter is removed: no call is made or
\* counted, and no claim changes.
LEMMA Aged ==
  ASSUME NotificationInv, NEW j \in DOMAIN jobs, NEW r \in Job, Rewrites(j, r),
         UNCHANGED <<consumer, faults>>,
         r.op = jobs[j].op, r.retry = jobs[j].retry, r.posts = jobs[j].posts,
         r.status = jobs[j].status \/ (jobs[j].status = "dead_letter" /\ r.status = "deleted")
  PROVE  NotificationInv'
  <1>1. jobs \in Seq(Job)
    BY Zenon DEF NotificationInv, NotificationTypeOK
  <1>2. /\ jobs' \in Seq(Job) /\ DOMAIN jobs' = DOMAIN jobs /\ jobs'[j] = r
        /\ \A k \in DOMAIN jobs : k # j => jobs'[k] = jobs[k]
    BY <1>1, JobWritten, Zenon DEF Rewrites
  <1>3. /\ consumer' = consumer
        /\ \A d \in Consumers : Held(d)' = Held(d)
        /\ \A d \in Consumers : Held(d) # NoJob =>
             Held(d) \in DOMAIN jobs /\ jobs[Held(d)].status = "sending"
    BY ClaimKept, Zenon DEF Held
  <1>4. /\ \A k \in DOMAIN jobs : jobs'[k].posts = jobs[k].posts /\ jobs'[k].retry = jobs[k].retry
        /\ \A k \in DOMAIN jobs :
             jobs'[k].status = jobs[k].status
               \/ (jobs[k].status = "dead_letter" /\ jobs'[k].status = "deleted")
    BY <1>2, Zenon
  <1>5. NotificationTypeOK'
    BY <1>2, Zenon DEF NotificationInv, NotificationTypeOK, Rewrites
  <1>6. ClaimsDisjoint'
    BY <1>2, <1>3, <1>4 DEF NotificationInv, ClaimsDisjoint
  <1>7. RowsTaken'
    BY RowsStayTaken, Zenon
  <1>8. PostsAnswered'
    BY <1>2, <1>3, <1>4 DEF NotificationInv, PostsAnswered
  <1>9. PostsCounted'
    BY <1>2, <1>3, <1>4 DEF NotificationInv, PostsCounted
  <1>10. QED BY <1>5, <1>6, <1>7, <1>8, <1>9, Zenon DEF NotificationInv

LEMMA DeadlineStep ==
  ASSUME NotificationInv, NEW c \in Consumers, DeadlinePassed(c)
  PROVE  NotificationInv'
  <1> DEFINE r == [jobs[Held(c)] EXCEPT !.status = "dead_letter"]
  <1>1. Held(c) # NoJob /\ Held(c) \in DOMAIN jobs /\ jobs[Held(c)] \in Job
    BY ClaimKept, Zenon DEF DeadlinePassed
  <1>2. /\ r \in Job /\ r.op = jobs[Held(c)].op /\ r.status = "dead_letter"
        /\ r.posts <= r.retry + 1
    BY <1>1, JobFields DEF Status, NotificationInv, PostsCounted
  <1>3. Rewrites(Held(c), r) /\ consumer' = [consumer EXCEPT ![c] = Free] /\ UNCHANGED faults
    BY Zenon DEF DeadlinePassed, Rewrites
  <1> HIDE DEF r
  <1>4. QED BY <1>1, <1>2, <1>3, Released, Zenon

LEMMA RecordStep ==
  ASSUME NotificationAssumption, NotificationInv, NEW c \in Consumers, Record(c)
  PROVE  NotificationInv'
  <1> DEFINE q == jobs[Held(c)]
             r == Recorded(q, consumer[c].answer)
  <1>1. Held(c) # NoJob /\ Held(c) \in DOMAIN jobs /\ q \in Job
    BY ClaimKept, Zenon DEF Record
  <1>2. q.posts > 0 /\ q.posts <= q.retry + 1
    BY <1>1, Zenon DEF NotificationInv, PostsAnswered, PostsCounted, Record
  <1>3. /\ r \in Job /\ r.op = q.op
        /\ r.posts <= r.retry + 1
        /\ r.status \in {"pending", "failed"} => r.posts <= r.retry
        /\ r.status = "delivered" => r.posts > 0
    <2> HIDE DEF q
    <2>1. CASE consumer[c].answer = "accepted"
      BY <1>1, <1>2, <2>1, Zenon DEF Recorded, Job, Status
    <2>2. CASE consumer[c].answer # "accepted" /\ ShouldDeadLetter(q, consumer[c].answer)
      BY <1>1, <1>2, <2>2, Zenon DEF Recorded, Job, Status
    <2>3. CASE consumer[c].answer # "accepted" /\ ~ShouldDeadLetter(q, consumer[c].answer)
      <3>1. q.retry < MaxRetries
        BY <1>1, <2>3 DEF ShouldDeadLetter, NotificationAssumption, Job
      <3>2. q.retry \in Nat /\ q.posts \in Nat /\ q.retry + 1 \in 0 .. MaxRetries
        BY <1>1, <3>1 DEF Job, NotificationAssumption
      <3>3. r = [q EXCEPT !.status = "failed", !.retry = q.retry + 1, !.due = FALSE]
        BY <2>3, Zenon DEF Recorded
      <3>4. /\ r \in Job /\ r.op = q.op
            /\ r.status = "failed" /\ r.posts = q.posts /\ r.retry = q.retry + 1
        <4> HIDE DEF r
        <4>1. QED BY <1>1, <3>2, <3>3, Zenon DEF Job, Status, Live
      <3>5. QED BY <1>2, <3>2, <3>4
    <2>4. QED BY <2>1, <2>2, <2>3, Zenon
  <1>4. Rewrites(Held(c), r) /\ consumer' = [consumer EXCEPT ![c] = Free] /\ UNCHANGED faults
    BY Zenon DEF Record, Rewrites
  <1> HIDE DEF r
  <1>5. QED BY <1>1, <1>3, <1>4, Released, Zenon

LEMMA PostStep ==
  ASSUME NotificationInv, NEW c \in Consumers, Post(c)
  PROVE  NotificationInv'
  <1> DEFINE j == Held(c)
             r == [jobs[j] EXCEPT !.posts = @ + 1]
  <1>1. /\ j # NoJob /\ j \in DOMAIN jobs /\ jobs[j] \in Job /\ jobs \in Seq(Job)
        /\ jobs[j].status = "sending" /\ jobs[j].posts <= jobs[j].retry
    BY ClaimKept, Zenon DEF Post, NotificationInv, NotificationTypeOK, PostsCounted
  <1>2. /\ r \in Job /\ r.op = jobs[j].op /\ r.status = "sending"
        /\ r.posts > 0 /\ r.posts <= r.retry + 1
    <2> DEFINE q == jobs[j]
    <2>1. q \in Job /\ q.posts \in Nat /\ q.retry \in Nat /\ q.status = "sending"
          /\ q.posts <= q.retry
      BY <1>1 DEF Job
    <2>2. r = [q EXCEPT !.posts = q.posts + 1]
      BY Zenon
    <2> HIDE DEF q, r
    <2>3. r \in Job /\ r.op = q.op /\ r.status = q.status /\ r.retry = q.retry
          /\ r.posts = q.posts + 1
      BY <2>1, <2>2 DEF Job
    <2>4. QED BY <2>1, <2>3 DEF q
  <1>3. Rewrites(j, r) /\ UNCHANGED faults
    BY Zenon DEF Post, Rewrites
  <1> HIDE DEF r
  <1>4. /\ jobs' \in Seq(Job) /\ DOMAIN jobs' = DOMAIN jobs /\ jobs'[j] = r
        /\ \A k \in DOMAIN jobs : k # j => jobs'[k] = jobs[k]
    BY <1>1, <1>2, <1>3, JobWritten, Zenon DEF Rewrites
  <1>5. PICK a \in Answers \ {"none"} : consumer' = [consumer EXCEPT ![c].answer = a]
    BY Zenon DEF Post
  <1>6. /\ consumer'[c].job = j /\ consumer'[c].answer # "none"
        /\ \A d \in Consumers : d # c => consumer'[d] = consumer[d]
        /\ consumer' \in [Consumers -> [job : DOMAIN jobs \cup {NoJob}, answer : Answers]]
    BY <1>5 DEF NotificationInv, NotificationTypeOK, Held
  <1>7. /\ Held(c)' = j
        /\ \A d \in Consumers : d # c => Held(d)' = Held(d) /\ consumer'[d] = consumer[d]
        /\ \A d \in Consumers : d # c /\ Held(d) # NoJob =>
             Held(d) \in DOMAIN jobs /\ Held(d) # j /\ jobs'[Held(d)] = jobs[Held(d)]
    BY <1>1, <1>4, <1>6, ClaimKept, Zenon DEF Held
  <1>8. NotificationTypeOK'
    BY <1>3, <1>4, <1>6, Zenon DEF NotificationInv, NotificationTypeOK, Rewrites
  <1>9. ClaimsDisjoint'
    BY <1>1, <1>2, <1>4, <1>7 DEF NotificationInv, ClaimsDisjoint
  <1>10. RowsTaken'
    BY <1>1, <1>2, <1>3, RowsStayTaken, Zenon
  <1>11. PostsAnswered'
    BY <1>2, <1>4, <1>6, <1>7 DEF NotificationInv, PostsAnswered
  <1>12. PostsCounted'
    BY <1>2, <1>4, <1>6, <1>7 DEF NotificationInv, PostsCounted
  <1>13. QED BY <1>8, <1>9, <1>10, <1>11, <1>12, Zenon DEF NotificationInv

LEMMA AgingStep ==
  ASSUME NotificationInv, NEW j \in DOMAIN jobs,
         RetryDue(j) \/ DayPasses(j) \/ DeleteDeadLetter(j)
  PROVE  NotificationInv'
  <1>1. jobs[j] \in Job
    BY DEF NotificationInv, NotificationTypeOK
  <1>2. CASE RetryDue(j)
    <2> DEFINE r == [jobs[j] EXCEPT !.due = TRUE]
    <2>1. /\ r \in Job /\ r.op = jobs[j].op /\ r.status = jobs[j].status
          /\ r.retry = jobs[j].retry /\ r.posts = jobs[j].posts
      BY <1>1, Zenon DEF Job
    <2>2. Rewrites(j, r) /\ UNCHANGED <<consumer, faults>>
      BY <1>2, Zenon DEF RetryDue, Rewrites
    <2> HIDE DEF r
    <2>3. QED BY <2>1, <2>2, Aged, Zenon
  <1>3. CASE DayPasses(j)
    <2> DEFINE r == [jobs[j] EXCEPT !.old = TRUE]
    <2>1. /\ r \in Job /\ r.op = jobs[j].op /\ r.status = jobs[j].status
          /\ r.retry = jobs[j].retry /\ r.posts = jobs[j].posts
      BY <1>1, Zenon DEF Job
    <2>2. Rewrites(j, r) /\ UNCHANGED <<consumer, faults>>
      BY <1>3, Zenon DEF DayPasses, Rewrites
    <2> HIDE DEF r
    <2>3. QED BY <2>1, <2>2, Aged, Zenon
  <1>4. CASE DeleteDeadLetter(j)
    <2> DEFINE r == [jobs[j] EXCEPT !.status = "deleted"]
    <2>1. /\ r \in Job /\ r.op = jobs[j].op /\ r.status = "deleted"
          /\ r.retry = jobs[j].retry /\ r.posts = jobs[j].posts
      BY <1>1, JobFields, Zenon DEF Status
    <2>2. Rewrites(j, r) /\ UNCHANGED <<consumer, faults>> /\ jobs[j].status = "dead_letter"
      BY <1>4, Zenon DEF DeleteDeadLetter, Rewrites
    <2> HIDE DEF r
    <2>3. QED BY <2>1, <2>2, Aged, Zenon
  <1>5. QED BY <1>2, <1>3, <1>4, Zenon

\* The notifier stops with a job in hand: the claim is gone, the job stays.
LEMMA StopStep ==
  ASSUME NotificationInv, NEW c \in Consumers, ConsumerStops(c), NotificationAssumption
  PROVE  NotificationInv'
  <1>1. /\ Held(c)' = NoJob
        /\ \A d \in Consumers : d # c => Held(d)' = Held(d) /\ consumer'[d] = consumer[d]
        /\ consumer' \in [Consumers -> [job : DOMAIN jobs \cup {NoJob}, answer : Answers]]
    BY Zenon DEF ConsumerStops, Free, Answers, Held, NotificationInv, NotificationTypeOK
  <1>2. NotificationTypeOK'
    BY <1>1 DEF NotificationInv, NotificationTypeOK, ConsumerStops, Fault, NotificationAssumption
  <1>3. ClaimsDisjoint'
    BY <1>1 DEF NotificationInv, ClaimsDisjoint, ConsumerStops
  <1>4. RowsTaken'
    BY Zenon DEF NotificationInv, RowsTaken, HasJob, At, ConsumerStops
  <1>5. PostsAnswered' /\ PostsCounted'
    BY <1>1, Zenon DEF NotificationInv, PostsAnswered, PostsCounted, ConsumerStops
  <1>6. QED BY <1>2, <1>3, <1>4, <1>5, Zenon DEF NotificationInv

-----------------------------------------------------------------------------
(* Steps of the writers of the outbox and of its worker. *)

\* What keeps the claims and the counts: the jobs that exist and the consumers
\* do not change, and a new job starts with nothing done.
LEMMA JobsKept ==
  ASSUME NotificationAssumption, NotificationInv, UNCHANGED consumer,
         \/ UNCHANGED jobs
         \/ \E o \in Operations : jobs' = Append(jobs, Created(o))
  PROVE  /\ jobs' \in Seq(Job)
         /\ consumer' \in [Consumers -> [job : DOMAIN jobs' \cup {NoJob}, answer : Answers]]
         /\ ClaimsDisjoint' /\ PostsAnswered' /\ PostsCounted'
         /\ \A i : HasJob(i) /\ outbox'[i].about = outbox[i].about => HasJob(i)'
  <1>1. /\ jobs \in Seq(Job)
        /\ consumer \in [Consumers -> [job : DOMAIN jobs \cup {NoJob}, answer : Answers]]
        /\ \A c \in Consumers : Held(c)' = Held(c)
        /\ \A c \in Consumers : Held(c) # NoJob => Held(c) \in DOMAIN jobs
    BY ClaimKept, Zenon DEF NotificationInv, NotificationTypeOK, Held
  <1>2. CASE UNCHANGED jobs
    BY <1>1, <1>2 DEF NotificationInv, NotificationTypeOK, ClaimsDisjoint, PostsAnswered,
                      PostsCounted, HasJob
  <1>3. CASE \E o \in Operations : jobs' = Append(jobs, Created(o))
    <2>1. PICK o \in Operations : jobs' = Append(jobs, Created(o))
      BY <1>3, Zenon
    <2> DEFINE r == Created(o)
    <2>2. r \in Job /\ r.status = "pending" /\ r.retry = 0 /\ r.posts = 0
      BY DEF Created, Job, Status, Live, NotificationAssumption
    <2> HIDE DEF r
    <2>3. /\ jobs' \in Seq(Job) /\ DOMAIN jobs \subseteq DOMAIN jobs'
          /\ \A k \in DOMAIN jobs : jobs'[k] = jobs[k]
          /\ \A k \in DOMAIN jobs' : k \in DOMAIN jobs \/ jobs'[k] = r
      BY <1>1, <2>1, <2>2, JobAppended, Zenon DEF r
    <2>4. consumer' \in [Consumers -> [job : DOMAIN jobs' \cup {NoJob}, answer : Answers]]
      BY <1>1, <2>3, Zenon
    <2>5. ClaimsDisjoint'
      BY <1>1, <2>3 DEF NotificationInv, ClaimsDisjoint
    <2>6. PostsAnswered'
      BY <1>1, <2>2, <2>3 DEF NotificationInv, PostsAnswered
    <2>7. PostsCounted'
      BY <1>1, <2>2, <2>3 DEF NotificationInv, PostsCounted
    <2>8. \A i : HasJob(i) /\ outbox'[i].about = outbox[i].about => HasJob(i)'
      BY <2>3, Zenon DEF HasJob
    <2>9. QED BY <2>3, <2>4, <2>5, <2>6, <2>7, <2>8, Zenon
  <1>4. QED BY <1>2, <1>3, Zenon

LEMMA QueueStep ==
  ASSUME NotificationAssumption, NotificationInv,
         NEW row \in Operations \cup Approvals, Queued(row),
         ended' \subseteq Operations, UNCHANGED <<worker, jobs, consumer, faults>>
  PROVE  NotificationInv'
  <1> DEFINE r == [about |-> row, delivered |-> FALSE]
  <1>1. r \in Row /\ r.delivered = FALSE
    BY Zenon DEF Row
  <1>2. outbox \in Seq(Row) /\ outbox' = Append(outbox, r)
    BY Zenon DEF Queued, NotificationInv, NotificationTypeOK
  <1> HIDE DEF r
  <1>3. /\ outbox' \in Seq(Row) /\ DOMAIN outbox \subseteq DOMAIN outbox'
        /\ \A k \in DOMAIN outbox : outbox'[k] = outbox[k]
        /\ \A k \in DOMAIN outbox' : k \in DOMAIN outbox \/ outbox'[k] = r
    BY <1>1, <1>2, RowAppended, Zenon
  <1>4. /\ jobs' \in Seq(Job)
        /\ consumer' \in [Consumers -> [job : DOMAIN jobs' \cup {NoJob}, answer : Answers]]
        /\ ClaimsDisjoint' /\ PostsAnswered' /\ PostsCounted'
        /\ \A i : HasJob(i) /\ outbox'[i].about = outbox[i].about => HasJob(i)'
    BY JobsKept, Zenon
  <1>5. worker \in [batch : SUBSET DOMAIN outbox, step : {"send", "mark"}]
    BY Zenon DEF NotificationInv, NotificationTypeOK
  <1>6. worker' \in [batch : SUBSET DOMAIN outbox', step : {"send", "mark"}]
    BY <1>3, <1>5, Zenon
  <1>7. NotificationTypeOK'
    BY <1>3, <1>4, <1>6, Zenon DEF NotificationInv, NotificationTypeOK
  <1>8. RowsTaken'
    BY <1>1, <1>3, <1>4, <1>5, Zenon DEF NotificationInv, RowsTaken, At
  <1>9. QED BY <1>4, <1>7, <1>8, Zenon DEF NotificationInv

\* The operation ends on a path that writes no row.
LEMMA EndStep ==
  ASSUME NotificationInv, NEW o \in Operations, EndWithoutRow(o)
  PROVE  NotificationInv'
  BY DEF NotificationInv, NotificationTypeOK, ClaimsDisjoint, RowsTaken, PostsAnswered,
         PostsCounted, HasJob, At, Held, EndWithoutRow

LEMMA PollStep ==
  ASSUME NotificationInv, Poll
  PROVE  NotificationInv'
  <1>1. worker' \in [batch : SUBSET DOMAIN outbox, step : {"send", "mark"}] /\ worker'.step = "send"
    BY Zenon DEF Poll, ListUndelivered, Undelivered
  <1>2. QED BY <1>1 DEF NotificationInv, NotificationTypeOK, ClaimsDisjoint, RowsTaken,
                        PostsAnswered, PostsCounted, HasJob, Held, Poll

\* The worker leaves its row, or its whole batch, without acknowledging it.
LEMMA LeaveStep ==
  ASSUME NotificationAssumption, NotificationInv, NEW i \in worker.batch,
         worker' = Skipped(i) \/ worker' = Idle,
         NoFault \/ Fault,
         \/ UNCHANGED jobs
         \/ \E o \in Operations : jobs' = Append(jobs, Created(o)),
         UNCHANGED <<ended, outbox, consumer>>
  PROVE  NotificationInv'
  <1>1. worker' \in [batch : SUBSET DOMAIN outbox, step : {"send", "mark"}] /\ worker'.step = "send"
    BY DEF Skipped, Idle, NotificationInv, NotificationTypeOK
  <1>2. faults' \in 0 .. MaxFaults
    BY DEF NoFault, Fault, NotificationAssumption, NotificationInv, NotificationTypeOK
  <1>3. /\ jobs' \in Seq(Job)
        /\ consumer' \in [Consumers -> [job : DOMAIN jobs' \cup {NoJob}, answer : Answers]]
        /\ ClaimsDisjoint' /\ PostsAnswered' /\ PostsCounted'
        /\ \A k : HasJob(k) /\ outbox'[k].about = outbox[k].about => HasJob(k)'
    BY JobsKept, Zenon
  <1>4. NotificationTypeOK'
    BY <1>1, <1>2, <1>3, Zenon DEF NotificationInv, NotificationTypeOK
  <1>5. RowsTaken'
    BY <1>1, <1>3, Zenon DEF NotificationInv, RowsTaken
  <1>6. QED BY <1>3, <1>4, <1>5, Zenon DEF NotificationInv

\* Send took the row: the job exists before the row is marked.
LEMMA CreateStep ==
  ASSUME NotificationAssumption, NotificationInv, NEW i \in worker.batch, SendCreates(i)
  PROVE  NotificationInv'
  <1> DEFINE o == outbox[i].about
  <1>1. i \in DOMAIN outbox /\ o \in Operations /\ worker.step = "send"
    <2>1. i \in DOMAIN outbox /\ outbox[i] \in Row
      BY DEF NotificationInv, NotificationTypeOK
    <2>2. o \in Operations \cup Approvals
      BY <2>1, Zenon DEF Row
    <2>3. QED BY <2>1, <2>2, Zenon DEF SendCreates, Refused
  <1>2. jobs' = Append(jobs, Created(o)) /\ UNCHANGED <<ended, outbox, consumer>>
    BY Zenon DEF SendCreates
  <1>3. CASE Fault /\ worker' = Skipped(i)
    BY <1>1, <1>2, <1>3, LeaveStep, Zenon
  <1>4. CASE NoFault /\ worker' = [worker EXCEPT !.step = "mark"]
    <2>1. /\ jobs' \in Seq(Job)
          /\ consumer' \in [Consumers -> [job : DOMAIN jobs' \cup {NoJob}, answer : Answers]]
          /\ ClaimsDisjoint' /\ PostsAnswered' /\ PostsCounted'
          /\ \A k : HasJob(k) /\ outbox'[k].about = outbox[k].about => HasJob(k)'
      BY <1>1, <1>2, JobsKept, Zenon
    <2>2. /\ worker' \in [batch : SUBSET DOMAIN outbox, step : {"send", "mark"}]
          /\ worker'.batch = worker.batch
      BY <1>4, Zenon DEF NotificationInv, NotificationTypeOK
    <2>3. NotificationTypeOK'
      BY <1>2, <1>4, <2>1, <2>2, Zenon DEF NotificationInv, NotificationTypeOK, NoFault
    <2>4. \A k \in worker'.batch : At(k)' => k = i
      <3>1. worker.batch \subseteq Nat
        BY DEF NotificationInv, NotificationTypeOK
      <3>2. QED BY <2>2, <3>1 DEF SendCreates, At
    <2>5. HasJob(i)'
      <3>1. Created(o) \in Job /\ Created(o).op = o
        BY <1>1 DEF Created, Job, Status, Live, NotificationAssumption
      <3>2. \E k \in DOMAIN jobs' : jobs'[k] = Created(o)
        BY <1>2, <3>1, JobAppended, Zenon DEF NotificationInv, NotificationTypeOK
      <3>3. QED BY <1>2, <3>1, <3>2, Zenon DEF HasJob
    <2>6. RowsTaken'
      BY <1>2, <2>1, <2>4, <2>5, Zenon DEF NotificationInv, RowsTaken
    <2>7. QED BY <2>1, <2>3, <2>6, Zenon DEF NotificationInv
  <1>5. QED BY <1>3, <1>4, Zenon DEF SendCreates

LEMMA MarkStep ==
  ASSUME NotificationAssumption, NotificationInv, NEW i \in worker.batch, MarkDelivered(i)
  PROVE  NotificationInv'
  <1> DEFINE r == [outbox[i] EXCEPT !.delivered = TRUE]
  <1>1. i \in DOMAIN outbox /\ outbox \in Seq(Row) /\ outbox[i] \in Row /\ HasJob(i)
    BY DEF NotificationInv, NotificationTypeOK, MarkDelivered, RowsTaken
  <1>2. r \in Row /\ r.about = outbox[i].about
    BY <1>1, Zenon DEF Row
  <1>3. outbox' = [outbox EXCEPT ![i] = r]
    BY Zenon DEF MarkDelivered
  <1> HIDE DEF r
  <1>4. /\ outbox' \in Seq(Row) /\ DOMAIN outbox' = DOMAIN outbox /\ outbox'[i] = r
        /\ \A k \in DOMAIN outbox : k # i => outbox'[k] = outbox[k]
    BY <1>1, <1>2, <1>3
  <1>5. /\ worker' \in [batch : SUBSET DOMAIN outbox, step : {"send", "mark"}]
        /\ worker'.step = "send"
    BY Zenon DEF MarkDelivered, Skipped, NotificationInv, NotificationTypeOK
  <1>6. /\ jobs' \in Seq(Job)
        /\ consumer' \in [Consumers -> [job : DOMAIN jobs' \cup {NoJob}, answer : Answers]]
        /\ ClaimsDisjoint' /\ PostsAnswered' /\ PostsCounted'
        /\ \A k : HasJob(k) /\ outbox'[k].about = outbox[k].about => HasJob(k)'
    BY JobsKept, Zenon DEF MarkDelivered
  <1>7. NotificationTypeOK'
    BY <1>4, <1>5, <1>6, Zenon DEF NotificationInv, NotificationTypeOK, MarkDelivered
  <1>8. \A k \in DOMAIN outbox : outbox'[k].about = outbox[k].about
    BY <1>2, <1>4, Zenon
  <1>9. \A k \in DOMAIN outbox' : outbox'[k].delivered => HasJob(k)'
    BY <1>1, <1>4, <1>6, <1>8, Zenon DEF NotificationInv, RowsTaken
  <1>10. RowsTaken'
    BY <1>5, <1>9, Zenon DEF RowsTaken
  <1>11. QED BY <1>6, <1>7, <1>10, Zenon DEF NotificationInv

-----------------------------------------------------------------------------
LEMMA InvNext ==
  ASSUME NotificationAssumption, NotificationInv, [Next]_vars
  PROVE  NotificationInv'
  <1>1. ASSUME NEW o \in Operations, EndWithRow(o) PROVE NotificationInv'
    <2>1. ended' \subseteq Operations /\ Queued(o) /\ UNCHANGED <<worker, jobs, consumer, faults>>
      BY <1>1, Zenon DEF EndWithRow, NotificationInv, NotificationTypeOK
    <2>2. QED BY <2>1, QueueStep, Zenon
  <1>2. ASSUME NEW o \in Operations, EndWithoutRow(o) PROVE NotificationInv'
    BY <1>2, EndStep, Zenon
  <1>3. ASSUME NEW a \in Approvals, ApprovalDecided(a) PROVE NotificationInv'
    <2>1. ended' \subseteq Operations /\ Queued(a) /\ UNCHANGED <<worker, jobs, consumer, faults>>
      BY <1>3, Zenon DEF ApprovalDecided, NotificationInv, NotificationTypeOK
    <2>2. QED BY <2>1, QueueStep, Zenon
  <1>4. CASE Poll
    BY <1>4, PollStep, Zenon
  <1>5. ASSUME NEW i \in worker.batch, SendFails(i) PROVE NotificationInv'
    <2>1. /\ worker' = Skipped(i) /\ (NoFault \/ Fault)
          /\ UNCHANGED jobs /\ UNCHANGED <<ended, outbox, consumer>>
      BY <1>5, Zenon DEF SendFails
    <2>2. QED BY <2>1, LeaveStep, Zenon
  <1>6. ASSUME NEW i \in worker.batch, SendCreates(i) PROVE NotificationInv'
    BY <1>6, CreateStep, Zenon
  <1>7. ASSUME NEW i \in worker.batch, MarkDelivered(i) PROVE NotificationInv'
    BY <1>7, MarkStep, Zenon
  <1>8. ASSUME NEW i \in worker.batch, WorkerStops(i) PROVE NotificationInv'
    <2>1. /\ worker' = Skipped(i) \/ worker' = Idle
          /\ Fault /\ UNCHANGED jobs /\ UNCHANGED <<ended, outbox, consumer>>
      BY <1>8, Zenon DEF WorkerStops
    <2>2. QED BY <2>1, LeaveStep, Zenon
  <1>9. ASSUME NEW c \in Consumers, ConsumerStep(c) PROVE NotificationInv'
    BY <1>9, ClaimStep, DeadlineStep, PostStep, RecordStep, Zenon DEF ConsumerStep
  <1>10. ASSUME NEW c \in Consumers, ConsumerStops(c) PROVE NotificationInv'
    BY <1>10, StopStep, Zenon
  <1>11. ASSUME NEW j \in DOMAIN jobs, RetryDue(j) \/ DayPasses(j) \/ DeleteDeadLetter(j)
         PROVE NotificationInv'
    BY <1>11, AgingStep, Zenon
  <1>12. CASE UNCHANGED vars
    BY <1>12 DEF vars, NotificationInv, NotificationTypeOK, ClaimsDisjoint, RowsTaken,
                 PostsAnswered, PostsCounted, HasJob, At, Held
  <1>13. QED
    BY <1>1, <1>2, <1>3, <1>4, <1>5, <1>6, <1>7, <1>8, <1>9, <1>10, <1>11, <1>12
       DEF Next, WorkerStep

\* The invariant holds for any number of operations, approvals, consumers,
\* retries and failures.
LEMMA NotificationInvariant ==
  Spec => []NotificationInv
  <1>1. Init => NotificationInv
    BY InvInit, NotificationAssumption, Zenon
  <1>2. NotificationInv /\ [Next]_vars => NotificationInv'
    BY InvNext, NotificationAssumption, Zenon
  <1>3. QED BY <1>1, <1>2, PTL DEF Spec

-----------------------------------------------------------------------------
(* What the notification path promises. *)

\* Every variable keeps its type; among them, a job's retry count never passes
\* MaxRetries (ShouldDeadLetter before the increment).
THEOREM NotificationTypes ==
  Spec => []NotificationTypeOK
  <1>1. NotificationInv => NotificationTypeOK
    BY Zenon DEF NotificationInv
  <1>2. QED BY <1>1, NotificationInvariant, PTL

\* An acknowledged outbox row has a job, and a job counts as delivered only
\* after the recipient was called (ProcessOnce, deliver).
THEOREM NothingLostSilently ==
  Spec => []NoSilentLoss
  <1>1. NotificationInv => NoSilentLoss
    BY Zenon DEF NotificationInv, RowsTaken, HasJob, PostsAnswered, NoSilentLoss
  <1>2. QED BY <1>1, NotificationInvariant, PTL

\* No job is in the hands of two consumers, and a job in hand is in state
\* sending (ClaimNext).
THEOREM ClaimsExclusive ==
  Spec => []ClaimsDisjoint
  <1>1. NotificationInv => ClaimsDisjoint
    BY Zenon DEF NotificationInv
  <1>2. QED BY <1>1, NotificationInvariant, PTL

\* The recipient is called at most MaxRetries + 1 times for a job, whatever
\* fails and restarts in between (ShouldDeadLetter, Recorded).
THEOREM CallsBounded ==
  Spec => []PostsBounded
  <1>1. NotificationInv => PostsBounded
    <2> SUFFICES ASSUME NotificationInv, NEW j \in DOMAIN jobs
                 PROVE  jobs[j].posts <= MaxRetries + 1
      BY Zenon DEF PostsBounded
    <2>1. jobs[j] \in Job /\ jobs[j].posts <= jobs[j].retry + 1
      BY DEF NotificationInv, NotificationTypeOK, PostsCounted
    <2>2. QED BY <2>1, NotificationAssumption, JobFields DEF NotificationAssumption
  <1>2. QED BY <1>1, NotificationInvariant, PTL

\* A job that was delivered or given up never comes back to the queue, although
\* no status update looks at the state it replaces: only the holder of a claim
\* writes, and a job in hand is in state sending (UpdateStatus, MarkDeadLetter).
THEOREM FinishedForGood ==
  Spec => FinishedJobsStay
  <1> DEFINE Stays ==
        \A j \in DOMAIN jobs :
          /\ jobs[j].status = "delivered" => jobs'[j].status = "delivered"
          /\ jobs[j].status = "dead_letter" => jobs'[j].status \in {"dead_letter", "deleted"}
  <1>1. ASSUME NotificationInv, [Next]_vars PROVE Stays
    <2>0. jobs \in Seq(Job)
      BY <1>1, Zenon DEF NotificationInv, NotificationTypeOK
    <2>1. ASSUME NEW k \in DOMAIN jobs, NEW r, jobs' = [jobs EXCEPT ![k] = r],
                 jobs[k].status \notin {"delivered", "dead_letter"}
                   \/ (jobs[k].status = "dead_letter" /\ r.status = "deleted")
          PROVE  Stays
      BY <2>0, <2>1, Zenon
    <2>2. ASSUME UNCHANGED jobs PROVE Stays
      BY <2>2, Zenon
    <2>3. ASSUME NEW i \in worker.batch, SendCreates(i) PROVE Stays
      <3>1. \A j \in DOMAIN jobs : jobs'[j] = jobs[j]
        BY <2>0, <2>3 DEF SendCreates
      <3>2. QED BY <3>1, Zenon
    <2>4. ASSUME NEW c \in Consumers, ClaimNext(c) PROVE Stays
      <3>1. PICK k \in DOMAIN jobs :
              /\ jobs[k].status \in {"pending", "failed"}
              /\ jobs' = [jobs EXCEPT ![k].status = "sending"]
        BY <2>4, Zenon DEF ClaimNext
      <3>2. QED BY <3>1, <2>1, Zenon
    <2>5. ASSUME NEW c \in Consumers, DeadlinePassed(c) \/ Post(c) \/ Record(c) PROVE Stays
      <3>1. /\ Held(c) \in DOMAIN jobs /\ jobs[Held(c)].status = "sending"
            /\ \E r : jobs' = [jobs EXCEPT ![Held(c)] = r]
        BY <1>1, <2>5, ClaimKept, Zenon DEF DeadlinePassed, Post, Record
      <3>2. QED BY <2>1, <3>1, Zenon
    <2>6. ASSUME NEW k \in DOMAIN jobs, RetryDue(k) PROVE Stays
      <3>1. jobs[k].status = "failed" /\ \E r : jobs' = [jobs EXCEPT ![k] = r]
        BY <2>6, Zenon DEF RetryDue
      <3>2. QED BY <2>1, <3>1, Zenon
    <2>7. ASSUME NEW k \in DOMAIN jobs, DayPasses(k) PROVE Stays
      <3>1. jobs[k].status \in Live /\ \E r : jobs' = [jobs EXCEPT ![k] = r]
        BY <2>7, Zenon DEF DayPasses
      <3>2. QED BY <2>1, <3>1, Zenon DEF Live
    <2>8. ASSUME NEW k \in DOMAIN jobs, DeleteDeadLetter(k) PROVE Stays
      <3>1. /\ jobs[k].status = "dead_letter"
            /\ jobs' = [jobs EXCEPT ![k] = [jobs[k] EXCEPT !.status = "deleted"]]
            /\ [jobs[k] EXCEPT !.status = "deleted"].status = "deleted"
        BY <2>0, <2>8, JobFields DEF DeleteDeadLetter
      <3>2. QED BY <2>1, <3>1, Zenon
    <2>9. QED
      BY <1>1, <2>2, <2>3, <2>4, <2>5, <2>6, <2>7, <2>8
         DEF Next, WorkerStep, ConsumerStep, EndWithRow, EndWithoutRow, ApprovalDecided, Poll,
             SendFails, MarkDelivered, WorkerStops, ConsumerStops, vars
  <1>2. NotificationInv /\ [Next]_vars => [Stays]_vars
    BY <1>1, Zenon
  <1>3. QED BY <1>2, NotificationInvariant, PTL DEF Spec, FinishedJobsStay

=============================================================================
