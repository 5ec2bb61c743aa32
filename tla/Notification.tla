---------------------------- MODULE Notification ----------------------------
(***************************************************************************)
(* The path of a terminal notification: the row that the transaction of a  *)
(* terminal transition writes to notification_outbox, the orchestrator's   *)
(* NotificationOutboxWorker that turns rows into notifier jobs, and the    *)
(* notifier's Consumer that claims jobs and posts them to the recipient.   *)
(*                                                                         *)
(* Time appears only as what it enables: a failed job becomes due again, a *)
(* job passes the 24 hours it may live, a dead letter passes its 30 days.  *)
(***************************************************************************)
EXTENDS Naturals, Sequences, FiniteSets

CONSTANTS
  Operations,   \* operations that may end
  Approvals,    \* values-approval transitions, which also write to the outbox
  Consumers,    \* notifier replicas running the consumer loop
  NoJob,        \* a consumer that holds no job
  BatchSize,    \* rows the worker takes in one poll (50 in production)
  MaxRetries,   \* RetryConfig.MaxRetries
  MaxJobs,      \* bound: jobs ever created
  MaxFaults     \* bound: failures of calls and processes

ASSUME NotificationAssumption ==
  /\ BatchSize \in Nat \ {0}
  /\ MaxRetries \in Nat \ {0}
  /\ MaxJobs \in Nat \ {0}
  /\ MaxFaults \in Nat
  /\ NoJob \notin 1 .. MaxJobs

VARIABLES
  ended,      \* operations in a terminal state
  outbox,     \* notification_outbox in (created_at, id) order
  worker,     \* the outbox worker: rows left of its batch, which it handles
              \* in order, and its next step
  jobs,       \* notification_jobs in creation order
  consumer,   \* each consumer: the job it claimed, and the answer it got
  faults      \* failures so far

vars == <<ended, outbox, worker, jobs, consumer, faults>>

Live == {"pending", "sending", "failed"}     \* the partial unique index
Status == Live \cup {"delivered", "dead_letter", "deleted"}
Answers == {"none", "accepted", "retryable", "rejected"}

Row == [about : Operations \cup Approvals, delivered : BOOLEAN]
Job == [op : Operations, status : Status, retry : 0 .. MaxRetries,
        due : BOOLEAN, old : BOOLEAN, posts : Nat]

Idle == [batch |-> {}, step |-> "send"]
Free == [job |-> NoJob, answer |-> "none"]

Init ==
  /\ ended = {}
  /\ outbox = <<>>
  /\ worker = Idle
  /\ jobs = <<>>
  /\ consumer = [c \in Consumers |-> Free]
  /\ faults = 0

Fault == faults < MaxFaults /\ faults' = faults + 1
NoFault == UNCHANGED faults

-----------------------------------------------------------------------------
(* The writers of notification_outbox. *)

Queued(row) == outbox' = Append(outbox, [about |-> row, delivered |-> FALSE])

\* transitionInTx: the row commits with the terminal state.
EndWithRow(o) ==
  /\ o \notin ended
  /\ ended' = ended \cup {o}
  /\ Queued(o)
  /\ UNCHANGED <<worker, jobs, consumer, faults>>

\* Cancel, the terminal transition of FinalizeUpgrade and the emergency Finish
\* update the operations row themselves.
EndWithoutRow(o) ==
  /\ o \notin ended
  /\ ended' = ended \cup {o}
  /\ UNCHANGED <<outbox, worker, jobs, consumer, faults>>

\* Submit, Approve and Reject of a values revision write a row of their own,
\* whose payload has no operation_id.
ApprovalDecided(a) ==
  /\ \A i \in DOMAIN outbox : outbox[i].about # a
  /\ Queued(a)
  /\ UNCHANGED <<ended, worker, jobs, consumer, faults>>

-----------------------------------------------------------------------------
(* NotificationOutboxWorker.ProcessOnce: one goroutine, one batch a poll. *)

Undelivered == {i \in DOMAIN outbox : ~outbox[i].delivered}

ListUndelivered ==
  {i \in Undelivered : Cardinality({k \in Undelivered : k < i}) < BatchSize}

\* The row the worker is at.
At(i) == i \in worker.batch /\ \A k \in worker.batch : i <= k

Skipped(i) == [batch |-> worker.batch \ {i}, step |-> "send"]

Poll ==
  /\ worker.batch = {}
  /\ Undelivered # {}
  /\ worker' = [batch |-> ListUndelivered, step |-> "send"]
  /\ UNCHANGED <<ended, outbox, jobs, consumer, faults>>

\* The unique index on (operation_id, channel, recipient) covers live jobs only.
Conflicts(o) == \E j \in DOMAIN jobs : jobs[j].op = o /\ jobs[j].status \in Live

Created(o) == [op |-> o, status |-> "pending", retry |-> 0,
               due |-> TRUE, old |-> FALSE, posts |-> 0]

\* A payload without an operation_id, and one whose INSERT meets the index.
Refused(o) == o \in Approvals \/ Conflicts(o)

\* Mutant of SendFails: a failed send is acknowledged.
SendFailsAcked(i) ==
  /\ At(i) /\ worker.step = "send"
  /\ IF Refused(outbox[i].about) THEN NoFault ELSE Fault
  /\ worker' = [worker EXCEPT !.step = "mark"]
  /\ UNCHANGED <<ended, outbox, jobs, consumer>>

\* Send fails: no operation_id, the notifier is not reached, or its INSERT
\* meets the index. The row stays queued.
SendFails(i) ==
  /\ At(i) /\ worker.step = "send"
  /\ IF Refused(outbox[i].about) THEN NoFault ELSE Fault
  /\ worker' = Skipped(i)
  /\ UNCHANGED <<ended, outbox, jobs, consumer>>

\* Send creates the job; the answer may not come back.
SendCreates(i) ==
  /\ At(i) /\ worker.step = "send"
  /\ ~Refused(outbox[i].about)
  /\ Len(jobs) < MaxJobs
  /\ jobs' = Append(jobs, Created(outbox[i].about))
  /\ \/ NoFault /\ worker' = [worker EXCEPT !.step = "mark"]
     \/ Fault /\ worker' = Skipped(i)
  /\ UNCHANGED <<ended, outbox, consumer>>

MarkDelivered(i) ==
  /\ At(i) /\ worker.step = "mark"
  /\ outbox' = [outbox EXCEPT ![i].delivered = TRUE]
  /\ worker' = Skipped(i)
  /\ UNCHANGED <<ended, jobs, consumer, faults>>

\* The acknowledgement fails, or the orchestrator stops with a batch in hand.
WorkerStops(i) ==
  /\ Fault
  /\ At(i)
  /\ \/ worker' = Idle
     \/ worker.step = "mark" /\ worker' = Skipped(i)
  /\ UNCHANGED <<ended, outbox, jobs, consumer>>

-----------------------------------------------------------------------------
(* The notifier's consumer loop. *)

Held(c) == consumer[c].job

\* Mutants of ClaimNext: without the row lock, and without the failed jobs.
ClaimNextShared(c) ==
  /\ Held(c) = NoJob
  /\ \E j \in DOMAIN jobs :
       /\ jobs[j].status \in Live
       /\ jobs[j].due
       /\ jobs' = [jobs EXCEPT ![j].status = "sending"]
       /\ consumer' = [consumer EXCEPT ![c] = [job |-> j, answer |-> "none"]]
  /\ UNCHANGED <<ended, outbox, worker, faults>>

ClaimNextPending(c) ==
  /\ Held(c) = NoJob
  /\ \E j \in DOMAIN jobs :
       /\ jobs[j].status = "pending"
       /\ jobs' = [jobs EXCEPT ![j].status = "sending"]
       /\ consumer' = [consumer EXCEPT ![c] = [job |-> j, answer |-> "none"]]
  /\ UNCHANGED <<ended, outbox, worker, faults>>

\* FOR UPDATE SKIP LOCKED makes the claim one atomic step; created_at has a
\* resolution of a second, so of the jobs of a burst any may be the oldest.
ClaimNext(c) ==
  /\ Held(c) = NoJob
  /\ \E j \in DOMAIN jobs :
       /\ jobs[j].status \in {"pending", "failed"}
       /\ jobs[j].due
       /\ jobs' = [jobs EXCEPT ![j].status = "sending"]
       /\ consumer' = [consumer EXCEPT ![c] = [job |-> j, answer |-> "none"]]
  /\ UNCHANGED <<ended, outbox, worker, faults>>

\* deliver: past its deadline the job is not posted any more.
DeadlinePassed(c) ==
  /\ Held(c) # NoJob /\ consumer[c].answer = "none"
  /\ jobs[Held(c)].old
  /\ jobs' = [jobs EXCEPT ![Held(c)].status = "dead_letter"]
  /\ consumer' = [consumer EXCEPT ![c] = Free]
  /\ UNCHANGED <<ended, outbox, worker, faults>>

\* The POST and its classification: 2xx, a 4xx other than 429, and the rest.
Post(c) ==
  /\ Held(c) # NoJob /\ consumer[c].answer = "none"
  /\ ~jobs[Held(c)].old
  /\ jobs' = [jobs EXCEPT ![Held(c)].posts = @ + 1]
  /\ \E a \in Answers \ {"none"} :
       consumer' = [consumer EXCEPT ![c].answer = a]
  /\ UNCHANGED <<ended, outbox, worker, faults>>

ShouldDeadLetter(job, answer) ==
  \/ answer = "rejected"
  \/ MaxRetries > 0 /\ job.retry >= MaxRetries
  \/ job.old

\* Mutant of Recorded: the retry is not counted.
RecordedUncounted(job, answer) ==
  IF answer = "accepted" THEN [job EXCEPT !.status = "delivered", !.due = TRUE]
  ELSE IF ShouldDeadLetter(job, answer) THEN [job EXCEPT !.status = "dead_letter"]
  ELSE [job EXCEPT !.status = "failed", !.due = FALSE]

\* The status update names the job by id alone and does not look at its state.
Recorded(job, answer) ==
  IF answer = "accepted" THEN [job EXCEPT !.status = "delivered", !.due = TRUE]
  ELSE IF ShouldDeadLetter(job, answer) THEN [job EXCEPT !.status = "dead_letter"]
  ELSE [job EXCEPT !.status = "failed", !.retry = @ + 1, !.due = FALSE]

Record(c) ==
  /\ Held(c) # NoJob /\ consumer[c].answer # "none"
  /\ jobs' = [jobs EXCEPT ![Held(c)] = Recorded(@, consumer[c].answer)]
  /\ consumer' = [consumer EXCEPT ![c] = Free]
  /\ UNCHANGED <<ended, outbox, worker, faults>>

\* The notifier stops, or the update fails: nothing takes the claim back.
ConsumerStops(c) ==
  /\ Fault
  /\ Held(c) # NoJob
  /\ consumer' = [consumer EXCEPT ![c] = Free]
  /\ UNCHANGED <<ended, outbox, worker, jobs>>

RetryDue(j) ==
  /\ jobs[j].status = "failed" /\ ~jobs[j].due
  /\ jobs' = [jobs EXCEPT ![j].due = TRUE]
  /\ UNCHANGED <<ended, outbox, worker, consumer, faults>>

DayPasses(j) ==
  /\ jobs[j].status \in Live /\ ~jobs[j].old
  /\ jobs' = [jobs EXCEPT ![j].old = TRUE]
  /\ UNCHANGED <<ended, outbox, worker, consumer, faults>>

DeleteDeadLetter(j) ==
  /\ jobs[j].status = "dead_letter"
  /\ jobs' = [jobs EXCEPT ![j].status = "deleted"]
  /\ UNCHANGED <<ended, outbox, worker, consumer, faults>>

-----------------------------------------------------------------------------
WorkerStep ==
  Poll \/ \E i \in worker.batch : SendFails(i) \/ SendCreates(i) \/ MarkDelivered(i)
ConsumerStep(c) == ClaimNext(c) \/ DeadlinePassed(c) \/ Post(c) \/ Record(c)

Next ==
  \/ \E o \in Operations : EndWithRow(o) \/ EndWithoutRow(o)
  \/ \E a \in Approvals : ApprovalDecided(a)
  \/ WorkerStep
  \/ \E i \in worker.batch : WorkerStops(i)
  \/ \E c \in Consumers : ConsumerStep(c) \/ ConsumerStops(c)
  \/ \E j \in DOMAIN jobs : RetryDue(j) \/ DayPasses(j) \/ DeleteDeadLetter(j)

Spec == Init /\ [][Next]_vars

\* The poll tickers keep both loops going, and a retry time comes.
FairSpec ==
  /\ Spec
  /\ WF_vars(WorkerStep)
  /\ \A c \in Consumers : WF_vars(ConsumerStep(c))
  /\ \A j \in 1 .. MaxJobs : WF_vars(j \in DOMAIN jobs /\ RetryDue(j))

-----------------------------------------------------------------------------
(* Properties. *)

\* The types; among them that a job's retry count never
\* passes MaxRetries (ShouldDeadLetter before the increment).
NotificationTypeOK ==
  /\ ended \subseteq Operations
  /\ outbox \in Seq(Row)
  /\ worker \in [batch : SUBSET DOMAIN outbox, step : {"send", "mark"}]
  /\ jobs \in Seq(Job)
  /\ consumer \in [Consumers -> [job : DOMAIN jobs \cup {NoJob}, answer : Answers]]
  /\ faults \in 0 .. MaxFaults

\* A row is acknowledged only after a job took it over, and that job counts as
\* delivered only if the recipient was called: whatever the order of failed
\* sends, lost answers and restarts, an acknowledgement never stands for a
\* notification nobody tried to deliver (ProcessOnce, deliver).
NoSilentLoss ==
  \A i \in DOMAIN outbox : outbox[i].delivered =>
    \E j \in DOMAIN jobs :
      jobs[j].op = outbox[i].about /\ (jobs[j].status = "delivered" => jobs[j].posts > 0)

\* Two consumers never work on one job, and a job being worked on is in state
\* sending: the updates after a delivery name the job by id only, so this is
\* all that keeps one consumer from overwriting the outcome of another
\* (ClaimNext, UpdateStatus).
ClaimsDisjoint ==
  \A c \in Consumers : Held(c) # NoJob =>
    /\ jobs[Held(c)].status = "sending"
    /\ \A d \in Consumers \ {c} : Held(d) # Held(c)

\* The recipient is called at most once plus MaxRetries times for a job, under
\* every mix of answers, deadlines and restarts (ShouldDeadLetter).
PostsBounded == \A j \in DOMAIN jobs : jobs[j].posts <= MaxRetries + 1

\* A job that was delivered or given up never comes back to the queue
\* (UpdateStatus and MarkDeadLetter have no condition on the old state).
FinishedJobsStay ==
  [][\A j \in DOMAIN jobs :
       /\ jobs[j].status = "delivered" => jobs'[j].status = "delivered"
       /\ jobs[j].status = "dead_letter" => jobs'[j].status \in {"dead_letter", "deleted"}]_vars

Finished(o) ==
  \E j \in DOMAIN jobs : jobs[j].op = o /\ jobs[j].status \notin Live

\* A consumer stopped with the job in hand.
Abandoned(o) ==
  \E j \in DOMAIN jobs :
    jobs[j].op = o /\ jobs[j].status = "sending" /\ \A c \in Consumers : Held(c) # j

\* The row of an operation that ended leads to a delivery or a dead letter: the
\* two queues hand it on and the retries come to an end, once the failures do.
\* The one exception is a claim whose consumer stopped.
QueuedIsSettled ==
  \A o \in Operations :
    (\E i \in DOMAIN outbox : outbox[i].about = o) ~> (Finished(o) \/ Abandoned(o))

\* "Duplicates that a retry produces are absorbed by Send's own idempotency"
\* (notification_outbox_worker.go): the recipient accepts one notification for
\* an operation.
NotifiedOnce ==
  \A j, k \in DOMAIN jobs :
    jobs[j].op = jobs[k].op /\ jobs[j].status = "delivered" /\ jobs[k].status = "delivered"
      => j = k

\* "Deadline for how long a job can stay alive before dead-letter"
\* (consumer.go): every job is delivered or given up in the end.
JobsFinish ==
  \A j \in 1 .. MaxJobs : (j \in DOMAIN jobs) ~> (j \in DOMAIN jobs /\ jobs[j].status \notin Live)

\* "queue the OperationTerminal notification in the SAME transaction as the
\* terminal transition" (operations.go): an operation that ended has its row.
TerminalIsQueued ==
  \A o \in ended : \E i \in DOMAIN outbox : outbox[i].about = o

\* "a row is written inside the transition that owns it and delivered by
\* exactly one drain" (notification_outbox.go): the row of an operation that
\* ended is acknowledged in the end.
RowsDrain ==
  \A o \in Operations :
    (\E i \in DOMAIN outbox : outbox[i].about = o)
      ~> (\E i \in DOMAIN outbox : outbox[i].about = o /\ outbox[i].delivered)

=============================================================================
