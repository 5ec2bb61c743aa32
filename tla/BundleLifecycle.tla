-------------------------- MODULE BundleLifecycle --------------------------
(***************************************************************************)
(* A release bundle from its submission to its deletion: SubmitBundle and  *)
(* its idempotency record, the ValidationWorker that empties               *)
(* bundle_validation_outbox, CreateOperation that makes a bundle a         *)
(* definition's current one, UnarchiveBundle, and the garbage collector    *)
(* (runGC) that archives, deletes and sweeps behind all of them. Candidate *)
(* artifacts come with a bundle or from a registry event.                  *)
(*                                                                         *)
(* A submission generates the id of the row it may insert, so the row      *)
(* bears the submission's name. Every statement outside a transaction is a *)
(* step of its own: the collector holds no lock a handler waits for. Time  *)
(* is what it enables: a bundle passes its retention, an archived one its  *)
(* grace, an orphan and an idempotency record their life. Grace and life   *)
(* are a day at least and a cycle half an hour at most, so neither runs    *)
(* out within a cycle that has not counted it from the start.              *)
(***************************************************************************)
EXTENDS Naturals, FiniteSets

CONSTANTS
  Submissions,   \* SubmitBundle calls
  Requests,      \* what a call may send
  Offered,       \* the requests considered for each call
  Digest,        \* canonicalBundleDigest of a request
  Key,           \* its Idempotency-Key within its scope; outside Keys for none
  Keys,
  Contents,      \* the candidate artifacts a request carries
  Reach,         \* the artifacts that bear one of its chart and image digests
  Artifacts,     \* candidate artifacts, by (digest, type)
  Definitions,
  NoBundle,
  BatchLimit,    \* rows of a collector's batch (gcBatchLimit)
  MaxFaults      \* bound: failures of calls and processes

ASSUME BundleAssumption ==
  /\ IsFiniteSet(Submissions)
  /\ Offered \in [Submissions -> SUBSET Requests]
  /\ Contents \in [Requests -> SUBSET Artifacts]
  /\ Reach \in [Requests -> SUBSET Artifacts]
  /\ DOMAIN Digest = Requests /\ DOMAIN Key = Requests
  /\ NoBundle \notin Submissions
  /\ BatchLimit \in Nat \ {0}
  /\ MaxFaults \in Nat

VARIABLES
  request,    \* what each call sends
  call,       \* each submission's next step
  answer,     \* the row a submission was answered with
  record,     \* idempotency_records: the row each key names
  lapsed,     \* keys whose record is past expires_at
  status,     \* release_bundles.status
  before,     \* release_bundles.archived_from_status
  age,        \* whether a row passed its retention, and its archive grace
  links,      \* bundle_candidate_artifacts
  candidate,  \* candidate_artifacts: seen, or with validated_at
  orphan,     \* candidate_artifacts.orphaned_at: NULL, set, past its life
  outbox,     \* bundle_validation_outbox.status
  job,        \* what the validation worker holds of an entry
  enabled,    \* release_definitions.status is active
  current,    \* release_definitions.current_bundle_id
  asked,      \* the bundle CreateOperation has checked for a definition
  using,      \* the bundle of a definition's unfinished operation
  gc,         \* the statement the collector is at
  listed,     \* the ids ListForArchive returned
  faults      \* failures so far

submitting == <<request, call, answer, record, lapsed>>
bundle     == <<status, before, age, links>>
artifact   == <<candidate, orphan>>
validation == <<outbox, job>>
release    == <<enabled, current, asked, using>>
collector  == <<gc, listed>>
vars == <<submitting, bundle, artifact, validation, release, collector, faults>>

Bundles  == Submissions
MayBe    == Bundles \cup {NoBundle}
Calls    == {"idle", "insert", "recheck", "by_digest", "done", "failed"}
Statuses == {"none", "received", "validated", "archived", "deleted"}
Ages     == {"young", "old", "past"}
Orphans  == {"no", "marked", "stale"}
Jobs     == {"none", "claimed", "received", "settled"}
Outboxes == {"none", "pending", "running", "failed", "completed"}
Steps    == {"idle", "list", "archive", "clear", "mark", "delete", "sweep", "purge"}

Init ==
  /\ request \in [Submissions -> Requests]
  /\ \A s \in Submissions : request[s] \in Offered[s]
  /\ call = [s \in Submissions |-> "idle"]
  /\ answer = [s \in Submissions |-> NoBundle]
  /\ record = [k \in Keys |-> NoBundle]
  /\ lapsed = {}
  /\ status = [b \in Bundles |-> "none"]
  /\ before = [b \in Bundles |-> "none"]
  /\ age = [b \in Bundles |-> "young"]
  /\ links = [b \in Bundles |-> {}]
  /\ candidate = [a \in Artifacts |-> "none"]
  /\ orphan = [a \in Artifacts |-> "no"]
  /\ outbox = [b \in Bundles |-> "none"]
  /\ job = [b \in Bundles |-> "none"]
  /\ enabled = Definitions
  /\ current = [d \in Definitions |-> NoBundle]
  /\ asked = [d \in Definitions |-> NoBundle]
  /\ using = [d \in Definitions |-> NoBundle]
  /\ gc = "idle"
  /\ listed = {}
  /\ faults = 0

Fault == faults < MaxFaults /\ faults' = faults + 1

DigestOf(s) == Digest[request[s]]
KeyOf(s) == Key[request[s]]
Carried(s) == Contents[request[s]]

Exists(b) == status[b] \notin {"none", "deleted"}
Same(b) == {c \in Bundles : DigestOf(c) = DigestOf(b) /\ Exists(c)}
LinkedTo(a) == {b \in Bundles : a \in links[b]}

\* A row the decision table of setCurrentBundle lets an operation use.
Ready(b) == status[b] = "validated" \/ (status[b] = "archived" /\ before[b] = "validated")

-----------------------------------------------------------------------------
(* SubmitBundle *)

Answered(s, b) ==
  /\ call' = [call EXCEPT ![s] = "done"]
  /\ answer' = [answer EXCEPT ![s] = b]
  /\ UNCHANGED request

Step(s, next) ==
  /\ call' = [call EXCEPT ![s] = next]
  /\ UNCHANGED <<request, answer>>

\* loadIdempotentBundle: a record past expires_at, and one whose row is gone,
\* count as none.
HasKey(s) == KeyOf(s) \in Keys
NoRecord(s) == HasKey(s) => record[KeyOf(s)] = NoBundle \/ KeyOf(s) \in lapsed
Replay(s) == record[KeyOf(s)]
KeyConflictNever(s) == FALSE
KeyConflict(s) == DigestOf(Replay(s)) # DigestOf(s)

Lookup(s, next) ==
  /\ \/ NoRecord(s) /\ Step(s, next)
     \/ ~ NoRecord(s) /\ KeyConflict(s) /\ Step(s, "failed")
     \/ ~ NoRecord(s) /\ ~ KeyConflict(s) /\ ~ Exists(Replay(s)) /\ Step(s, next)
     \/ ~ NoRecord(s) /\ ~ KeyConflict(s) /\ Exists(Replay(s)) /\ Answered(s, Replay(s))
  /\ UNCHANGED <<record, lapsed, bundle, artifact, validation, release, collector, faults>>

SubmitLookup(s)  == call[s] = "idle" /\ Lookup(s, "insert")
SubmitRecheck(s) == call[s] = "recheck" /\ Lookup(s, "by_digest")

\* UpsertTx and LinkToBundleTx of one transaction.
Seen(A) == [a \in Artifacts |-> IF a \in A /\ candidate[a] = "none" THEN "seen" ELSE candidate[a]]
Adopted(A) == [a \in Artifacts |-> IF a \in A THEN "no" ELSE orphan[a]]

\* submitBundleTx: the unique digest index refuses a second row of a content,
\* the key of idempotency_records a second record, even of a lapsed one.
Refused(s) == Same(s) # {} \/ (HasKey(s) /\ record[KeyOf(s)] # NoBundle)

SubmitInsert(s) ==
  /\ call[s] = "insert" /\ ~ Refused(s)
  /\ Answered(s, s)
  /\ record' = [k \in Keys |-> IF k = KeyOf(s) THEN s ELSE record[k]]
  /\ status' = [status EXCEPT ![s] = "received"]
  /\ links' = [links EXCEPT ![s] = Carried(s)]
  /\ candidate' = Seen(Carried(s))
  /\ orphan' = Adopted(Carried(s))
  /\ outbox' = [outbox EXCEPT ![s] = "pending"]
  /\ UNCHANGED <<lapsed, before, age, job, release, collector, faults>>

SubmitRefused(s) ==
  /\ call[s] = "insert" /\ Refused(s)
  /\ Step(s, "recheck")
  /\ UNCHANGED <<record, lapsed, bundle, artifact, validation, release, collector, faults>>

\* GetByDigest of the row another submission inserted.
SubmitByDigest(s) ==
  /\ call[s] = "by_digest"
  /\ \/ \E b \in Same(s) : Answered(s, b)
     \/ Same(s) = {} /\ Step(s, "failed")
  /\ UNCHANGED <<record, lapsed, bundle, artifact, validation, release, collector, faults>>

RecordLapse(k) ==
  /\ record[k] # NoBundle /\ k \notin lapsed
  /\ lapsed' = lapsed \cup {k}
  /\ UNCHANGED <<request, call, answer, record, bundle, artifact, validation, release, collector, faults>>

\* RecordArtifactEvent registers what the registry announces; it links nothing.
ArtifactEvent(a) ==
  /\ candidate[a] = "none"
  /\ candidate' = Seen({a})
  /\ UNCHANGED <<submitting, bundle, orphan, validation, release, collector, faults>>

-----------------------------------------------------------------------------
(* ValidationWorker *)

\* ClaimPending; a failed entry is due again after its backoff.
DueOnce(b) == outbox[b] = "pending"
Due(b) == outbox[b] \in {"pending", "failed"}

Claim(b) ==
  /\ Due(b) /\ job[b] = "none"
  /\ outbox' = [outbox EXCEPT ![b] = "running"]
  /\ job' = [job EXCEPT ![b] = "claimed"]
  /\ UNCHANGED <<submitting, bundle, artifact, release, collector, faults>>

\* processEntry reads the row; verifyDigestParity accepts whatever it is given.
JobRead(b) ==
  /\ job[b] = "claimed"
  /\ job' = [job EXCEPT ![b] = IF status[b] = "received" THEN "received" ELSE "settled"]
  /\ UNCHANGED <<submitting, bundle, artifact, outbox, release, collector, faults>>

Drop(b) == job' = [job EXCEPT ![b] = "none"]
Entry(b, to) == outbox' = [outbox EXCEPT ![b] = IF @ = "none" THEN @ ELSE to]

\* recordError
JobReadFails(b) ==
  /\ job[b] = "claimed" /\ Fault
  /\ Drop(b) /\ Entry(b, "failed")
  /\ UNCHANGED <<submitting, bundle, artifact, release, collector>>

\* MarkValidatedForBundleTx
MarkValidated(b) ==
  [a \in Artifacts |-> IF a \in links[b] THEN "validated" ELSE candidate[a]]

\* UpdateStatusTx finds the row received, or the transaction rolls back.
StillReceived(b) == status[b] = "received"

JobValidate(b) ==
  /\ job[b] = "received" /\ Drop(b)
  /\ IF StillReceived(b)
     THEN /\ status' = [status EXCEPT ![b] = "validated"]
          /\ candidate' = MarkValidated(b)
          /\ Entry(b, "completed")
     ELSE UNCHANGED <<status, candidate, outbox>>
  /\ UNCHANGED <<submitting, before, age, links, orphan, release, collector, faults>>

\* markCompleted
JobClose(b) ==
  /\ job[b] = "settled"
  /\ Drop(b) /\ Entry(b, "completed")
  /\ UNCHANGED <<submitting, bundle, artifact, release, collector, faults>>

\* The transaction fails, or the process stops: the entry stays running.
JobLost(b) ==
  /\ job[b] # "none" /\ Fault
  /\ Drop(b)
  /\ UNCHANGED <<submitting, bundle, artifact, outbox, release, collector>>

-----------------------------------------------------------------------------
(* CreateOperation, UnarchiveBundle *)

\* The checks of the handler, before its transaction.
OperationCheck(d, b) ==
  /\ d \in enabled /\ using[d] = NoBundle /\ asked[d] = NoBundle
  /\ Ready(b)
  /\ asked' = [asked EXCEPT ![d] = b]
  /\ UNCHANGED <<submitting, bundle, artifact, validation, enabled, current, using, collector, faults>>

Restore(b) ==
  /\ status' = [status EXCEPT ![b] = "validated"]
  /\ before' = [before EXCEPT ![b] = "none"]
  /\ age' = [age EXCEPT ![b] = IF @ = "past" THEN "old" ELSE @]

\* createOperationUnitOfWork: setCurrentBundle under FOR UPDATE, then
\* linkCandidateArtifacts.
OperationCommit(d) ==
  LET b == asked[d] IN
  /\ b # NoBundle
  /\ asked' = [asked EXCEPT ![d] = NoBundle]
  /\ IF Ready(b)
     THEN /\ Restore(b)
          /\ current' = [current EXCEPT ![d] = b]
          /\ using' = [using EXCEPT ![d] = b]
          /\ links' = [links EXCEPT ![b] = @ \cup {a \in Reach[request[b]] : candidate[a] # "none"}]
          /\ orphan' = Adopted(links'[b])
     ELSE UNCHANGED <<bundle, current, using, orphan>>
  /\ UNCHANGED <<submitting, candidate, validation, enabled, collector, faults>>

OperationEnd(d) ==
  /\ using[d] # NoBundle
  /\ using' = [using EXCEPT ![d] = NoBundle]
  /\ UNCHANGED <<submitting, bundle, artifact, validation, enabled, current, asked, collector, faults>>

DisableDefinition(d) ==
  /\ d \in enabled
  /\ enabled' = enabled \ {d}
  /\ UNCHANGED <<submitting, bundle, artifact, validation, current, asked, using, collector, faults>>

\* Unarchive
Restorable(b) == status[b] = "archived" /\ before[b] = "validated"

Unarchive(b) ==
  /\ Restorable(b)
  /\ Restore(b)
  /\ UNCHANGED <<submitting, links, artifact, validation, release, collector, faults>>

-----------------------------------------------------------------------------
(* Time *)

RetentionPasses(b) ==
  /\ Exists(b) /\ age[b] = "young"
  /\ age' = [age EXCEPT ![b] = "old"]
  /\ UNCHANGED <<submitting, status, before, links, artifact, validation, release, collector, faults>>

GracePasses(b) ==
  /\ gc = "idle" /\ status[b] = "archived" /\ age[b] = "old"
  /\ age' = [age EXCEPT ![b] = "past"]
  /\ UNCHANGED <<submitting, status, before, links, artifact, validation, release, collector, faults>>

OrphanLifePasses(a) ==
  /\ gc = "idle" /\ orphan[a] = "marked"
  /\ orphan' = [orphan EXCEPT ![a] = "stale"]
  /\ UNCHANGED <<submitting, bundle, candidate, validation, release, collector, faults>>

-----------------------------------------------------------------------------
(* runGC. The advisory lock lets one cycle run at a time. *)

\* What a statement with LIMIT may take of the rows that match. The code orders
\* them by age; here any of them may come first.
Batches(S) ==
  {W \in SUBSET S : Cardinality(W) = BatchLimit \/ (W = S /\ Cardinality(S) < BatchLimit)}

\* ListForArchive
Unreferenced(b) ==
  \A d \in Definitions : (d \in enabled => current[d] # b) /\ using[d] # b
Archivable(b) == status[b] \in {"received", "validated"}
Past == {b \in Bundles : status[b] = "archived" /\ age[b] = "past"}

At(step) == gc = step
Goto(step) == gc' = step
NextPhaseNever(step) == "idle"
NextPhase(step) ==
  CASE step \in {"list", "archive"} -> "clear"
    [] step \in {"clear", "mark", "delete"} -> "sweep"
    [] step = "sweep" -> "purge"
    [] step = "purge" -> "idle"

CycleStart ==
  /\ At("idle") /\ Goto("list")
  /\ UNCHANGED <<submitting, bundle, artifact, validation, release, listed, faults>>

ListForArchive ==
  /\ At("list")
  /\ listed' \in Batches({b \in Bundles : Archivable(b) /\ age[b] # "young" /\ Unreferenced(b)})
  /\ Goto(IF listed' = {} THEN NextPhase("list") ELSE "archive")
  /\ UNCHANGED <<submitting, bundle, artifact, validation, release, faults>>

\* archived_from_status takes the status the row had.
Remembered(rows) == [b \in Bundles |-> IF b \in rows THEN status[b] ELSE before[b]]

\* Archive checks the status again, and nothing else.
Archive ==
  LET rows == {b \in listed : Archivable(b)} IN
  /\ At("archive")
  /\ status' = [b \in Bundles |-> IF b \in rows THEN "archived" ELSE status[b]]
  /\ before' = Remembered(rows)
  /\ listed' = {}
  /\ Goto(IF rows = {} THEN NextPhase("archive") ELSE "list")
  /\ UNCHANGED <<submitting, age, links, artifact, validation, release, faults>>

\* The three statements of deleteExpiredBundles, each with its own batch.
ClearNothing(W) == current
Clear(W) == [d \in Definitions |-> IF current[d] \in W THEN NoBundle ELSE current[d]]

DeleteClear ==
  /\ At("clear") /\ Goto("mark")
  /\ \E W \in Batches(Past) : current' = Clear(W)
  /\ UNCHANGED <<submitting, bundle, artifact, validation, enabled, asked, using, listed, faults>>

Mark(W) ==
  [a \in Artifacts |->
     IF orphan[a] = "no" /\ LinkedTo(a) # {} /\ LinkedTo(a) \subseteq W THEN "marked" ELSE orphan[a]]

DeleteMark ==
  /\ At("mark") /\ Goto("delete")
  /\ \E W \in Batches(Past) : orphan' = Mark(W)
  /\ UNCHANGED <<submitting, bundle, candidate, validation, release, listed, faults>>

DeleteRows ==
  /\ At("delete")
  /\ \E W \in Batches(Past) :
       /\ status' = [b \in Bundles |-> IF b \in W THEN "deleted" ELSE status[b]]
       /\ before' = [b \in Bundles |-> IF b \in W THEN "none" ELSE before[b]]
       /\ links' = [b \in Bundles |-> IF b \in W THEN {} ELSE links[b]]
       /\ outbox' = [b \in Bundles |-> IF b \in W THEN "none" ELSE outbox[b]]
       /\ Goto(IF Cardinality(W) = BatchLimit THEN "clear" ELSE NextPhase("delete"))
  /\ UNCHANGED <<submitting, age, artifact, job, release, listed, faults>>

\* DeleteOrphanBefore
SweepableLinked(a) == orphan[a] = "stale"
Sweepable(a) == orphan[a] = "stale" /\ LinkedTo(a) = {}

OrphanSweep ==
  /\ At("sweep")
  /\ \E W \in Batches({a \in Artifacts : Sweepable(a)}) :
       /\ candidate' = [a \in Artifacts |-> IF a \in W THEN "none" ELSE candidate[a]]
       /\ orphan' = [a \in Artifacts |-> IF a \in W THEN "no" ELSE orphan[a]]
       /\ links' = [b \in Bundles |-> links[b] \ W]
       /\ Goto(IF Cardinality(W) = BatchLimit THEN "sweep" ELSE NextPhase("sweep"))
  /\ UNCHANGED <<submitting, status, before, age, validation, release, listed, faults>>

\* Phase 6, idempotency_records past expires_at.
RecordPurge ==
  /\ At("purge") /\ Goto(NextPhase("purge"))
  /\ record' = [k \in Keys |-> IF k \in lapsed THEN NoBundle ELSE record[k]]
  /\ lapsed' = {}
  /\ UNCHANGED <<request, call, answer, bundle, artifact, validation, release, listed, faults>>

\* A statement that fails ends its phase only; the guard's deadline and a crash
\* end the cycle.
PhaseFails ==
  /\ gc # "idle" /\ Fault
  /\ gc' \in {NextPhase(gc), "idle"}
  /\ listed' = {}
  /\ UNCHANGED <<submitting, bundle, artifact, validation, release>>

-----------------------------------------------------------------------------
SubmitStep(s) ==
  SubmitLookup(s) \/ SubmitInsert(s) \/ SubmitRefused(s) \/ SubmitRecheck(s) \/ SubmitByDigest(s)
ValidationStep(b) == Claim(b) \/ JobRead(b) \/ JobValidate(b) \/ JobClose(b)
ValidationFails(b) == JobReadFails(b) \/ JobLost(b)
OperationStep(d) ==
  (\E b \in Bundles : OperationCheck(d, b)) \/ OperationCommit(d) \/ OperationEnd(d) \/ DisableDefinition(d)
CollectorStep ==
  \/ CycleStart \/ ListForArchive \/ Archive
  \/ DeleteClear \/ DeleteMark \/ DeleteRows \/ OrphanSweep \/ RecordPurge
TimePasses ==
  \/ \E b \in Bundles : RetentionPasses(b) \/ GracePasses(b)
  \/ \E a \in Artifacts : OrphanLifePasses(a)
  \/ \E k \in Keys : RecordLapse(k)

Next ==
  \/ \E s \in Submissions : SubmitStep(s)
  \/ \E a \in Artifacts : ArtifactEvent(a)
  \/ \E b \in Bundles : ValidationStep(b) \/ ValidationFails(b) \/ Unarchive(b)
  \/ \E d \in Definitions : OperationStep(d)
  \/ CollectorStep \/ PhaseFails
  \/ TimePasses

Spec == Init /\ [][Next]_vars

\* The worker and the collector run on tickers; nothing else has to happen.
Fairness == WF_vars(CollectorStep) /\ \A b \in Bundles : WF_vars(ValidationStep(b))
FairSpec == Spec /\ Fairness

-----------------------------------------------------------------------------
(* Properties *)

\* The columns hold values the code writes there; archived_from_status is never
\* archived itself (Archive).
BundleTypeOK ==
  /\ request \in [Submissions -> Requests]
  /\ call \in [Submissions -> Calls] /\ answer \in [Submissions -> MayBe]
  /\ record \in [Keys -> MayBe] /\ lapsed \in SUBSET Keys
  /\ status \in [Bundles -> Statuses]
  /\ before \in [Bundles -> {"none", "received", "validated"}]
  /\ age \in [Bundles -> Ages] /\ links \in [Bundles -> SUBSET Artifacts]
  /\ candidate \in [Artifacts -> {"none", "seen", "validated"}]
  /\ orphan \in [Artifacts -> Orphans]
  /\ outbox \in [Bundles -> Outboxes] /\ job \in [Bundles -> Jobs]
  /\ enabled \in SUBSET Definitions /\ current \in [Definitions -> MayBe]
  /\ asked \in [Definitions -> MayBe] /\ using \in [Definitions -> MayBe]
  /\ gc \in Steps /\ listed \in SUBSET Bundles /\ faults \in 0 .. MaxFaults

\* The sweep of orphans (DeleteOrphanBefore, whose DELETE cascades to the links)
\* never takes an artifact of a bundle that is still there, not even of one
\* UnarchiveBundle brought back after its artifacts were marked.
ContentsKept ==
  \A b \in Bundles : Exists(b) => \A a \in Carried(b) : a \in links[b] /\ candidate[a] # "none"

\* A bundle an operation may use has been validated with everything it carries
\* (processEntry's transaction), however often it was archived and restored.
ReadyIsValidated ==
  \A b \in Bundles : Ready(b) =>
     outbox[b] = "completed" /\ \A a \in Carried(b) : candidate[a] = "validated"

\* deleteExpiredBundles leaves no current_bundle_id that names a deleted row,
\* though operations restore rows between its statements.
CurrentExists == \A d \in Definitions : current[d] # NoBundle => Exists(current[d])

\* deleteExpiredBundles marks every artifact that loses its last bundle, so that
\* the sweep finds it.
OrphansMarked ==
  \A a \in Artifacts : candidate[a] = "validated" /\ LinkedTo(a) = {} => orphan[a] # "no"

\* Submit answers a call with a row of its own content; two calls of one content
\* get the same row unless the collector deleted it in between.
AnswersAgree ==
  \A s, t \in Submissions :
     call[s] = "done" /\ call[t] = "done" =>
       /\ DigestOf(answer[s]) = DigestOf(s)
       /\ DigestOf(s) = DigestOf(t) /\ answer[s] # answer[t] =>
            ~ Exists(answer[s]) \/ ~ Exists(answer[t])

\* Archive may overtake CreateOperation and archive the bundle of a running
\* operation; what it records keeps the bundle restorable.
UsedIsReady ==
  \A d \in Definitions : using[d] # NoBundle /\ Exists(using[d]) => Ready(using[d])

\* archived_from_status: a row becomes validated from received, by the worker, or
\* from an archive of a validated row, and a row is deleted only from the archive.
Promoted(b) ==
  status'[b] = "validated" => status[b] = "received" \/ Ready(b)
DeletedFrom(b) ==
  status'[b] = "deleted" => status[b] = "deleted" \/ b \in Past
NotPromoted == [][\A b \in Bundles : Promoted(b) /\ DeletedFrom(b)]_vars

\* An entry whose worker is gone: nothing claims running again.
Stranded(b) == outbox[b] = "running" /\ job[b] = "none"

\* Every submitted bundle is validated, unless it was archived first or its entry
\* was stranded: read failures only delay it (recordError, ClaimPending).
EntrySettles == []<>(\A b \in Bundles : status[b] = "received" => Stranded(b))

\* Someone who restores bundles as fast as phase 1 archives them keeps a cycle
\* in that phase.
RestoresEnd == <>[][\A b \in Bundles : status[b] = "archived" => status'[b] # "validated"]_vars

\* Every bundle past its grace is deleted or restored, whichever phase of a cycle
\* fails (runGC goes on with the next one, the ticker with the next cycle).
PastEnds == RestoresEnd => []<>(Past = {})

-----------------------------------------------------------------------------
(* What the documents say and the code does not do.                        *)

\* "Phase 1 archives expired bundles with no active Definition and no
\* non-terminal Operation references" (TestRunGCPhase1ArchiveAndReferenceProtection).
ReferencedStays ==
  [][\A b \in Bundles : status[b] # "archived" /\ status'[b] = "archived" => Unreferenced(b)]_vars

\* A candidate artifact is "cleaned by the orphan TTL while it has no bundle"
\* (docs/glossary.md, Candidate Artifact).
UnlinkedGoes ==
  \A a \in Artifacts : (candidate[a] # "none" /\ LinkedTo(a) = {}) ~>
     (orphan[a] # "no" \/ LinkedTo(a) # {} \/ candidate[a] = "none")
=============================================================================
