------------------------ MODULE BundleLifecycleProofs ------------------------
(* The safety properties of BundleLifecycle, for every set of submissions,    *)
(* requests, artifacts and definitions. What deleteExpiredBundles leaves      *)
(* behind is proved for tables one batch holds: with more rows its three      *)
(* statements may see three different batches.                                *)
EXTENDS BundleLifecycle, FiniteSetTheorems, TLAPS

(* A row is inserted by the call it is named after; its links and its outbox   *)
(* entry come and go with it; a worker holds entries that are running.         *)
Rows ==
    /\ \A s \in Submissions : call[s] # "done" => status[s] = "none"
    /\ \A b \in Bundles :
        /\ ~ Exists(b) => links[b] = {}
        /\ Exists(b) <=> outbox[b] # "none"
        /\ status[b] = "none" => job[b] = "none"
        /\ job[b] # "none" => outbox[b] \in {"running", "none"}

(* An operation names a row that was inserted.                                 *)
UsedInserted == \A d \in Definitions : using[d] # NoBundle => status[using[d]] # "none"

(* The unique index: one row for a content.                                    *)
OneRow == \A b, c \in Bundles : Exists(b) /\ c \in Same(b) => b = c

(* A call is answered with a row of its content.                               *)
AnsweredRight ==
    \A s \in Submissions : call[s] = "done" => answer[s] \in Bundles /\ DigestOf(answer[s]) = DigestOf(s)

BundleInv ==
    /\ BundleTypeOK
    /\ Rows
    /\ UsedInserted
    /\ OneRow
    /\ AnsweredRight
    /\ ContentsKept
    /\ ReadyIsValidated
    /\ UsedIsReady

(* Between the statements of deleteExpiredBundles: what DeleteClear and        *)
(* DeleteMark did still covers every row DeleteRows may take.                  *)
Prepared ==
    /\ gc \in {"mark", "delete"} => \A d \in Definitions : current[d] \notin Past
    /\ gc = "delete" =>
        \A a \in Artifacts : LinkedTo(a) # {} /\ LinkedTo(a) \subseteq Past => orphan[a] # "no"

DeleteInv == CurrentExists /\ OrphansMarked /\ Prepared

OneBatch == Cardinality(Bundles) <= BatchLimit

-------------------------------------------------------------------------------
(* A batch of a table that one batch holds is the whole table.                 *)
LEMMA WholeBatch == ASSUME OneBatch, NEW S \in SUBSET Bundles, NEW W \in Batches(S) PROVE W = S
<1>1. IsFiniteSet(Bundles) /\ BatchLimit \in Nat
    BY BundleAssumption, Zenon DEF Bundles
<1>2. IsFiniteSet(S) /\ Cardinality(S) <= Cardinality(Bundles) /\ Cardinality(Bundles) \in Nat
    BY <1>1, FS_Subset, FS_CardinalityType, Zenon
<1>3. Cardinality(S) \in Nat /\ Cardinality(W) <= Cardinality(S) /\ (Cardinality(W) = Cardinality(S) => W = S)
    BY <1>2, FS_Subset, FS_CardinalityType, Zenon DEF Batches
<1> QED
    BY <1>1, <1>2, <1>3 DEF Batches, OneBatch

(* The initial state: no call was made and there is no row.                    *)
LEMMA InitInv == Init => BundleInv /\ DeleteInv
<1> SUFFICES ASSUME Init PROVE BundleInv /\ DeleteInv
    BY Zenon
<1> USE BundleAssumption DEF Init, Bundles
<1>1. BundleTypeOK
    BY DEF BundleTypeOK, MayBe, Calls, Statuses, Ages, Orphans, Jobs, Outboxes, Steps
<1>2. Rows /\ UsedInserted /\ AnsweredRight /\ UsedIsReady
    BY Zenon DEF Rows, UsedInserted, AnsweredRight, UsedIsReady, Exists
<1>3. OneRow /\ ContentsKept /\ ReadyIsValidated
    BY Zenon DEF OneRow, Same, ContentsKept, ReadyIsValidated, Exists, Ready
<1>4. DeleteInv
    BY Zenon DEF DeleteInv, CurrentExists, OrphansMarked, Prepared, LinkedTo
<1> QED
    BY <1>1, <1>2, <1>3, <1>4, Zenon DEF BundleInv

(* A lookup goes on, fails, or answers with a row of the same content.         *)
LookedUp(s, n) ==
    /\ request' = request
    /\ \/ call' = [call EXCEPT ![s] = n] /\ answer' = answer
       \/ call' = [call EXCEPT ![s] = "failed"] /\ answer' = answer
       \/ /\ call' = [call EXCEPT ![s] = "done"]
          /\ answer' = [answer EXCEPT ![s] = Replay(s)]
          /\ Replay(s) \in Bundles /\ DigestOf(Replay(s)) = DigestOf(s)

(* loadIdempotentBundle either finds nothing to go by, or answers with a row of the
   call's own content.                                                          *)
LEMMA LookupAnswer == BundleTypeOK => \A s \in Submissions : \A n : Lookup(s, n) => LookedUp(s, n)
<1> SUFFICES ASSUME BundleTypeOK, NEW s \in Submissions, NEW n, Lookup(s, n) PROVE LookedUp(s, n)
    BY Zenon
<1>1. ASSUME ~ NoRecord(s) PROVE Replay(s) \in Bundles
    BY <1>1, Zenon DEF NoRecord, HasKey, Replay, BundleTypeOK, MayBe
<1> QED
    BY <1>1, Zenon DEF LookedUp, Lookup, Step, Answered, KeyConflict

(* A call that looked its key up is still a call with an answer.                *)
LEMMA LookedUpTypes ==
    ASSUME BundleTypeOK, NEW s \in Submissions, NEW n \in {"insert", "by_digest"}, LookedUp(s, n)
    PROVE  call' \in [Submissions -> Calls] /\ answer' \in [Submissions -> MayBe] /\ request' = request
<1>1. call \in [Submissions -> Calls] /\ answer \in [Submissions -> MayBe] /\ {n, "failed", "done"} \subseteq Calls
    BY Zenon DEF BundleTypeOK, Calls
<1>2. Bundles \subseteq MayBe
    BY Zenon DEF MayBe
<1> QED
    BY <1>1, <1>2, Zenon DEF LookedUp

(* Restoring a row keeps its columns in their domains.                         *)
LEMMA RestoreTypes ==
    ASSUME BundleTypeOK, NEW b \in Bundles, Restore(b)
    PROVE  /\ status' \in [Bundles -> Statuses] /\ age' \in [Bundles -> Ages]
           /\ before' \in [Bundles -> {"none", "received", "validated"}]
<1>1. status' \in [Bundles -> Statuses]
    BY Zenon DEF BundleTypeOK, Restore, Statuses
<1>2. age' \in [Bundles -> Ages]
    BY Zenon DEF BundleTypeOK, Restore, Ages
<1>3. before' \in [Bundles -> {"none", "received", "validated"}]
    BY Zenon DEF BundleTypeOK, Restore
<1> QED
    BY <1>1, <1>2, <1>3, Zenon

(* Every step keeps the types.                                                 *)
LEMMA TypesStep == BundleInv /\ [Next]_vars => BundleTypeOK'
<1> SUFFICES ASSUME BundleInv, [Next]_vars PROVE BundleTypeOK'
    BY Zenon
<1>cases. \/ UNCHANGED <<request, call, answer, record, lapsed, status, before, age, links, candidate, orphan, outbox, job, enabled, current, asked, using, gc, listed, faults>>
          \/ \E s \in Submissions : SubmitLookup(s)
          \/ \E s \in Submissions : SubmitInsert(s)
          \/ \E s \in Submissions : SubmitRefused(s)
          \/ \E s \in Submissions : SubmitRecheck(s)
          \/ \E s \in Submissions : SubmitByDigest(s)
          \/ \E a \in Artifacts : ArtifactEvent(a)
          \/ \E b \in Bundles : Claim(b)
          \/ \E b \in Bundles : JobRead(b)
          \/ \E b \in Bundles : JobReadFails(b)
          \/ \E b \in Bundles : JobValidate(b)
          \/ \E b \in Bundles : JobClose(b)
          \/ \E b \in Bundles : JobLost(b)
          \/ \E d \in Definitions : \E b \in Bundles : OperationCheck(d, b)
          \/ \E d \in Definitions : OperationCommit(d)
          \/ \E d \in Definitions : OperationEnd(d)
          \/ \E d \in Definitions : DisableDefinition(d)
          \/ \E b \in Bundles : Unarchive(b)
          \/ CycleStart
          \/ ListForArchive
          \/ Archive
          \/ DeleteClear
          \/ DeleteMark
          \/ DeleteRows
          \/ OrphanSweep
          \/ RecordPurge
          \/ PhaseFails
          \/ \E b \in Bundles : RetentionPasses(b)
          \/ \E b \in Bundles : GracePasses(b)
          \/ \E a \in Artifacts : OrphanLifePasses(a)
          \/ \E k \in Keys : RecordLapse(k)
    BY Zenon DEF Next, SubmitStep, ValidationStep, ValidationFails, OperationStep,
           CollectorStep, TimePasses, vars, submitting, bundle, artifact, validation,
           release, collector
<1> USE BundleAssumption
    DEF BundleInv, BundleTypeOK, MayBe, Calls, Statuses, Ages, Orphans, Jobs, Outboxes,
        Steps, Bundles, submitting, bundle, artifact, validation, release, collector
<1>same. ASSUME UNCHANGED <<request, call, answer, record, lapsed, status, before, age, links, candidate, orphan, outbox, job, enabled, current, asked, using, gc, listed, faults>> PROVE BundleTypeOK'
    BY <1>same, Zenon
<1>1. ASSUME NEW s \in Submissions, SubmitLookup(s)
      PROVE  BundleTypeOK'
    <2>1. LookedUp(s, "insert")
        BY <1>1, LookupAnswer, Zenon DEF SubmitLookup
    <2>2. call' \in [Submissions -> Calls] /\ answer' \in [Submissions -> MayBe] /\ request' = request
        BY <2>1, LookedUpTypes, Zenon
    <2> QED
        BY <1>1, <2>2, Zenon DEF SubmitLookup, Lookup
<1>2. ASSUME NEW s \in Submissions, SubmitInsert(s)
      PROVE  BundleTypeOK'
    BY <1>2, Zenon DEF SubmitInsert, Answered, Seen, Adopted, Carried
<1>3. ASSUME NEW s \in Submissions, SubmitRefused(s)
      PROVE  BundleTypeOK'
    BY <1>3, Zenon DEF SubmitRefused, Step
<1>4. ASSUME NEW s \in Submissions, SubmitRecheck(s)
      PROVE  BundleTypeOK'
    <2>1. LookedUp(s, "by_digest")
        BY <1>4, LookupAnswer, Zenon DEF SubmitRecheck
    <2>2. call' \in [Submissions -> Calls] /\ answer' \in [Submissions -> MayBe] /\ request' = request
        BY <2>1, LookedUpTypes, Zenon
    <2> QED
        BY <1>4, <2>2, Zenon DEF SubmitRecheck, Lookup
<1>5. ASSUME NEW s \in Submissions, SubmitByDigest(s)
      PROVE  BundleTypeOK'
    <2>1. CASE Same(s) = {} /\ Step(s, "failed")
        BY <1>5, <2>1, Zenon DEF SubmitByDigest, Step
    <2>2. ASSUME NEW b \in Same(s), Answered(s, b) PROVE BundleTypeOK'
        BY <1>5, <2>2, Zenon DEF SubmitByDigest, Answered, Same
    <2> QED
        BY <1>5, <2>1, <2>2, Zenon DEF SubmitByDigest
<1>6. ASSUME NEW a \in Artifacts, ArtifactEvent(a)
      PROVE  BundleTypeOK'
    BY <1>6, Zenon DEF ArtifactEvent, Seen
<1>7. ASSUME NEW b \in Bundles, Claim(b)
      PROVE  BundleTypeOK'
    BY <1>7, Zenon DEF Claim
<1>8. ASSUME NEW b \in Bundles, JobRead(b)
      PROVE  BundleTypeOK'
    BY <1>8, Zenon DEF JobRead
<1>9. ASSUME NEW b \in Bundles, JobReadFails(b)
      PROVE  BundleTypeOK'
    BY <1>9 DEF JobReadFails, Drop, Entry, Fault
<1>10. ASSUME NEW b \in Bundles, JobValidate(b)
      PROVE  BundleTypeOK'
    <2>1. status' \in [Bundles -> Statuses] /\ candidate' \in [Artifacts -> {"none", "seen", "validated"}]
        BY <1>10 DEF JobValidate, MarkValidated
    <2>2. outbox' \in [Bundles -> Outboxes] /\ job' \in [Bundles -> Jobs]
        BY <1>10 DEF JobValidate, Drop, Entry
    <2> QED
        BY <1>10, <2>1, <2>2, Zenon DEF JobValidate
<1>11. ASSUME NEW b \in Bundles, JobClose(b)
      PROVE  BundleTypeOK'
    BY <1>11, Zenon DEF JobClose, Drop, Entry
<1>12. ASSUME NEW b \in Bundles, JobLost(b)
      PROVE  BundleTypeOK'
    BY <1>12 DEF JobLost, Drop, Fault
<1>13. ASSUME NEW d \in Definitions, NEW b \in Bundles, OperationCheck(d, b)
      PROVE  BundleTypeOK'
    BY <1>13, Zenon DEF OperationCheck
<1>14. ASSUME NEW d \in Definitions, OperationCommit(d)
      PROVE  BundleTypeOK'
    <2>1. /\ asked[d] \in Bundles /\ asked' = [asked EXCEPT ![d] = NoBundle]
          /\ \/ /\ Restore(asked[d])
                /\ current' = [current EXCEPT ![d] = asked[d]]
                /\ using' = [using EXCEPT ![d] = asked[d]]
                /\ links' = [links EXCEPT ![asked[d]] =
                                @ \cup {a \in Reach[request[asked[d]]] : candidate[a] # "none"}]
                /\ orphan' = Adopted(links'[asked[d]])
             \/ UNCHANGED <<status, before, age, links, current, using, orphan>>
        BY <1>14, Zenon DEF OperationCommit
    <2>2. asked' \in [Definitions -> MayBe]
        BY <2>1, Zenon
    <2>3. current' \in [Definitions -> MayBe]
        BY <2>1, SMT
    <2>4. using' \in [Definitions -> MayBe]
        BY <2>1, SMT
    <2>5. /\ status' \in [Bundles -> Statuses] /\ age' \in [Bundles -> Ages]
          /\ before' \in [Bundles -> {"none", "received", "validated"}]
        <3>1. asked[d] \in Bundles /\ (Restore(asked[d]) \/ UNCHANGED <<status, before, age>>)
            BY <2>1, Zenon
        <3>2. CASE Restore(asked[d])
            BY <3>1, <3>2, RestoreTypes, Zenon
        <3>3. CASE UNCHANGED <<status, before, age>>
            BY <3>3, Zenon
        <3> QED
            BY <3>1, <3>2, <3>3, Zenon
    <2>7. links' \in [Bundles -> SUBSET Artifacts]
        BY <2>1, SMT
    <2>8. orphan' \in [Artifacts -> Orphans]
        BY <2>1, SMT DEF Adopted
    <2> QED
        BY <1>14, <2>2, <2>3, <2>4, <2>5, <2>7, <2>8, Zenon DEF OperationCommit
<1>15. ASSUME NEW d \in Definitions, OperationEnd(d)
      PROVE  BundleTypeOK'
    BY <1>15, Zenon DEF OperationEnd
<1>16. ASSUME NEW d \in Definitions, DisableDefinition(d)
      PROVE  BundleTypeOK'
    BY <1>16, Zenon DEF DisableDefinition
<1>17. ASSUME NEW b \in Bundles, Unarchive(b)
      PROVE  BundleTypeOK'
    BY <1>17, Zenon DEF Unarchive, Restore
<1>18. ASSUME CycleStart
      PROVE  BundleTypeOK'
    BY <1>18, Zenon DEF CycleStart, At, Goto
<1>19. ASSUME ListForArchive
      PROVE  BundleTypeOK'
    BY <1>19 DEF ListForArchive, At, Goto, Batches, NextPhase
<1>20. ASSUME Archive
      PROVE  BundleTypeOK'
    BY <1>20 DEF Archive, At, Goto, Remembered, NextPhase, Archivable
<1>21. ASSUME DeleteClear
      PROVE  BundleTypeOK'
    BY <1>21 DEF DeleteClear, At, Goto, Clear
<1>22. ASSUME DeleteMark
      PROVE  BundleTypeOK'
    BY <1>22 DEF DeleteMark, At, Goto, Mark
<1>23. ASSUME DeleteRows
      PROVE  BundleTypeOK'
    BY <1>23 DEF DeleteRows, At, Goto, NextPhase
<1>24. ASSUME OrphanSweep
      PROVE  BundleTypeOK'
    BY <1>24 DEF OrphanSweep, At, Goto, NextPhase
<1>25. ASSUME RecordPurge
      PROVE  BundleTypeOK'
    BY <1>25 DEF RecordPurge, At, Goto, NextPhase
<1>26. ASSUME PhaseFails
      PROVE  BundleTypeOK'
    BY <1>26 DEF PhaseFails, Fault, NextPhase
<1>27. ASSUME NEW b \in Bundles, RetentionPasses(b)
      PROVE  BundleTypeOK'
    BY <1>27, Zenon DEF RetentionPasses
<1>28. ASSUME NEW b \in Bundles, GracePasses(b)
      PROVE  BundleTypeOK'
    BY <1>28, Zenon DEF GracePasses
<1>29. ASSUME NEW a \in Artifacts, OrphanLifePasses(a)
      PROVE  BundleTypeOK'
    BY <1>29, Zenon DEF OrphanLifePasses
<1>30. ASSUME NEW k \in Keys, RecordLapse(k)
      PROVE  BundleTypeOK'
    BY <1>30 DEF RecordLapse
<1> HIDE DEF BundleInv, BundleTypeOK, MayBe, Calls, Statuses, Ages, Orphans, Jobs,
             Outboxes, Steps, Bundles, submitting, bundle, artifact, validation,
             release, collector
<1> QED
    BY <1>cases, <1>same, <1>1, <1>2, <1>3, <1>4, <1>5, <1>6, <1>7, <1>8, <1>9, <1>10,
       <1>11, <1>12, <1>13, <1>14, <1>15, <1>16, <1>17, <1>18, <1>19, <1>20, <1>21,
       <1>22, <1>23, <1>24, <1>25, <1>26, <1>27, <1>28, <1>29, <1>30, Zenon

(* Links and outbox entries live as long as their row.                          *)
LEMMA RowsStep == BundleInv /\ [Next]_vars => Rows'
<1> SUFFICES ASSUME BundleInv, [Next]_vars PROVE Rows'
    BY Zenon
<1>cases. \/ UNCHANGED <<call, status, links, outbox, job>>
          \/ \E s \in Submissions : SubmitLookup(s)
          \/ \E s \in Submissions : SubmitInsert(s)
          \/ \E s \in Submissions : SubmitRefused(s)
          \/ \E s \in Submissions : SubmitRecheck(s)
          \/ \E s \in Submissions : SubmitByDigest(s)
          \/ \E b \in Bundles : Claim(b)
          \/ \E b \in Bundles : JobRead(b)
          \/ \E b \in Bundles : JobReadFails(b)
          \/ \E b \in Bundles : JobValidate(b)
          \/ \E b \in Bundles : JobClose(b)
          \/ \E b \in Bundles : JobLost(b)
          \/ \E d \in Definitions : OperationCommit(d)
          \/ \E b \in Bundles : Unarchive(b)
          \/ Archive
          \/ DeleteRows
          \/ OrphanSweep
    BY Zenon DEF Next, SubmitStep, ValidationStep, ValidationFails, OperationStep,
           CollectorStep, TimePasses, ArtifactEvent, OperationCheck, OperationEnd,
           DisableDefinition, CycleStart, ListForArchive, DeleteClear, DeleteMark,
           RecordPurge, PhaseFails, RetentionPasses, GracePasses, OrphanLifePasses,
           RecordLapse, At, Goto, Fault, vars, submitting, bundle, artifact,
           validation, release, collector
<1>inv. /\ NoBundle \notin Bundles
        /\ call \in [Submissions -> Calls]
        /\ status \in [Bundles -> Statuses]
        /\ links \in [Bundles -> SUBSET Artifacts]
        /\ outbox \in [Bundles -> Outboxes]
        /\ job \in [Bundles -> Jobs]
        /\ asked \in [Definitions -> MayBe]
        /\ BundleTypeOK
        /\ Rows
    BY BundleAssumption, Zenon DEF BundleInv, BundleTypeOK, Bundles
<1> USE <1>inv
    DEF Rows, Exists, MayBe, Bundles, submitting, bundle, artifact, validation,
        release, collector
<1>same. ASSUME UNCHANGED <<call, status, links, outbox, job>> PROVE Rows'
    BY <1>same, Zenon
<1>1. ASSUME NEW s \in Submissions, SubmitLookup(s)
      PROVE  Rows'
    <2>1. LookedUp(s, "insert")
        BY <1>1, LookupAnswer, Zenon DEF SubmitLookup
    <2> QED
        BY <1>1, <2>1 DEF LookedUp, SubmitLookup, Lookup
<1>2. ASSUME NEW s \in Submissions, SubmitInsert(s)
      PROVE  Rows'
    <2>1. \A t \in Submissions : call'[t] # "done" => status'[t] = "none"
        BY <1>2, Zenon DEF SubmitInsert, Answered
    <2>2. \A b \in Bundles \ {s} : UNCHANGED <<status[b], links[b], outbox[b]>>
        BY <1>2, Zenon DEF SubmitInsert
    <2>3. status'[s] = "received" /\ outbox'[s] = "pending" /\ UNCHANGED job
        BY <1>2, Zenon DEF SubmitInsert
    <2>4. call[s] = "insert"
        BY <1>2, Zenon DEF SubmitInsert
    <2>5. job[s] = "none" /\ status[s] = "none"
        BY <2>4, Zenon
    <2> QED
        BY <2>1, <2>2, <2>3, <2>5
<1>3. ASSUME NEW s \in Submissions, SubmitRefused(s)
      PROVE  Rows'
    BY <1>3, Zenon DEF SubmitRefused, Step
<1>4. ASSUME NEW s \in Submissions, SubmitRecheck(s)
      PROVE  Rows'
    <2>1. LookedUp(s, "by_digest")
        BY <1>4, LookupAnswer, Zenon DEF SubmitRecheck
    <2> QED
        BY <1>4, <2>1 DEF LookedUp, SubmitRecheck, Lookup
<1>5. ASSUME NEW s \in Submissions, SubmitByDigest(s)
      PROVE  Rows'
    BY <1>5, Zenon DEF SubmitByDigest, Answered, Step
<1>6. ASSUME NEW b \in Bundles, Claim(b)
      PROVE  Rows'
    BY <1>6, Zenon DEF Claim, Due
<1>7. ASSUME NEW b \in Bundles, JobRead(b)
      PROVE  Rows'
    BY <1>7, Zenon DEF JobRead
<1>8. ASSUME NEW b \in Bundles, JobReadFails(b)
      PROVE  Rows'
    BY <1>8, Zenon DEF JobReadFails, Drop, Entry, Fault
<1>9. ASSUME NEW b \in Bundles, JobValidate(b)
      PROVE  Rows'
    BY <1>9 DEF JobValidate, Drop, Entry, StillReceived
<1>10. ASSUME NEW b \in Bundles, JobClose(b)
      PROVE  Rows'
    BY <1>10, Zenon DEF JobClose, Drop, Entry
<1>11. ASSUME NEW b \in Bundles, JobLost(b)
      PROVE  Rows'
    BY <1>11, Zenon DEF JobLost, Drop, Fault
<1>12. ASSUME NEW d \in Definitions, OperationCommit(d)
      PROVE  Rows'
    <2>1. CASE ~ Ready(asked[d])
        BY <1>12, <2>1, Zenon DEF OperationCommit
    <2>2. CASE Ready(asked[d])
        <3>1. asked[d] \in Bundles /\ status' = [status EXCEPT ![asked[d]] = "validated"]
            BY <1>12, <2>2, Zenon DEF OperationCommit, Restore
        <3>2. Exists(asked[d]) /\ UNCHANGED <<call, outbox, job>>
            BY <1>12, <2>2, Zenon DEF OperationCommit, Ready
        <3>3. \A b \in Bundles \ {asked[d]} : links'[b] = links[b]
            BY <1>12, <2>2, Zenon DEF OperationCommit
        <3> QED
            BY <3>1, <3>2, <3>3, Zenon
    <2> QED
        BY <2>1, <2>2, Zenon
<1>13. ASSUME NEW b \in Bundles, Unarchive(b)
      PROVE  Rows'
    BY <1>13, Zenon DEF Unarchive, Restore, Restorable
<1>14. ASSUME Archive
      PROVE  Rows'
    BY <1>14, Zenon DEF Archive, At, Goto, Archivable
<1>15. ASSUME DeleteRows
      PROVE  Rows'
    BY <1>15 DEF DeleteRows, At, Goto, Batches, Past
<1>16. ASSUME OrphanSweep
      PROVE  Rows'
    BY <1>16 DEF OrphanSweep, At, Goto
<1> HIDE DEF Rows, Exists, MayBe, Bundles, submitting, bundle, artifact, validation,
             release, collector
<1> QED
    BY <1>cases, <1>same, <1>1, <1>2, <1>3, <1>4, <1>5, <1>6, <1>7, <1>8, <1>9, <1>10,
       <1>11, <1>12, <1>13, <1>14, <1>15, <1>16, Zenon

(* A row that was inserted is never as if it had not been.                      *)
LEMMA UsedInsertedStep == BundleInv /\ [Next]_vars => UsedInserted'
<1> SUFFICES ASSUME BundleInv, [Next]_vars PROVE UsedInserted'
    BY Zenon
<1>cases. \/ UNCHANGED <<using, status>>
          \/ \E s \in Submissions : SubmitInsert(s)
          \/ \E b \in Bundles : JobValidate(b)
          \/ \E d \in Definitions : OperationCommit(d)
          \/ \E d \in Definitions : OperationEnd(d)
          \/ \E b \in Bundles : Unarchive(b)
          \/ Archive
          \/ DeleteRows
    BY Zenon DEF Next, SubmitStep, ValidationStep, ValidationFails, OperationStep,
           CollectorStep, TimePasses, SubmitLookup, SubmitRefused, SubmitRecheck,
           SubmitByDigest, ArtifactEvent, Claim, JobRead, JobReadFails, JobClose,
           JobLost, OperationCheck, DisableDefinition, CycleStart, ListForArchive,
           DeleteClear, DeleteMark, OrphanSweep, RecordPurge, PhaseFails,
           RetentionPasses, GracePasses, OrphanLifePasses, RecordLapse, Lookup,
           Answered, Step, Drop, Entry, Fault, At, Goto, vars, submitting, bundle,
           artifact, validation, release, collector
<1>inv. /\ NoBundle \notin Bundles
        /\ status \in [Bundles -> Statuses]
        /\ using \in [Definitions -> MayBe]
        /\ asked \in [Definitions -> MayBe]
        /\ call \in [Submissions -> Calls]
        /\ UsedInserted
        /\ Rows
    BY BundleAssumption, Zenon DEF BundleInv, BundleTypeOK, Bundles
<1> USE <1>inv
    DEF UsedInserted, Rows, Exists, MayBe, Bundles, submitting, bundle, artifact,
        validation, release, collector
<1>same. ASSUME UNCHANGED <<using, status>> PROVE UsedInserted'
    BY <1>same, Zenon
<1>1. ASSUME NEW s \in Submissions, SubmitInsert(s)
      PROVE  UsedInserted'
    <2>1. status' = [status EXCEPT ![s] = "received"] /\ using' = using
        BY <1>1, Zenon DEF SubmitInsert
    <2> QED
        BY <2>1
<1>2. ASSUME NEW b \in Bundles, JobValidate(b)
      PROVE  UsedInserted'
    BY <1>2 DEF JobValidate, Drop, Entry, StillReceived
<1>3. ASSUME NEW d \in Definitions, OperationCommit(d)
      PROVE  UsedInserted'
    <2>1. CASE ~ Ready(asked[d])
        BY <1>3, <2>1 DEF OperationCommit
    <2>2. CASE Ready(asked[d])
        <3>1. asked[d] \in Bundles /\ using' = [using EXCEPT ![d] = asked[d]]
              /\ status' = [status EXCEPT ![asked[d]] = "validated"]
            BY <1>3, <2>2, Zenon DEF OperationCommit, Restore
        <3> QED
            BY <3>1
    <2> QED
        BY <2>1, <2>2, Zenon
<1>4. ASSUME NEW d \in Definitions, OperationEnd(d)
      PROVE  UsedInserted'
    BY <1>4, Zenon DEF OperationEnd
<1>5. ASSUME NEW b \in Bundles, Unarchive(b)
      PROVE  UsedInserted'
    BY <1>5 DEF Unarchive, Restore, Restorable
<1>6. ASSUME Archive
      PROVE  UsedInserted'
    BY <1>6 DEF Archive, At, Goto
<1>7. ASSUME DeleteRows
      PROVE  UsedInserted'
    <2>1. PICK W \in Batches(Past) : status' = [b \in Bundles |-> IF b \in W THEN "deleted" ELSE status[b]]
        BY <1>7, Zenon DEF DeleteRows
    <2>2. UNCHANGED <<using>>
        BY <1>7, Zenon DEF DeleteRows
    <2> QED
        BY <2>1, <2>2, Zenon
<1> HIDE DEF UsedInserted, Rows, Exists, MayBe, Bundles, submitting, bundle, artifact,
             validation, release, collector
<1> QED
    BY <1>cases, <1>same, <1>1, <1>2, <1>3, <1>4, <1>5, <1>6, <1>7, Zenon

(* submitBundleTx is refused while a row of the content exists.                 *)
LEMMA OneRowStep == BundleInv /\ [Next]_vars => OneRow'
<1> SUFFICES ASSUME BundleInv, [Next]_vars PROVE OneRow'
    BY Zenon
<1>cases. \/ UNCHANGED <<request, status>>
          \/ \E s \in Submissions : SubmitInsert(s)
          \/ \E b \in Bundles : JobValidate(b)
          \/ \E d \in Definitions : OperationCommit(d)
          \/ \E b \in Bundles : Unarchive(b)
          \/ Archive
          \/ DeleteRows
    BY Zenon DEF Next, SubmitStep, ValidationStep, ValidationFails, OperationStep,
           CollectorStep, TimePasses, SubmitLookup, SubmitRefused, SubmitRecheck,
           SubmitByDigest, ArtifactEvent, Claim, JobRead, JobReadFails, JobClose,
           JobLost, OperationCheck, OperationEnd, DisableDefinition, CycleStart,
           ListForArchive, DeleteClear, DeleteMark, OrphanSweep, RecordPurge,
           PhaseFails, RetentionPasses, GracePasses, OrphanLifePasses, RecordLapse,
           Lookup, Answered, Step, Drop, Entry, Fault, At, Goto, vars, submitting,
           bundle, artifact, validation, release, collector
<1>inv. /\ NoBundle \notin Bundles
        /\ status \in [Bundles -> Statuses]
        /\ asked \in [Definitions -> MayBe]
        /\ OneRow
    BY BundleAssumption, Zenon DEF BundleInv, BundleTypeOK, Bundles
<1> USE <1>inv
    DEF OneRow, Same, DigestOf, Exists, MayBe, Bundles, submitting, bundle, artifact,
        validation, release, collector
<1>same. ASSUME UNCHANGED <<request, status>> PROVE OneRow'
    BY <1>same, Zenon
<1>1. ASSUME NEW s \in Submissions, SubmitInsert(s)
      PROVE  OneRow'
    BY <1>1, Zenon DEF SubmitInsert, Answered, Refused
<1>2. ASSUME NEW b \in Bundles, JobValidate(b)
      PROVE  OneRow'
    BY <1>2, Zenon DEF JobValidate, Drop, Entry, StillReceived
<1>3. ASSUME NEW d \in Definitions, OperationCommit(d)
      PROVE  OneRow'
    BY <1>3, Zenon DEF OperationCommit, Restore, Ready
<1>4. ASSUME NEW b \in Bundles, Unarchive(b)
      PROVE  OneRow'
    BY <1>4, Zenon DEF Unarchive, Restore, Restorable
<1>5. ASSUME Archive
      PROVE  OneRow'
    BY <1>5, Zenon DEF Archive, At, Goto, Archivable
<1>6. ASSUME DeleteRows
      PROVE  OneRow'
    <2>1. PICK W \in Batches(Past) : status' = [b \in Bundles |-> IF b \in W THEN "deleted" ELSE status[b]]
        BY <1>6, Zenon DEF DeleteRows
    <2>2. UNCHANGED <<request>>
        BY <1>6, Zenon DEF DeleteRows
    <2> QED
        BY <2>1, <2>2, Zenon
<1> HIDE DEF OneRow, Same, DigestOf, Exists, MayBe, Bundles, submitting, bundle,
             artifact, validation, release, collector
<1> QED
    BY <1>cases, <1>same, <1>1, <1>2, <1>3, <1>4, <1>5, <1>6, Zenon

(* Each way to answer a call finds a row of its content.                        *)
LEMMA AnsweredStep == BundleInv /\ [Next]_vars => AnsweredRight'
<1> SUFFICES ASSUME BundleInv, [Next]_vars PROVE AnsweredRight'
    BY Zenon
<1>cases. \/ UNCHANGED <<request, call, answer>>
          \/ \E s \in Submissions : SubmitLookup(s)
          \/ \E s \in Submissions : SubmitInsert(s)
          \/ \E s \in Submissions : SubmitRefused(s)
          \/ \E s \in Submissions : SubmitRecheck(s)
          \/ \E s \in Submissions : SubmitByDigest(s)
    BY Zenon DEF Next, SubmitStep, ValidationStep, ValidationFails, OperationStep,
           CollectorStep, TimePasses, ArtifactEvent, Claim, JobRead, JobReadFails,
           JobValidate, JobClose, JobLost, OperationCheck, OperationCommit,
           OperationEnd, DisableDefinition, Unarchive, CycleStart, ListForArchive,
           Archive, DeleteClear, DeleteMark, DeleteRows, OrphanSweep, RecordPurge,
           PhaseFails, RetentionPasses, GracePasses, OrphanLifePasses, RecordLapse,
           Drop, Entry, Fault, Restore, At, Goto, vars, submitting, bundle, artifact,
           validation, release, collector
<1>inv. /\ NoBundle \notin Bundles
        /\ call \in [Submissions -> Calls]
        /\ answer \in [Submissions -> MayBe]
        /\ AnsweredRight
        /\ BundleTypeOK
    BY BundleAssumption, Zenon DEF BundleInv, BundleTypeOK, Bundles
<1> USE <1>inv
    DEF AnsweredRight, DigestOf, MayBe, Bundles, submitting, bundle, artifact,
        validation, release, collector
<1>same. ASSUME UNCHANGED <<request, call, answer>> PROVE AnsweredRight'
    BY <1>same, Zenon
<1>1. ASSUME NEW s \in Submissions, SubmitLookup(s)
      PROVE  AnsweredRight'
    <2>1. LookedUp(s, "insert") /\ \A x : DigestOf(x)' = Digest[request'[x]]
        BY <1>1, LookupAnswer, Zenon DEF SubmitLookup, DigestOf
    <2>2. \A x : DigestOf(x)' = DigestOf(x)
        BY <2>1, Zenon DEF LookedUp, DigestOf
    <2> HIDE DEF DigestOf
    <2>3. CASE answer' = answer /\ call' \in {[call EXCEPT ![s] = "insert"], [call EXCEPT ![s] = "failed"]}
        BY <2>2, <2>3, Zenon
    <2>4. CASE answer' # answer \/ call' \notin {[call EXCEPT ![s] = "insert"], [call EXCEPT ![s] = "failed"]}
        <3>1. call' = [call EXCEPT ![s] = "done"] /\ answer' = [answer EXCEPT ![s] = Replay(s)]
              /\ Replay(s) \in Bundles /\ DigestOf(Replay(s)) = DigestOf(s)
            BY <2>1, <2>4, Zenon DEF LookedUp
        <3> QED
            BY <2>2, <3>1, Zenon
    <2> QED
        BY <2>3, <2>4, Zenon
<1>2. ASSUME NEW s \in Submissions, SubmitInsert(s)
      PROVE  AnsweredRight'
    BY <1>2, Zenon DEF SubmitInsert, Answered
<1>3. ASSUME NEW s \in Submissions, SubmitRefused(s)
      PROVE  AnsweredRight'
    BY <1>3, Zenon DEF SubmitRefused, Step
<1>4. ASSUME NEW s \in Submissions, SubmitRecheck(s)
      PROVE  AnsweredRight'
    <2>1. LookedUp(s, "by_digest") /\ \A x : DigestOf(x)' = Digest[request'[x]]
        BY <1>4, LookupAnswer, Zenon DEF SubmitRecheck, DigestOf
    <2>2. \A x : DigestOf(x)' = DigestOf(x)
        BY <2>1, Zenon DEF LookedUp, DigestOf
    <2> HIDE DEF DigestOf
    <2>3. CASE answer' = answer /\ call' \in {[call EXCEPT ![s] = "by_digest"], [call EXCEPT ![s] = "failed"]}
        BY <2>2, <2>3, Zenon
    <2>4. CASE answer' # answer \/ call' \notin {[call EXCEPT ![s] = "by_digest"], [call EXCEPT ![s] = "failed"]}
        <3>1. call' = [call EXCEPT ![s] = "done"] /\ answer' = [answer EXCEPT ![s] = Replay(s)]
              /\ Replay(s) \in Bundles /\ DigestOf(Replay(s)) = DigestOf(s)
            BY <2>1, <2>4, Zenon DEF LookedUp
        <3> QED
            BY <2>2, <3>1, Zenon
    <2> QED
        BY <2>3, <2>4, Zenon
<1>5. ASSUME NEW s \in Submissions, SubmitByDigest(s)
      PROVE  AnsweredRight'
    <2>1. request' = request
        BY <1>5, Zenon DEF SubmitByDigest, Answered, Step
    <2>2. \A x : DigestOf(x)' = DigestOf(x)
        BY <2>1, Zenon DEF DigestOf
    <2> HIDE DEF DigestOf
    <2>3. CASE Step(s, "failed")
        BY <2>2, <2>3, Zenon DEF Step
    <2>4. ASSUME NEW b \in Same(s), Answered(s, b) PROVE AnsweredRight'
        BY <2>2, <2>4, Zenon DEF Answered, Same
    <2> QED
        BY <1>5, <2>3, <2>4, Zenon DEF SubmitByDigest
<1> HIDE DEF AnsweredRight, DigestOf, MayBe, Bundles, submitting, bundle, artifact,
             validation, release, collector
<1> QED
    BY <1>cases, <1>same, <1>1, <1>2, <1>3, <1>4, <1>5, Zenon

(* The sweep takes artifacts without links only, and a link goes with its row.  *)
LEMMA ContentsStep == BundleInv /\ [Next]_vars => ContentsKept'
<1> SUFFICES ASSUME BundleInv, [Next]_vars PROVE ContentsKept'
    BY Zenon
<1>cases. \/ UNCHANGED <<request, status, links, candidate>>
          \/ \E s \in Submissions : SubmitInsert(s)
          \/ \E a \in Artifacts : ArtifactEvent(a)
          \/ \E b \in Bundles : JobValidate(b)
          \/ \E d \in Definitions : OperationCommit(d)
          \/ \E b \in Bundles : Unarchive(b)
          \/ Archive
          \/ DeleteRows
          \/ OrphanSweep
    BY Zenon DEF Next, SubmitStep, ValidationStep, ValidationFails, OperationStep,
           CollectorStep, TimePasses, SubmitLookup, SubmitRefused, SubmitRecheck,
           SubmitByDigest, Claim, JobRead, JobReadFails, JobClose, JobLost,
           OperationCheck, OperationEnd, DisableDefinition, CycleStart, ListForArchive,
           DeleteClear, DeleteMark, RecordPurge, PhaseFails, RetentionPasses,
           GracePasses, OrphanLifePasses, RecordLapse, Lookup, Answered, Step, Drop,
           Entry, Fault, At, Goto, vars, submitting, bundle, artifact, validation,
           release, collector
<1>inv. /\ NoBundle \notin Bundles
        /\ request \in [Submissions -> Requests]
        /\ status \in [Bundles -> Statuses]
        /\ links \in [Bundles -> SUBSET Artifacts]
        /\ candidate \in [Artifacts -> {"none", "seen", "validated"}]
        /\ asked \in [Definitions -> MayBe]
        /\ ContentsKept
    BY BundleAssumption, Zenon DEF BundleInv, BundleTypeOK, Bundles
<1> USE <1>inv
    DEF ContentsKept, Carried, Exists, MayBe, Bundles, submitting, bundle, artifact,
        validation, release, collector
<1>same. ASSUME UNCHANGED <<request, status, links, candidate>> PROVE ContentsKept'
    BY <1>same, Zenon
<1>1. ASSUME NEW s \in Submissions, SubmitInsert(s)
      PROVE  ContentsKept'
    BY <1>1, BundleAssumption, Zenon DEF SubmitInsert, Answered, Seen
<1>2. ASSUME NEW a \in Artifacts, ArtifactEvent(a)
      PROVE  ContentsKept'
    BY <1>2, Zenon DEF ArtifactEvent, Seen
<1>3. ASSUME NEW b \in Bundles, JobValidate(b)
      PROVE  ContentsKept'
    BY <1>3 DEF JobValidate, Drop, Entry, StillReceived, MarkValidated
<1>4. ASSUME NEW d \in Definitions, OperationCommit(d)
      PROVE  ContentsKept'
    <2>1. CASE ~ Ready(asked[d])
        BY <1>4, <2>1, Zenon DEF OperationCommit
    <2>2. CASE Ready(asked[d])
        <3>1. asked[d] \in Bundles /\ Exists(asked[d])
              /\ status' = [status EXCEPT ![asked[d]] = "validated"] /\ UNCHANGED <<request, candidate>>
            BY <1>4, <2>2, Zenon DEF OperationCommit, Restore, Ready
        <3>2. links' = [links EXCEPT ![asked[d]] = @ \cup {a \in Reach[request[asked[d]]] : candidate[a] # "none"}]
            BY <1>4, <2>2, Zenon DEF OperationCommit
        <3>3. \A b \in Bundles : links[b] \subseteq links'[b]
            BY <3>1, <3>2, Zenon
        <3> QED
            BY <3>1, <3>3, Zenon
    <2> QED
        BY <2>1, <2>2, Zenon
<1>5. ASSUME NEW b \in Bundles, Unarchive(b)
      PROVE  ContentsKept'
    BY <1>5, Zenon DEF Unarchive, Restore, Restorable
<1>6. ASSUME Archive
      PROVE  ContentsKept'
    BY <1>6, Zenon DEF Archive, At, Goto, Archivable
<1>7. ASSUME DeleteRows
      PROVE  ContentsKept'
    <2>1. PICK W \in Batches(Past) :
            /\ status' = [b \in Bundles |-> IF b \in W THEN "deleted" ELSE status[b]]
            /\ links' = [b \in Bundles |-> IF b \in W THEN {} ELSE links[b]]
        BY <1>7, Zenon DEF DeleteRows
    <2>2. UNCHANGED <<request, candidate>>
        BY <1>7, Zenon DEF DeleteRows
    <2> QED
        BY <2>1, <2>2, Zenon
<1>8. ASSUME OrphanSweep
      PROVE  ContentsKept'
    <2>1. PICK W \in Batches({a \in Artifacts : Sweepable(a)}) :
            /\ candidate' = [a \in Artifacts |-> IF a \in W THEN "none" ELSE candidate[a]]
            /\ links' = [b \in Bundles |-> links[b] \ W]
        BY <1>8, Zenon DEF OrphanSweep
    <2>2. UNCHANGED <<request, status>>
        BY <1>8, Zenon DEF OrphanSweep
    <2>3. \A a \in W : \A b \in Bundles : a \notin links[b]
        BY <2>1, Zenon DEF Batches, Sweepable, LinkedTo
    <2> QED
        BY <2>1, <2>2, <2>3, Zenon
<1> HIDE DEF ContentsKept, Carried, Exists, MayBe, Bundles, submitting, bundle,
             artifact, validation, release, collector
<1> QED
    BY <1>cases, <1>same, <1>1, <1>2, <1>3, <1>4, <1>5, <1>6, <1>7, <1>8, Zenon

(* What keeps a ready row validated.                                           *)
Kept(b) ==
    Ready(b)' =>
        /\ Ready(b) /\ outbox'[b] = outbox[b]
        /\ \A a \in Carried(b) : candidate[a] = "validated" => candidate'[a] = "validated"

(* A step that makes no row ready and takes back no validation keeps the ready rows
   validated.                                                                   *)
LEMMA ReadyFrame == ReadyIsValidated /\ request' = request /\ (\A b \in Bundles : Kept(b)) => ReadyIsValidated'
<1> SUFFICES ASSUME ReadyIsValidated, request' = request, \A b \in Bundles : Kept(b)
             PROVE  ReadyIsValidated'
    BY Zenon
<1>1. \A b : Carried(b)' = Carried(b)
    BY Zenon DEF Carried
<1>2. \A b \in Bundles : Ready(b)' => Ready(b) /\ outbox'[b] = outbox[b] /\ \A a \in Carried(b) : candidate[a] = "validated" => candidate'[a] = "validated"
    BY Zenon DEF Kept
<1>3. Bundles' = Bundles
    BY Zenon DEF Bundles
<1> HIDE DEF Ready, Carried
<1> QED
    BY <1>1, <1>2, <1>3, Zenon DEF ReadyIsValidated

(* Only processEntry makes a row ready, and then it has validated its contents. *)
LEMMA ReadyStep == BundleInv /\ [Next]_vars => ReadyIsValidated'
<1> SUFFICES ASSUME BundleInv, [Next]_vars PROVE ReadyIsValidated'
    BY Zenon
<1>cases. \/ UNCHANGED <<request, status, before, outbox, candidate>>
          \/ \E s \in Submissions : SubmitInsert(s)
          \/ \E a \in Artifacts : ArtifactEvent(a)
          \/ \E b \in Bundles : Claim(b)
          \/ \E b \in Bundles : JobReadFails(b)
          \/ \E b \in Bundles : JobValidate(b)
          \/ \E b \in Bundles : JobClose(b)
          \/ \E d \in Definitions : OperationCommit(d)
          \/ \E b \in Bundles : Unarchive(b)
          \/ Archive
          \/ DeleteRows
          \/ OrphanSweep
    BY Zenon DEF Next, SubmitStep, ValidationStep, ValidationFails, OperationStep,
           CollectorStep, TimePasses, SubmitLookup, SubmitRefused, SubmitRecheck,
           SubmitByDigest, JobRead, JobLost, OperationCheck, OperationEnd,
           DisableDefinition, CycleStart, ListForArchive, DeleteClear, DeleteMark,
           RecordPurge, PhaseFails, RetentionPasses, GracePasses, OrphanLifePasses,
           RecordLapse, Lookup, Answered, Step, Drop, Fault, At, Goto, vars,
           submitting, bundle, artifact, validation, release, collector
<1>inv. /\ NoBundle \notin Bundles
        /\ request \in [Submissions -> Requests]
        /\ status \in [Bundles -> Statuses]
        /\ before \in [Bundles -> {"none", "received", "validated"}]
        /\ outbox \in [Bundles -> Outboxes]
        /\ candidate \in [Artifacts -> {"none", "seen", "validated"}]
        /\ links \in [Bundles -> SUBSET Artifacts]
        /\ asked \in [Definitions -> MayBe]
        /\ Rows
        /\ ContentsKept
        /\ ReadyIsValidated
    BY BundleAssumption, Zenon DEF BundleInv, BundleTypeOK, Bundles
<1> USE <1>inv
    DEF ReadyIsValidated, ContentsKept, Rows, Exists, MayBe, Bundles, submitting,
        bundle, artifact, validation, release, collector
<1>carried. \A b \in Bundles : Carried(b) \subseteq Artifacts
    BY BundleAssumption, Zenon DEF Carried
<1>same. ASSUME UNCHANGED <<request, status, before, outbox, candidate>> PROVE ReadyIsValidated'
    BY <1>same, ReadyFrame, Zenon DEF Kept, Ready
<1>1. ASSUME NEW s \in Submissions, SubmitInsert(s)
      PROVE  ReadyIsValidated'
    <2>1. request' = request
        BY <1>1, Zenon DEF SubmitInsert, Answered
    <2>2. status'[s] = "received" /\ UNCHANGED before
        BY <1>1, Zenon DEF SubmitInsert
    <2>3. \A x \in Artifacts : candidate[x] = "validated" => candidate'[x] = "validated"
        BY <1>1, Zenon DEF SubmitInsert, Seen
    <2>4. \A c \in Bundles \ {s} : UNCHANGED <<status[c], outbox[c]>>
        BY <1>1, Zenon DEF SubmitInsert
    <2>9. ASSUME NEW c \in Bundles PROVE Kept(c)
        BY <1>carried, <2>2, <2>3, <2>4, Zenon DEF Kept, Ready
    <2> QED
        BY <2>1, <2>9, ReadyFrame, Zenon
<1>2. ASSUME NEW a \in Artifacts, ArtifactEvent(a)
      PROVE  ReadyIsValidated'
    <2>1. request' = request
        BY <1>2, Zenon DEF ArtifactEvent
    <2>2. UNCHANGED <<status, before, outbox>>
        BY <1>2, Zenon DEF ArtifactEvent
    <2>3. \A x \in Artifacts : candidate[x] = "validated" => candidate'[x] = "validated"
        BY <1>2, Zenon DEF ArtifactEvent, Seen
    <2>9. ASSUME NEW c \in Bundles PROVE Kept(c)
        BY <1>carried, <2>2, <2>3, Zenon DEF Kept, Ready
    <2> QED
        BY <2>1, <2>9, ReadyFrame, Zenon
<1>3. ASSUME NEW b \in Bundles, Claim(b)
      PROVE  ReadyIsValidated'
    <2>1. request' = request
        BY <1>3, Zenon DEF Claim
    <2>2. UNCHANGED <<status, before, candidate>>
        BY <1>3, Zenon DEF Claim
    <2>3. \A c \in Bundles \ {b} : outbox'[c] = outbox[c]
        BY <1>3 DEF Claim
    <2>4. ~ Ready(b)
        BY <1>3, Zenon DEF Claim, Due, Ready
    <2>9. ASSUME NEW c \in Bundles PROVE Kept(c)
        BY <2>2, <2>3, <2>4, Zenon DEF Kept, Ready
    <2> QED
        BY <2>1, <2>9, ReadyFrame, Zenon
<1>4. ASSUME NEW b \in Bundles, JobReadFails(b)
      PROVE  ReadyIsValidated'
    <2>1. request' = request
        BY <1>4, Zenon DEF JobReadFails
    <2>2. UNCHANGED <<status, before, candidate>>
        BY <1>4, Zenon DEF JobReadFails
    <2>3. \A c \in Bundles \ {b} : outbox'[c] = outbox[c]
        BY <1>4, Zenon DEF JobReadFails, Entry
    <2>4. ~ Ready(b)
        BY <1>4, Zenon DEF JobReadFails, Ready
    <2>9. ASSUME NEW c \in Bundles PROVE Kept(c)
        BY <2>2, <2>3, <2>4, Zenon DEF Kept, Ready
    <2> QED
        BY <2>1, <2>9, ReadyFrame, Zenon
<1>5. ASSUME NEW b \in Bundles, JobValidate(b)
      PROVE  ReadyIsValidated'
    <2>1. request' = request /\ before' = before
        BY <1>5, Zenon DEF JobValidate
    <2>2. CASE ~ StillReceived(b)
        <3>1. UNCHANGED <<status, outbox, candidate>>
            BY <1>5, <2>2, Zenon DEF JobValidate
        <3> QED
            BY <2>1, <3>1, ReadyFrame, Zenon DEF Kept, Ready
    <2>3. CASE StillReceived(b)
        <3>1. status' = [status EXCEPT ![b] = "validated"] /\ candidate' = MarkValidated(b)
            BY <1>5, <2>3, Zenon DEF JobValidate
        <3>2. outbox[b] # "none" /\ Carried(b) \subseteq links[b]
            BY <2>3, Zenon DEF StillReceived
        <3>0. outbox' = [outbox EXCEPT ![b] = IF @ = "none" THEN @ ELSE "completed"]
            BY <1>5, <2>3, Zenon DEF JobValidate, Entry
        <3>3. outbox'[b] = "completed" /\ \A c \in Bundles \ {b} : outbox'[c] = outbox[c]
            BY <3>0, <3>2, Zenon
        <3>4. \A a \in Artifacts : candidate[a] = "validated" => candidate'[a] = "validated"
            BY <3>1, Zenon DEF MarkValidated
        <3>5. \A a \in Carried(b) : candidate'[a] = "validated"
            BY <3>1, <3>2, <1>carried, Zenon DEF MarkValidated
        <3>6. \A c : Carried(c)' = Carried(c)
            BY <2>1, Zenon DEF Carried
        <3>7. ASSUME NEW c \in Bundles \ {b}, Ready(c)'
              PROVE  outbox'[c] = "completed" /\ \A a \in Carried(c) : candidate'[a] = "validated"
            <4>1. Ready(c)
                BY <2>1, <3>1, <3>7, Zenon DEF Ready
            <4> QED
                BY <4>1, <3>3, <3>4, <1>carried
        <3> QED
            BY <3>3, <3>5, <3>6, <3>7, Zenon
    <2> QED
        BY <2>2, <2>3, Zenon
<1>6. ASSUME NEW b \in Bundles, JobClose(b)
      PROVE  ReadyIsValidated'
    <2>1. request' = request
        BY <1>6, Zenon DEF JobClose
    <2>2. UNCHANGED <<status, before, candidate>>
        BY <1>6, Zenon DEF JobClose
    <2>3. \A c \in Bundles \ {b} : outbox'[c] = outbox[c]
        BY <1>6, Zenon DEF JobClose, Entry
    <2>4. ~ Ready(b)
        BY <1>6, Zenon DEF JobClose, Ready
    <2>9. ASSUME NEW c \in Bundles PROVE Kept(c)
        BY <2>2, <2>3, <2>4, Zenon DEF Kept, Ready
    <2> QED
        BY <2>1, <2>9, ReadyFrame, Zenon
<1>7. ASSUME NEW d \in Definitions, OperationCommit(d)
      PROVE  ReadyIsValidated'
    <2>1. request' = request
        BY <1>7, Zenon DEF OperationCommit
    <2>2. UNCHANGED <<outbox, candidate>>
        BY <1>7, Zenon DEF OperationCommit
    <2>3. \A c \in Bundles : Ready(c)' => Ready(c)
        <3>1. CASE ~ Ready(asked[d])
            BY <1>7, <3>1, Zenon DEF OperationCommit, Ready
        <3>2. CASE Ready(asked[d])
            <4>1. status' = [status EXCEPT ![asked[d]] = "validated"] /\ before' = [before EXCEPT ![asked[d]] = "none"]
                BY <1>7, <3>2, Zenon DEF OperationCommit, Restore
            <4>2. \A c \in Bundles \ {asked[d]} : status'[c] = status[c] /\ before'[c] = before[c]
                BY <4>1, Zenon
            <4> QED
                BY <3>2, <4>2, Zenon DEF Ready
        <3> QED
            BY <3>1, <3>2, Zenon
    <2>9. ASSUME NEW c \in Bundles PROVE Kept(c)
        BY <2>2, <2>3, Zenon DEF Kept
    <2> QED
        BY <2>1, <2>9, ReadyFrame, Zenon
<1>8. ASSUME NEW b \in Bundles, Unarchive(b)
      PROVE  ReadyIsValidated'
    <2>1. request' = request
        BY <1>8, Zenon DEF Unarchive
    <2>2. UNCHANGED <<outbox, candidate>>
        BY <1>8, Zenon DEF Unarchive
    <2>3. \A c \in Bundles : Ready(c)' => Ready(c)
        BY <1>8, Zenon DEF Unarchive, Restorable, Restore, Ready
    <2>9. ASSUME NEW c \in Bundles PROVE Kept(c)
        BY <2>2, <2>3, Zenon DEF Kept
    <2> QED
        BY <2>1, <2>9, ReadyFrame, Zenon
<1>9. ASSUME Archive
      PROVE  ReadyIsValidated'
    <2>1. request' = request
        BY <1>9, Zenon DEF Archive
    <2>2. UNCHANGED <<outbox, candidate>>
        BY <1>9, Zenon DEF Archive
    <2>3. \A c \in Bundles : Ready(c)' => Ready(c)
        BY <1>9, Zenon DEF Archive, Archivable, Remembered, Ready
    <2>9. ASSUME NEW c \in Bundles PROVE Kept(c)
        BY <2>2, <2>3, Zenon DEF Kept
    <2> QED
        BY <2>1, <2>9, ReadyFrame, Zenon
<1>10. ASSUME DeleteRows
      PROVE  ReadyIsValidated'
    <2>1. PICK W \in Batches(Past) :
            /\ status' = [c \in Bundles |-> IF c \in W THEN "deleted" ELSE status[c]]
            /\ before' = [c \in Bundles |-> IF c \in W THEN "none" ELSE before[c]]
            /\ outbox' = [c \in Bundles |-> IF c \in W THEN "none" ELSE outbox[c]]
        BY <1>10, Zenon DEF DeleteRows
    <2>2. UNCHANGED <<request, candidate>>
        BY <1>10, Zenon DEF DeleteRows
    <2>9. ASSUME NEW c \in Bundles PROVE Kept(c)
        BY <2>1, <2>2, Zenon DEF Kept, Ready
    <2> QED
        BY <2>2, <2>9, ReadyFrame, Zenon
<1>11. ASSUME OrphanSweep
      PROVE  ReadyIsValidated'
    <2>1. PICK W \in Batches({a \in Artifacts : Sweepable(a)}) :
            candidate' = [a \in Artifacts |-> IF a \in W THEN "none" ELSE candidate[a]]
        BY <1>11, Zenon DEF OrphanSweep
    <2>2. UNCHANGED <<request, status, before, outbox>>
        BY <1>11, Zenon DEF OrphanSweep
    <2>3. \A a \in W : \A c \in Bundles : a \notin links[c]
        BY <2>1, Zenon DEF Batches, Sweepable, LinkedTo
    <2>4. ASSUME NEW c \in Bundles, Ready(c) PROVE \A a \in Carried(c) : a \notin W /\ a \in Artifacts
        BY <2>3, <2>4, <1>carried, Zenon DEF Ready
    <2>9. ASSUME NEW c \in Bundles PROVE Kept(c)
        <3>1. Ready(c)' <=> Ready(c)
            BY <2>2, Zenon DEF Ready
        <3> QED
            BY <3>1, <2>1, <2>2, <2>4, Zenon DEF Kept
    <2> QED
        BY <2>2, <2>9, ReadyFrame, Zenon
<1> HIDE DEF ReadyIsValidated, ContentsKept, Rows, Exists, MayBe, Bundles, submitting,
             bundle, artifact, validation, release, collector
<1> QED
    BY <1>cases, <1>same, <1>1, <1>2, <1>3, <1>4, <1>5, <1>6, <1>7, <1>8, <1>9, <1>10,
       <1>11, Zenon

(* Archive records the status a used row had, and the row was validated.         *)
LEMMA UsedStep == BundleInv /\ [Next]_vars => UsedIsReady'
<1> SUFFICES ASSUME BundleInv, [Next]_vars PROVE UsedIsReady'
    BY Zenon
<1>cases. \/ UNCHANGED <<using, status, before>>
          \/ \E s \in Submissions : SubmitInsert(s)
          \/ \E b \in Bundles : JobValidate(b)
          \/ \E d \in Definitions : OperationCommit(d)
          \/ \E d \in Definitions : OperationEnd(d)
          \/ \E b \in Bundles : Unarchive(b)
          \/ Archive
          \/ DeleteRows
    BY Zenon DEF Next, SubmitStep, ValidationStep, ValidationFails, OperationStep,
           CollectorStep, TimePasses, SubmitLookup, SubmitRefused, SubmitRecheck,
           SubmitByDigest, ArtifactEvent, Claim, JobRead, JobReadFails, JobClose,
           JobLost, OperationCheck, DisableDefinition, CycleStart, ListForArchive,
           DeleteClear, DeleteMark, OrphanSweep, RecordPurge, PhaseFails,
           RetentionPasses, GracePasses, OrphanLifePasses, RecordLapse, Lookup,
           Answered, Step, Drop, Entry, Fault, At, Goto, vars, submitting, bundle,
           artifact, validation, release, collector
<1>inv. /\ NoBundle \notin Bundles
        /\ status \in [Bundles -> Statuses]
        /\ before \in [Bundles -> {"none", "received", "validated"}]
        /\ using \in [Definitions -> MayBe]
        /\ asked \in [Definitions -> MayBe]
        /\ call \in [Submissions -> Calls]
        /\ Rows
        /\ UsedInserted
        /\ UsedIsReady
    BY BundleAssumption, Zenon DEF BundleInv, BundleTypeOK, Bundles
<1> USE <1>inv
    DEF UsedIsReady, UsedInserted, Rows, Ready, Exists, MayBe, Bundles, submitting,
        bundle, artifact, validation, release, collector
<1>same. ASSUME UNCHANGED <<using, status, before>> PROVE UsedIsReady'
    BY <1>same, Zenon
<1>1. ASSUME NEW s \in Submissions, SubmitInsert(s)
      PROVE  UsedIsReady'
    BY <1>1, Zenon DEF SubmitInsert, Answered
<1>2. ASSUME NEW b \in Bundles, JobValidate(b)
      PROVE  UsedIsReady'
    <2>1. CASE ~ StillReceived(b)
        BY <1>2, <2>1, Zenon DEF JobValidate
    <2>2. CASE StillReceived(b)
        <3>1. status' = [status EXCEPT ![b] = "validated"] /\ UNCHANGED <<before, using>>
            BY <1>2, <2>2, Zenon DEF JobValidate
        <3>2. SUFFICES ASSUME NEW d \in Definitions, using[d] # NoBundle, Exists(using[d])'
                       PROVE  Ready(using[d])'
            BY <3>1, Zenon
        <3>3. CASE using[d] = b
            BY <3>1, <3>3, Zenon
        <3>4. CASE using[d] # b
            <4>1. status'[using[d]] = status[using[d]] /\ before' = before /\ using' = using
                BY <3>1, <3>2, <3>4
            <4>2. Exists(using[d])
                BY <3>2, <4>1, Zenon
            <4>3. Ready(using[d])
                BY <3>2, <4>2, Zenon
            <4> QED
                BY <4>1, <4>3, Zenon
        <3> QED
            BY <3>3, <3>4, Zenon
    <2> QED
        BY <2>1, <2>2, Zenon
<1>3. ASSUME NEW d \in Definitions, OperationCommit(d)
      PROVE  UsedIsReady'
    <2>1. CASE ~ Ready(asked[d])
        BY <1>3, <2>1, Zenon DEF OperationCommit
    <2>2. CASE Ready(asked[d])
        <3>1. asked[d] \in Bundles /\ status' = [status EXCEPT ![asked[d]] = "validated"]
            BY <1>3, <2>2, Zenon DEF OperationCommit, Restore
        <3>2. using' = [using EXCEPT ![d] = asked[d]]
            BY <1>3, <2>2, Zenon DEF OperationCommit
        <3>0. before' = [before EXCEPT ![asked[d]] = "none"]
            BY <1>3, <2>2, Zenon DEF OperationCommit, Restore
        <3>3. \A c \in Bundles \ {asked[d]} : status'[c] = status[c] /\ before'[c] = before[c]
            BY <3>0, <3>1
        <3>4. SUFFICES ASSUME NEW e \in Definitions, using'[e] # NoBundle, Exists(using[e])'
                       PROVE  Ready(using[e])'
            BY Zenon
        <3>5. CASE using'[e] = asked[d]
            BY <3>1, <3>5, Zenon
        <3>6. CASE using'[e] # asked[d]
            <4>1. using'[e] = using[e] /\ using[e] \in Bundles
                BY <3>2, <3>4, <3>6
            <4>2. Exists(using[e])
                BY <3>3, <3>4, <3>6, <4>1
            <4>3. Ready(using[e])
                BY <3>4, <4>1, <4>2, Zenon
            <4>4. status'[using[e]] = status[using[e]] /\ before'[using[e]] = before[using[e]]
                BY <3>3, <3>6, <4>1, Zenon
            <4> QED
                BY <4>1, <4>3, <4>4, Zenon
        <3> QED
            BY <3>5, <3>6, Zenon
    <2> QED
        BY <2>1, <2>2, Zenon
<1>4. ASSUME NEW d \in Definitions, OperationEnd(d)
      PROVE  UsedIsReady'
    BY <1>4, Zenon DEF OperationEnd
<1>5. ASSUME NEW b \in Bundles, Unarchive(b)
      PROVE  UsedIsReady'
    BY <1>5 DEF Unarchive, Restore, Restorable
<1>6. ASSUME Archive
      PROVE  UsedIsReady'
    BY <1>6 DEF Archive, At, Goto, Archivable, Remembered
<1>7. ASSUME DeleteRows
      PROVE  UsedIsReady'
    <2>1. PICK W \in Batches(Past) :
            /\ status' = [b \in Bundles |-> IF b \in W THEN "deleted" ELSE status[b]]
            /\ before' = [b \in Bundles |-> IF b \in W THEN "none" ELSE before[b]]
        BY <1>7, Zenon DEF DeleteRows
    <2>2. UNCHANGED using
        BY <1>7, Zenon DEF DeleteRows
    <2> QED
        BY <2>1, <2>2, Zenon
<1> HIDE DEF UsedIsReady, UsedInserted, Rows, Ready, Exists, MayBe, Bundles,
             submitting, bundle, artifact, validation, release, collector
<1> QED
    BY <1>cases, <1>same, <1>1, <1>2, <1>3, <1>4, <1>5, <1>6, <1>7, Zenon

(* All together: every step keeps the invariant.                               *)
LEMMA NextInv == BundleInv /\ [Next]_vars => BundleInv'
BY TypesStep, RowsStep, UsedInsertedStep, OneRowStep, AnsweredStep, ContentsStep, ReadyStep, UsedStep, Zenon
   DEF BundleInv

(* DeleteRows takes rows that DeleteClear left without a reference.             *)
LEMMA CurrentStep == OneBatch /\ BundleInv /\ DeleteInv /\ [Next]_vars => CurrentExists'
<1> SUFFICES ASSUME OneBatch, BundleInv, DeleteInv, [Next]_vars PROVE CurrentExists'
    BY Zenon
<1>cases. \/ UNCHANGED <<current, status>>
          \/ \E s \in Submissions : SubmitInsert(s)
          \/ \E b \in Bundles : JobValidate(b)
          \/ \E d \in Definitions : OperationCommit(d)
          \/ \E b \in Bundles : Unarchive(b)
          \/ Archive
          \/ DeleteClear
          \/ DeleteRows
    BY Zenon DEF Next, SubmitStep, ValidationStep, ValidationFails, OperationStep,
           CollectorStep, TimePasses, SubmitLookup, SubmitRefused, SubmitRecheck,
           SubmitByDigest, ArtifactEvent, Claim, JobRead, JobReadFails, JobClose,
           JobLost, OperationCheck, OperationEnd, DisableDefinition, CycleStart,
           ListForArchive, DeleteMark, OrphanSweep, RecordPurge, PhaseFails,
           RetentionPasses, GracePasses, OrphanLifePasses, RecordLapse, Lookup,
           Answered, Step, Drop, Entry, Fault, At, Goto, vars, submitting, bundle,
           artifact, validation, release, collector
<1>inv. /\ NoBundle \notin Bundles
        /\ status \in [Bundles -> Statuses]
        /\ current \in [Definitions -> MayBe]
        /\ asked \in [Definitions -> MayBe]
        /\ CurrentExists
        /\ Prepared
    BY BundleAssumption, Zenon DEF OneBatch, BundleInv, DeleteInv, BundleTypeOK, Bundles
<1> USE <1>inv
    DEF CurrentExists, Exists, MayBe, Bundles, submitting, bundle, artifact,
        validation, release, collector
<1>same. ASSUME UNCHANGED <<current, status>> PROVE CurrentExists'
    BY <1>same, Zenon
<1>1. ASSUME NEW s \in Submissions, SubmitInsert(s)
      PROVE  CurrentExists'
    BY <1>1, Zenon DEF SubmitInsert, Answered
<1>2. ASSUME NEW b \in Bundles, JobValidate(b)
      PROVE  CurrentExists'
    BY <1>2, Zenon DEF JobValidate, Drop, Entry, StillReceived
<1>3. ASSUME NEW d \in Definitions, OperationCommit(d)
      PROVE  CurrentExists'
    <2>1. CASE ~ Ready(asked[d])
        BY <1>3, <2>1, Zenon DEF OperationCommit
    <2>2. CASE Ready(asked[d])
        <3>1. asked[d] \in Bundles /\ status' = [status EXCEPT ![asked[d]] = "validated"]
            BY <1>3, <2>2, Zenon DEF OperationCommit, Restore
        <3>2. current' = [current EXCEPT ![d] = asked[d]]
            BY <1>3, <2>2, Zenon DEF OperationCommit
        <3> QED
            BY <3>1, <3>2, Zenon
    <2> QED
        BY <2>1, <2>2, Zenon
<1>4. ASSUME NEW b \in Bundles, Unarchive(b)
      PROVE  CurrentExists'
    BY <1>4, Zenon DEF Unarchive, Restore, Restorable
<1>5. ASSUME Archive
      PROVE  CurrentExists'
    BY <1>5, Zenon DEF Archive, At, Goto, Archivable
<1>6. ASSUME DeleteClear
      PROVE  CurrentExists'
    BY <1>6, Zenon DEF DeleteClear, At, Goto, Clear
<1>7. ASSUME DeleteRows
      PROVE  CurrentExists'
    <2>1. PICK W \in Batches(Past) : status' = [b \in Bundles |-> IF b \in W THEN "deleted" ELSE status[b]]
        BY <1>7, Zenon DEF DeleteRows
    <2>2. W \subseteq Past
        BY <2>1, Zenon DEF Batches
    <2>3. \A d \in Definitions : current[d] \notin W /\ current'[d] = current[d]
        BY <1>7, <2>2, Zenon DEF DeleteRows, At, Prepared
    <2> QED
        BY <2>1, <2>3, Zenon
<1> HIDE DEF CurrentExists, Exists, MayBe, Bundles, submitting, bundle, artifact,
             validation, release, collector
<1> QED
    BY <1>cases, <1>same, <1>1, <1>2, <1>3, <1>4, <1>5, <1>6, <1>7, Zenon

(* An artifact loses its last row in DeleteRows only, after DeleteMark.         *)
LEMMA OrphansStep == OneBatch /\ BundleInv /\ DeleteInv /\ [Next]_vars => OrphansMarked'
<1> SUFFICES ASSUME OneBatch, BundleInv, DeleteInv, [Next]_vars PROVE OrphansMarked'
    BY Zenon
<1>cases. \/ UNCHANGED <<candidate, links, orphan>>
          \/ \E s \in Submissions : SubmitInsert(s)
          \/ \E a \in Artifacts : ArtifactEvent(a)
          \/ \E b \in Bundles : JobValidate(b)
          \/ \E d \in Definitions : OperationCommit(d)
          \/ DeleteMark
          \/ DeleteRows
          \/ OrphanSweep
          \/ \E a \in Artifacts : OrphanLifePasses(a)
    BY Zenon DEF Next, SubmitStep, ValidationStep, ValidationFails, OperationStep,
           CollectorStep, TimePasses, SubmitLookup, SubmitRefused, SubmitRecheck,
           SubmitByDigest, Claim, JobRead, JobReadFails, JobClose, JobLost,
           OperationCheck, OperationEnd, DisableDefinition, Unarchive, CycleStart,
           ListForArchive, Archive, DeleteClear, RecordPurge, PhaseFails,
           RetentionPasses, GracePasses, RecordLapse, Lookup, Answered, Step, Drop,
           Entry, Fault, Restore, At, Goto, vars, submitting, bundle, artifact,
           validation, release, collector
<1>inv. /\ NoBundle \notin Bundles
        /\ request \in [Submissions -> Requests]
        /\ candidate \in [Artifacts -> {"none", "seen", "validated"}]
        /\ links \in [Bundles -> SUBSET Artifacts]
        /\ orphan \in [Artifacts -> Orphans]
        /\ asked \in [Definitions -> MayBe]
        /\ call \in [Submissions -> Calls]
        /\ Rows
        /\ Prepared
        /\ OrphansMarked
    BY BundleAssumption, Zenon DEF OneBatch, BundleInv, DeleteInv, BundleTypeOK, Bundles
<1> USE <1>inv
    DEF OrphansMarked, LinkedTo, MayBe, Bundles, submitting, bundle, artifact,
        validation, release, collector
<1>same. ASSUME UNCHANGED <<candidate, links, orphan>> PROVE OrphansMarked'
    BY <1>same, Zenon
<1>1. ASSUME NEW s \in Submissions, SubmitInsert(s)
      PROVE  OrphansMarked'
    <2>1. links[s] = {}
        BY <1>1, Zenon DEF SubmitInsert, Rows, Exists
    <2>2. links' = [links EXCEPT ![s] = Carried(s)] /\ orphan' = Adopted(Carried(s)) /\ candidate' = Seen(Carried(s))
        BY <1>1, Zenon DEF SubmitInsert
    <2>3. SUFFICES ASSUME NEW a \in Artifacts, candidate'[a] = "validated", LinkedTo(a)' = {} PROVE orphan'[a] # "no"
        BY Zenon
    <2>4. a \notin Carried(s)
        BY <2>2, <2>3, Zenon
    <2>5. LinkedTo(a) = {}
        BY <2>1, <2>2, <2>3, Zenon
    <2> QED
        BY <2>2, <2>3, <2>4, <2>5, Zenon DEF Seen, Adopted
<1>2. ASSUME NEW a \in Artifacts, ArtifactEvent(a)
      PROVE  OrphansMarked'
    BY <1>2, Zenon DEF ArtifactEvent, Seen
<1>3. ASSUME NEW b \in Bundles, JobValidate(b)
      PROVE  OrphansMarked'
    BY <1>3, Zenon DEF JobValidate, Drop, Entry, MarkValidated
<1>4. ASSUME NEW d \in Definitions, OperationCommit(d)
      PROVE  OrphansMarked'
    <2>1. CASE ~ Ready(asked[d])
        BY <1>4, <2>1, Zenon DEF OperationCommit
    <2>2. CASE Ready(asked[d])
        <3>1. asked[d] \in Bundles /\ status' = [status EXCEPT ![asked[d]] = "validated"]
            BY <1>4, <2>2, Zenon DEF OperationCommit, Restore
        <3>2. links' = [links EXCEPT ![asked[d]] = @ \cup {a \in Reach[request[asked[d]]] : candidate[a] # "none"}]
              /\ orphan' = Adopted(links'[asked[d]]) /\ candidate' = candidate
            BY <1>4, <2>2, Zenon DEF OperationCommit
        <3>3. SUFFICES ASSUME NEW a \in Artifacts, candidate'[a] = "validated", LinkedTo(a)' = {} PROVE orphan'[a] # "no"
            BY Zenon
        <3>4. LinkedTo(a) = {} /\ a \notin links'[asked[d]]
            BY <3>1, <3>2, <3>3, Zenon
        <3> QED
            BY <3>2, <3>3, <3>4, Zenon DEF Adopted
    <2> QED
        BY <2>1, <2>2, Zenon
<1>5. ASSUME DeleteMark
      PROVE  OrphansMarked'
    BY <1>5, Zenon DEF DeleteMark, At, Goto, Mark
<1>6. ASSUME DeleteRows
      PROVE  OrphansMarked'
    <2>1. PICK W \in Batches(Past) : links' = [b \in Bundles |-> IF b \in W THEN {} ELSE links[b]]
        BY <1>6, Zenon DEF DeleteRows
    <2>2. W \subseteq Past
        BY <2>1, Zenon DEF Batches
    <2>3. gc = "delete" /\ UNCHANGED <<candidate, orphan>>
        BY <1>6, Zenon DEF DeleteRows, At
    <2>4. SUFFICES ASSUME NEW a \in Artifacts, candidate[a] = "validated", LinkedTo(a)' = {} PROVE orphan[a] # "no"
        BY <2>3, Zenon
    <2>5. CASE LinkedTo(a) = {}
        BY <2>4, <2>5, Zenon
    <2>6. CASE LinkedTo(a) # {}
        <3>1. LinkedTo(a) \subseteq Past
            BY <2>1, <2>2, <2>4, Zenon
        <3> QED
            BY <2>3, <2>6, <3>1, Zenon DEF Prepared
    <2> QED
        BY <2>5, <2>6, Zenon
<1>7. ASSUME OrphanSweep
      PROVE  OrphansMarked'
    <2>1. PICK W \in Batches({a \in Artifacts : Sweepable(a)}) :
            /\ candidate' = [a \in Artifacts |-> IF a \in W THEN "none" ELSE candidate[a]]
            /\ orphan' = [a \in Artifacts |-> IF a \in W THEN "no" ELSE orphan[a]]
            /\ links' = [b \in Bundles |-> links[b] \ W]
        BY <1>7, Zenon DEF OrphanSweep
    <2>2. SUFFICES ASSUME NEW a \in Artifacts, candidate'[a] = "validated", LinkedTo(a)' = {} PROVE orphan'[a] # "no"
        BY Zenon
    <2>3. a \notin W /\ LinkedTo(a) = {}
        BY <2>1, <2>2, Zenon
    <2> QED
        BY <2>1, <2>2, <2>3, Zenon
<1>8. ASSUME NEW a \in Artifacts, OrphanLifePasses(a)
      PROVE  OrphansMarked'
    BY <1>8, Zenon DEF OrphanLifePasses
<1> HIDE DEF OrphansMarked, LinkedTo, MayBe, Bundles, submitting, bundle, artifact,
             validation, release, collector
<1> QED
    BY <1>cases, <1>same, <1>1, <1>2, <1>3, <1>4, <1>5, <1>6, <1>7, <1>8, Zenon

(* Rows leave Past by restores only while the three statements run, and a restore
   or a submission links its artifacts to a row outside it.                     *)
LEMMA PreparedStep == OneBatch /\ BundleInv /\ DeleteInv /\ [Next]_vars => Prepared'
<1> SUFFICES ASSUME OneBatch, BundleInv, DeleteInv, [Next]_vars PROVE Prepared'
    BY Zenon
<1>cases. \/ UNCHANGED <<gc, current, status, age, links, orphan>>
          \/ \E s \in Submissions : SubmitInsert(s)
          \/ \E b \in Bundles : JobValidate(b)
          \/ \E d \in Definitions : OperationCommit(d)
          \/ \E b \in Bundles : Unarchive(b)
          \/ CycleStart
          \/ ListForArchive
          \/ Archive
          \/ DeleteClear
          \/ DeleteMark
          \/ DeleteRows
          \/ OrphanSweep
          \/ RecordPurge
          \/ PhaseFails
          \/ \E b \in Bundles : RetentionPasses(b)
          \/ \E b \in Bundles : GracePasses(b)
          \/ \E a \in Artifacts : OrphanLifePasses(a)
    <2>1. ASSUME NEW s \in Submissions, SubmitStep(s), ~ SubmitInsert(s)
          PROVE  UNCHANGED <<gc, current, status, age, links, orphan>>
        BY <2>1, Zenon DEF SubmitStep, SubmitLookup, SubmitRefused, SubmitRecheck,
               SubmitByDigest, Lookup, Answered, Step, bundle, artifact, release, collector
    <2>2. ASSUME NEW a \in Artifacts, ArtifactEvent(a)
          PROVE  UNCHANGED <<gc, current, status, age, links, orphan>>
        BY <2>2, Zenon DEF ArtifactEvent, bundle, release, collector
    <2>3. ASSUME NEW b \in Bundles, ValidationStep(b), ~ JobValidate(b)
          PROVE  UNCHANGED <<gc, current, status, age, links, orphan>>
        BY <2>3, Zenon DEF ValidationStep, Claim, JobRead, JobClose, Drop, Entry, bundle,
               artifact, release, collector
    <2>4. ASSUME NEW b \in Bundles, ValidationFails(b)
          PROVE  UNCHANGED <<gc, current, status, age, links, orphan>>
        BY <2>4, Zenon DEF ValidationFails, JobReadFails, JobLost, Drop, Entry, bundle,
               artifact, release, collector
    <2>5. ASSUME NEW d \in Definitions, OperationStep(d), ~ OperationCommit(d)
          PROVE  UNCHANGED <<gc, current, status, age, links, orphan>>
        BY <2>5, Zenon DEF OperationStep, OperationCheck, OperationEnd, DisableDefinition,
               bundle, artifact, collector
    <2>6. ASSUME NEW k \in Keys, RecordLapse(k)
          PROVE  UNCHANGED <<gc, current, status, age, links, orphan>>
        BY <2>6, Zenon DEF RecordLapse, bundle, artifact, release, collector
    <2>7. CASE UNCHANGED vars
        BY <2>7, Zenon DEF vars, bundle, artifact, release, collector
    <2>8. CASE Next
        BY <2>1, <2>2, <2>3, <2>4, <2>5, <2>6, <2>8, Zenon DEF Next, CollectorStep, TimePasses
    <2> QED
        BY <2>7, <2>8, Zenon
<1>inv. /\ NoBundle \notin Bundles
        /\ status \in [Bundles -> Statuses]
        /\ age \in [Bundles -> Ages]
        /\ links \in [Bundles -> SUBSET Artifacts]
        /\ orphan \in [Artifacts -> Orphans]
        /\ current \in [Definitions -> MayBe]
        /\ asked \in [Definitions -> MayBe]
        /\ call \in [Submissions -> Calls]
        /\ OneBatch
        /\ Rows
        /\ gc \in Steps
        /\ Prepared
    BY BundleAssumption, Zenon DEF OneBatch, BundleInv, DeleteInv, BundleTypeOK, Bundles
<1> USE <1>inv
    DEF Prepared, LinkedTo, Past, MayBe, Bundles, submitting, bundle, artifact,
        validation, release, collector
<1>same. ASSUME UNCHANGED <<gc, current, status, age, links, orphan>> PROVE Prepared'
    BY <1>same, Zenon
<1>1. ASSUME NEW s \in Submissions, SubmitInsert(s)
      PROVE  Prepared'
    <2>1. links[s] = {}
        BY <1>1, Zenon DEF SubmitInsert, Rows, Exists
    <2>2. /\ links' = [links EXCEPT ![s] = Carried(s)] /\ orphan' = Adopted(Carried(s))
          /\ status' = [status EXCEPT ![s] = "received"] /\ UNCHANGED <<gc, age, current>>
        BY <1>1, Zenon DEF SubmitInsert
    <2>3. Past' \subseteq Past /\ s \notin Past'
        BY <2>2, Zenon
    <2>4. \A a \in Artifacts : s \notin LinkedTo(a)' => LinkedTo(a)' = LinkedTo(a) /\ orphan'[a] = orphan[a]
        BY <2>1, <2>2, Zenon DEF Adopted
    <2> HIDE DEF Past, LinkedTo
    <2> QED
        BY <2>2, <2>3, <2>4, Zenon
<1>2. ASSUME NEW b \in Bundles, JobValidate(b)
      PROVE  Prepared'
    BY <1>2 DEF JobValidate, Drop, Entry, StillReceived
<1>3. ASSUME NEW d \in Definitions, OperationCommit(d)
      PROVE  Prepared'
    <2>1. CASE ~ Ready(asked[d])
        <3>1. UNCHANGED <<bundle, current, orphan, collector>>
            BY <1>3, <2>1, Zenon DEF OperationCommit
        <3> QED
            BY <1>same, <3>1, Zenon
    <2>2. CASE Ready(asked[d])
        <3>1. asked[d] \in Bundles /\ status' = [status EXCEPT ![asked[d]] = "validated"]
            BY <1>3, <2>2, Zenon DEF OperationCommit, Restore
        <3>2. /\ links' = [links EXCEPT ![asked[d]] = @ \cup {a \in Reach[request[asked[d]]] : candidate[a] # "none"}]
              /\ orphan' = Adopted(links'[asked[d]]) /\ current' = [current EXCEPT ![d] = asked[d]]
              /\ gc' = gc
            BY <1>3, <2>2, Zenon DEF OperationCommit
        <3>3. age' = [age EXCEPT ![asked[d]] = IF @ = "past" THEN "old" ELSE @]
            BY <1>3, <2>2, Zenon DEF OperationCommit, Restore
        <3>4. Past' \subseteq Past /\ asked[d] \notin Past'
            BY <3>1, <3>3, Zenon
        <3>5. \A a \in Artifacts : asked[d] \notin LinkedTo(a)' => LinkedTo(a)' = LinkedTo(a) /\ orphan'[a] = orphan[a]
            BY <3>1, <3>2, Zenon DEF Adopted
        <3> HIDE DEF Past, LinkedTo
        <3> QED
            BY <3>1, <3>2, <3>4, <3>5, Zenon
    <2> QED
        BY <2>1, <2>2, Zenon
<1>4. ASSUME NEW b \in Bundles, Unarchive(b)
      PROVE  Prepared'
    <2>1. Past' \subseteq Past /\ UNCHANGED <<gc, current, links, orphan>>
        BY <1>4, Zenon DEF Unarchive, Restore
    <2> HIDE DEF Past
    <2> QED
        BY <2>1, Zenon
<1>5. ASSUME CycleStart
      PROVE  Prepared'
    BY <1>5, Zenon DEF CycleStart, At, Goto
<1>6. ASSUME ListForArchive
      PROVE  Prepared'
    BY <1>6, Zenon DEF ListForArchive, At, Goto, NextPhase
<1>7. ASSUME Archive
      PROVE  Prepared'
    BY <1>7, Zenon DEF Archive, At, Goto, NextPhase
<1>8. ASSUME DeleteClear
      PROVE  Prepared'
    <2>1. PICK W \in Batches(Past) : current' = Clear(W)
        BY <1>8, Zenon DEF DeleteClear
    <2>2. W = Past
        BY WholeBatch, <2>1, Zenon
    <2>3. gc' = "mark" /\ Past' = Past
        BY <1>8, Zenon DEF DeleteClear, Goto
    <2>4. NoBundle \notin Past
        BY Zenon
    <2> HIDE DEF Past
    <2> QED
        BY <2>1, <2>2, <2>3, <2>4, Zenon DEF Clear
<1>9. ASSUME DeleteMark
      PROVE  Prepared'
    <2>1. PICK W \in Batches(Past) : orphan' = Mark(W)
        BY <1>9, Zenon DEF DeleteMark
    <2>2. W = Past
        BY WholeBatch, <2>1, Zenon
    <2>3. gc = "mark" /\ gc' = "delete" /\ Past' = Past /\ current' = current
        BY <1>9, Zenon DEF DeleteMark, At, Goto
    <2>4. \A a : LinkedTo(a)' = LinkedTo(a)
        BY <1>9, Zenon DEF DeleteMark
    <2> HIDE DEF Past, LinkedTo
    <2> QED
        BY <2>1, <2>2, <2>3, <2>4, Zenon DEF Mark
<1>10. ASSUME DeleteRows
      PROVE  Prepared'
    BY <1>10, Zenon DEF DeleteRows, At, Goto, NextPhase
<1>11. ASSUME OrphanSweep
      PROVE  Prepared'
    BY <1>11, Zenon DEF OrphanSweep, At, Goto, NextPhase
<1>12. ASSUME RecordPurge
      PROVE  Prepared'
    BY <1>12, Zenon DEF RecordPurge, At, Goto, NextPhase
<1>13. ASSUME PhaseFails
      PROVE  Prepared'
    BY <1>13, Zenon DEF PhaseFails, Fault, NextPhase, Steps
<1>14. ASSUME NEW b \in Bundles, RetentionPasses(b)
      PROVE  Prepared'
    <2>1. Past' \subseteq Past /\ UNCHANGED <<gc, current, links, orphan>>
        BY <1>14, Zenon DEF RetentionPasses
    <2> HIDE DEF Past
    <2> QED
        BY <2>1, Zenon
<1>15. ASSUME NEW b \in Bundles, GracePasses(b)
      PROVE  Prepared'
    BY <1>15, Zenon DEF GracePasses
<1>16. ASSUME NEW a \in Artifacts, OrphanLifePasses(a)
      PROVE  Prepared'
    BY <1>16, Zenon DEF OrphanLifePasses
<1> HIDE DEF Prepared, LinkedTo, Past, MayBe, Bundles, submitting, bundle, artifact,
             validation, release, collector
<1> QED
    BY <1>cases, <1>same, <1>1, <1>2, <1>3, <1>4, <1>5, <1>6, <1>7, <1>8, <1>9, <1>10,
       <1>11, <1>12, <1>13, <1>14, <1>15, <1>16, Zenon

-------------------------------------------------------------------------------
(* The invariant holds in every reachable state.                               *)
THEOREM BundleInvariant == Spec => []BundleInv
<1>1. Init => BundleInv
    BY InitInv, Zenon
<1> QED
    BY <1>1, NextInv, PTL DEF Spec

(* As long as a bundle exists its artifacts do (DeleteOrphanBefore), a bundle an
   operation may use was validated with all of them (processEntry), and the
   bundle of an unfinished operation stays usable or restorable (Archive).      *)
THEOREM BundleUsable == Spec => [](ContentsKept /\ ReadyIsValidated /\ UsedIsReady)
<1>1. BundleInv => ContentsKept /\ ReadyIsValidated /\ UsedIsReady
    BY Zenon DEF BundleInv
<1> QED
    BY <1>1, BundleInvariant, PTL

(* Submit answers every call with a row of its content, and all calls of one
   content with one row while it exists.                                        *)
THEOREM SubmissionsAgree == Spec => []AnswersAgree
<1>1. BundleInv => AnswersAgree
    <2> SUFFICES ASSUME BundleInv PROVE AnswersAgree
        BY Zenon
    <2>1. AnsweredRight /\ OneRow
        BY Zenon DEF BundleInv
    <2> HIDE DEF DigestOf, Exists
    <2> QED
        BY <2>1, Zenon DEF AnswersAgree, AnsweredRight, OneRow, Same
<1> QED
    BY <1>1, BundleInvariant, PTL

(* A step makes a row validated from received, or from an archive of a validated
   one, and deletes rows past their grace in the archive only.                  *)
LEMMA PromotedStep == BundleTypeOK /\ [Next]_vars => \A c \in Bundles : Promoted(c) /\ DeletedFrom(c)
<1> SUFFICES ASSUME BundleTypeOK, [Next]_vars PROVE (\A c \in Bundles : Promoted(c) /\ DeletedFrom(c))
    OBVIOUS
<1>cases. \/ UNCHANGED <<status>>
          \/ \E s \in Submissions : SubmitInsert(s)
          \/ \E b \in Bundles : JobValidate(b)
          \/ \E d \in Definitions : OperationCommit(d)
          \/ \E b \in Bundles : Unarchive(b)
          \/ Archive
          \/ DeleteRows
    BY Zenon DEF Next, SubmitStep, ValidationStep, ValidationFails, OperationStep,
           CollectorStep, TimePasses, SubmitLookup, SubmitRefused, SubmitRecheck,
           SubmitByDigest, ArtifactEvent, Claim, JobRead, JobReadFails, JobClose,
           JobLost, OperationCheck, OperationEnd, DisableDefinition, CycleStart,
           ListForArchive, DeleteClear, DeleteMark, OrphanSweep, RecordPurge,
           PhaseFails, RetentionPasses, GracePasses, OrphanLifePasses, RecordLapse,
           Lookup, Answered, Step, Drop, Entry, Fault, At, Goto, vars, submitting,
           bundle, artifact, validation, release, collector
<1>inv. /\ status \in [Bundles -> Statuses]
        /\ before \in [Bundles -> {"none", "received", "validated"}]
        /\ asked \in [Definitions -> MayBe]
    BY BundleAssumption, Zenon DEF BundleTypeOK, Bundles
<1> USE <1>inv
    DEF Promoted, DeletedFrom, Ready, Past, MayBe, Bundles, submitting, bundle,
        artifact, validation, release, collector
<1>same. ASSUME UNCHANGED <<status>> PROVE (\A c \in Bundles : Promoted(c) /\ DeletedFrom(c))
    BY <1>same, Zenon
<1>1. ASSUME NEW s \in Submissions, SubmitInsert(s)
      PROVE  (\A c \in Bundles : Promoted(c) /\ DeletedFrom(c))
    BY <1>1, Zenon DEF SubmitInsert, Answered
<1>2. ASSUME NEW b \in Bundles, JobValidate(b)
      PROVE  (\A c \in Bundles : Promoted(c) /\ DeletedFrom(c))
    BY <1>2, Zenon DEF JobValidate, Drop, Entry, StillReceived
<1>3. ASSUME NEW d \in Definitions, OperationCommit(d)
      PROVE  (\A c \in Bundles : Promoted(c) /\ DeletedFrom(c))
    <2>1. CASE ~ Ready(asked[d])
        BY <1>3, <2>1, Zenon DEF OperationCommit
    <2>2. CASE Ready(asked[d])
        <3>1. asked[d] \in Bundles /\ status' = [status EXCEPT ![asked[d]] = "validated"]
            BY <1>3, <2>2, Zenon DEF OperationCommit, Restore
        <3> QED
            BY <2>2, <3>1, Zenon
    <2> QED
        BY <2>1, <2>2, Zenon
<1>4. ASSUME NEW b \in Bundles, Unarchive(b)
      PROVE  (\A c \in Bundles : Promoted(c) /\ DeletedFrom(c))
    BY <1>4, Zenon DEF Unarchive, Restore, Restorable
<1>5. ASSUME Archive
      PROVE  (\A c \in Bundles : Promoted(c) /\ DeletedFrom(c))
    BY <1>5, Zenon DEF Archive, At, Goto
<1>6. ASSUME DeleteRows
      PROVE  (\A c \in Bundles : Promoted(c) /\ DeletedFrom(c))
    <2>1. PICK W \in Batches(Past) : status' = [b \in Bundles |-> IF b \in W THEN "deleted" ELSE status[b]]
        BY <1>6, Zenon DEF DeleteRows
    <2>2. W \subseteq Past
        BY <2>1, Zenon DEF Batches
    <2> QED
        BY <2>1, <2>2, Zenon
<1> HIDE DEF Promoted, DeletedFrom, Ready, Past, MayBe, Bundles, submitting, bundle,
             artifact, validation, release, collector
<1> QED
    BY <1>cases, <1>same, <1>1, <1>2, <1>3, <1>4, <1>5, <1>6, Zenon

(* UpdateStatusTx promotes a received row only, a restore gives back the status the
   archive took, and deleteExpiredBundles takes rows past their grace only.     *)
THEOREM StatusesFollow == Spec => NotPromoted
<1>1. BundleInv /\ [Next]_vars => [\A b \in Bundles : Promoted(b) /\ DeletedFrom(b)]_vars
    BY PromotedStep, Zenon DEF BundleInv
<1> QED
    BY <1>1, BundleInvariant, PTL DEF Spec, NotPromoted

(* Where one batch holds the table, deleteExpiredBundles leaves no reference to
   a deleted row and no artifact without a row and without a mark, whatever
   restores, submissions and operations come between its statements.            *)
THEOREM DeletionClean == ASSUME OneBatch PROVE Spec => [](CurrentExists /\ OrphansMarked)
<1>1. Init => DeleteInv
    BY InitInv, Zenon
<1>2. BundleInv /\ DeleteInv /\ [Next]_vars => DeleteInv'
    BY CurrentStep, OrphansStep, PreparedStep, Zenon DEF DeleteInv
<1>3. DeleteInv => CurrentExists /\ OrphansMarked
    BY Zenon DEF DeleteInv
<1> QED
    BY <1>1, <1>2, <1>3, BundleInvariant, PTL DEF Spec
=============================================================================
