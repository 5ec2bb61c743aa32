----------------------- MODULE EmergencyChangeProofs -----------------------
(***************************************************************************)
(* Proofs about emergency changes, for any set of changes, targets,        *)
(* capacities and faults and any selection of the racing writers.          *)
(***************************************************************************)
EXTENDS EmergencyChange, TLAPS

\* More time than the default: a step's context holds everything above it.
USE SMTT(20)

-----------------------------------------------------------------------------
(* The inductive invariant. *)

Results == {"succeeded", "failed"}

\* A request has a row from its creation on, and so has a command in the agent's
\* store.
RequestsFollowed ==
    \A o \in Changes :
        /\ req[o] \in {"idle", "checked"} => ~Created(o)
        /\ req[o] \in {"created", "dispatched", "marked"} => Created(o)
LocalFollowed == \A o \in Changes : local[o] # "none" => Created(o)

\* Everything in transit or in hand is about an operation whose row exists.
InRows(s)  == \A i \in DOMAIN s : Created(s[i])
UpFollowed == \A i \in DOMAIN up : Created(up[i].op)
Held(r)    == r.op \in Changes /\ Created(r.op)
Followed ==
    /\ RequestsFollowed /\ LocalFollowed
    /\ InRows(chan) /\ InRows(down) /\ UpFollowed
    /\ gw.pc # "idle" => Held(gw)
    /\ agent.pc \notin {"idle", "down"} => Held(agent)
    /\ sweep # Nothing => Held(sweep)
    /\ cancel # Nothing => Held(cancel)
    /\ release # Nothing => Held(release)
    /\ \A o \in replay : Created(o)

\* A success travels from the cluster to the operation without being invented.
Truthful ==
    /\ \A o \in Changes : local[o] = "succeeded" => o \in applied
    /\ agent.pc = "store" =>
          agent.status \in Results /\ (agent.status = "succeeded" => agent.op \in applied)
    /\ agent.pc = "report" => local[agent.op] \in Results
    /\ \A i \in DOMAIN up : up[i].kind = "result" =>
          up[i].res \in Results /\ (up[i].res = "succeeded" => up[i].op \in applied)
    /\ gw.pc = "result" =>
          gw.status \in Results /\ (gw.status = "succeeded" => gw.op \in applied)

\* A row's version counts from its creation; an effect becomes known, and a lock
\* is released, only when the operation has ended.
RowsInOrder ==
    \A o \in Changes :
        /\ op[o].status = "absent" <=> op[o].version = 0
        /\ op[o].status = "pending" <=> op[o].version = 1
        /\ ~IsTerminal(op[o].status) => intent[o].effect = "UNKNOWN" /\ ~intent[o].released

\* An operation that was observed to its end stays ended; a release that may
\* write is about one that did not succeed and holds its lock.
ReleasesEnded ==
    /\ \A o \in aged : IsTerminal(op[o].status)
    /\ release # Nothing /\ release.op \in aged => op[release.op].status # "succeeded"
    /\ \A o \in Changes : intent[o].released => release.op # o

\* How far an operation is: still as it was created, on its way, or ended.
Progress(o) ==
    IF IsTerminal(op[o].status) THEN 2 ELSE IF op[o].status = "pending" THEN 0 ELSE 1

\* The lock was released with the effect settled.
Settled(o) == intent[o].released /\ intent[o].effect # "UNKNOWN"

\* While a result is in the gateway's hands, every lost compare-and-swap took
\* the operation a step further, or settled its effect.
AttemptsSuffice ==
    gw.pc = "result" =>
        /\ gw.try \in 1 .. MaxAttempts
        /\ Progress(gw.op) >= gw.try - 1
        /\ op[gw.op].version # gw.version => Progress(gw.op) >= gw.try \/ Settled(gw.op)

Conjuncts ==
    /\ EmergencyTypeOK /\ Followed /\ Truthful /\ RowsInOrder /\ AppliedIsTrue
    /\ ReleasesEnded /\ OneLiveOperation /\ TargetLocked /\ AttemptsSuffice

\* The lemmas state the invariant and the types by these names, which their
\* proofs unfold once, at the start: a leaf that unfolds a conjunct then leaves
\* the statements of all the other lemmas in its context as they are.
EmergencyInv == Conjuncts
Typed == EmergencyTypeOK

-----------------------------------------------------------------------------
(* What a step may do to the rows of one operation once they exist. *)

\* The promises every writer of an operation keeps for operation p.
Advances(p) ==
    /\ op'[p].status = "absent" <=> op[p].status = "absent"
    /\ IsTerminal(op[p].status) => op'[p].status = op[p].status
    /\ op[p].status = "running" => op'[p].status # "cancelled"
    /\ intent[p].released => intent'[p].released
    /\ intent'[p].released => intent[p].released \/ release' = Nothing
    /\ Live(p)' => Live(p)
    /\ HoldsTarget(p)' => HoldsTarget(p)
    /\ op'[p].status = "absent" <=> op'[p].version = 0
    /\ op'[p].status = "pending" <=> op'[p].version = 1
    /\ ~IsTerminal(op'[p].status) => intent'[p].effect = "UNKNOWN" /\ ~intent'[p].released
    /\ intent'[p].effect = "APPLIED" => p \in applied
    /\ op'[p].status = "succeeded" => intent'[p].effect = "APPLIED"
    /\ intent[p].effect # "UNKNOWN" /\ intent'[p].effect # intent[p].effect =>
          release.op = p /\ release' = Nothing

\* A writer that moves the version takes the operation further or settles it.
Overtakes(p) ==
    op'[p].version # op[p].version =>
        Progress(p)' > Progress(p) \/ (intent'[p].released /\ intent'[p].effect # "UNKNOWN")

-----------------------------------------------------------------------------
(* Vocabulary. *)

\* A program counter record and its fields.
LEMMA AtRecord ==
    ASSUME NEW pc \in Pcs, NEW o \in Changes \cup {NoChange}, NEW s \in Words, NEW v \in Nat,
           NEW n \in 0 .. MaxAttempts
    PROVE  /\ At(pc, o, s, v, n) \in PcRecords
           /\ At(pc, o, s, v, n).pc = pc /\ At(pc, o, s, v, n).op = o
           /\ At(pc, o, s, v, n).status = s /\ At(pc, o, s, v, n).version = v
           /\ At(pc, o, s, v, n).try = n
           /\ pc # "idle" => At(pc, o, s, v, n) # Nothing
<1>1. At(pc, o, s, v, n) \in PcRecords
  BY Zenon DEF At, PcRecords
<1>2. At(pc, o, s, v, n).pc = pc /\ At(pc, o, s, v, n).op = o
      /\ At(pc, o, s, v, n).status = s /\ At(pc, o, s, v, n).version = v
      /\ At(pc, o, s, v, n).try = n
  BY Zenon DEF At
<1>3. Nothing.pc = "idle"
  BY Zenon DEF Nothing
<1> QED BY <1>1, <1>2, <1>3, Zenon

\* The two resting records.
LEMMA Resting ==
    /\ Nothing \in PcRecords /\ Nothing.pc = "idle" /\ Nothing.op = NoChange
    /\ Down \in PcRecords /\ Down.pc = "down"
BY DEF Nothing, Down, At, PcRecords, Pcs, Words, MaxAttempts

LEMMA PcFields ==
    ASSUME NEW r \in PcRecords
    PROVE  /\ r.pc \in Pcs /\ r.op \in Changes \cup {NoChange} /\ r.status \in Words
           /\ r.version \in Nat /\ r.try \in 0 .. MaxAttempts
BY Zenon DEF PcRecords

\* A retry keeps what the loop holds and counts.
LEMMA RetryRecord ==
    ASSUME NEW r \in PcRecords, NEW v \in Nat, r.try < MaxAttempts
    PROVE  LET s == [r EXCEPT !.version = v, !.try = @ + 1]
           IN  /\ s \in PcRecords /\ s.pc = r.pc /\ s.op = r.op /\ s.status = r.status
               /\ s.version = v /\ s.try = r.try + 1
<1> DEFINE s == [r EXCEPT !.version = v, !.try = @ + 1]
<1>1. r.try \in 0 .. MaxAttempts
  BY Zenon DEF PcRecords
<1>2. r.try + 1 \in 0 .. MaxAttempts
  BY <1>1 DEF MaxAttempts
<1>3. s.pc = r.pc /\ s.op = r.op /\ s.status = r.status /\ s.version = v /\ s.try = r.try + 1
  BY Zenon DEF PcRecords
<1>4. s \in PcRecords
  BY <1>2, Zenon DEF PcRecords
<1> QED BY <1>3, <1>4, Zenon

LEMMA RowFields ==
    ASSUME Typed, NEW o \in Changes
    PROVE  /\ op[o] \in OpRows /\ op[o].status \in Statuses \cup {"absent"} /\ op[o].version \in Nat
           /\ intent[o] \in IntentRows /\ intent[o].delivery \in Deliveries
           /\ intent[o].effect \in Effects /\ intent[o].released \in BOOLEAN
BY Zenon DEF Typed, EmergencyTypeOK, OpRows, IntentRows

\* A row is written.
LEMMA OpWritten ==
    ASSUME op \in [Changes -> OpRows], NEW o \in Changes, NEW s \in Statuses, NEW v \in Nat,
           op' = [op EXCEPT ![o] = [status |-> s, version |-> v]]
    PROVE  /\ op' \in [Changes -> OpRows]
           /\ op'[o].status = s /\ op'[o].version = v
           /\ \A p \in Changes : p # o => op'[p] = op[p]
<1>1. [status |-> s, version |-> v] \in OpRows
  BY Zenon DEF OpRows
<1>2. op'[o] = [status |-> s, version |-> v]
  BY Zenon
<1> QED BY <1>1, <1>2, Zenon

LEMMA EffectWritten ==
    ASSUME intent \in [Changes -> IntentRows], NEW o \in Changes, NEW e \in Effects,
           intent' = [intent EXCEPT ![o].effect = e]
    PROVE  /\ intent' \in [Changes -> IntentRows]
           /\ intent'[o].effect = e /\ intent'[o].released = intent[o].released
           /\ \A p \in Changes : p # o => intent'[p] = intent[p]
<1>1. [intent[o] EXCEPT !.effect = e] \in IntentRows
  BY Zenon DEF IntentRows
<1>2. intent'[o] = [intent[o] EXCEPT !.effect = e]
  BY Zenon
<1>3. intent'[o].effect = e /\ intent'[o].released = intent[o].released
  BY <1>2, Zenon DEF IntentRows
<1> QED BY <1>1, <1>2, <1>3, Zenon

LEMMA DeliveryWritten ==
    ASSUME intent \in [Changes -> IntentRows], NEW o \in Changes, NEW d \in Deliveries,
           intent' = [intent EXCEPT ![o].delivery = d]
    PROVE  /\ intent' \in [Changes -> IntentRows]
           /\ \A p \in Changes : intent'[p].effect = intent[p].effect
                                 /\ intent'[p].released = intent[p].released
<1>1. [intent[o] EXCEPT !.delivery = d] \in IntentRows
  BY Zenon DEF IntentRows
<1>2. intent'[o] = [intent[o] EXCEPT !.delivery = d]
  BY Zenon
<1>3. intent'[o].effect = intent[o].effect /\ intent'[o].released = intent[o].released
  BY <1>2, Zenon DEF IntentRows
<1>4. \A p \in Changes : p # o => intent'[p] = intent[p]
  BY Zenon
<1> QED BY <1>1, <1>2, <1>3, <1>4, Zenon

LEMMA ReleaseWritten ==
    ASSUME intent \in [Changes -> IntentRows], NEW o \in Changes, NEW e \in Effects,
           intent' = [intent EXCEPT ![o].released = TRUE, ![o].effect = e]
    PROVE  /\ intent' \in [Changes -> IntentRows]
           /\ intent'[o].effect = e /\ intent'[o].released
           /\ \A p \in Changes : p # o => intent'[p] = intent[p]
<1>1. [intent[o] EXCEPT !.released = TRUE, !.effect = e] \in IntentRows
  BY Zenon DEF IntentRows
<1>2. intent'[o] = [intent[o] EXCEPT !.released = TRUE, !.effect = e]
  BY Zenon
<1>3. intent'[o].effect = e /\ intent'[o].released
  BY <1>2, Zenon DEF IntentRows
<1> QED BY <1>1, <1>2, <1>3, Zenon

\* Taking from and adding to a channel.
LEMMA TakenFrom ==
    ASSUME NEW S, NEW s \in Seq(S), s # <<>>
    PROVE  /\ Head(s) \in S /\ Tail(s) \in Seq(S)
           /\ 1 \in DOMAIN s /\ Head(s) = s[1]
           /\ \A i \in DOMAIN Tail(s) : i + 1 \in DOMAIN s /\ Tail(s)[i] = s[i + 1]
OBVIOUS

LEMMA AddedTo ==
    ASSUME NEW S, NEW s \in Seq(S), NEW e \in S
    PROVE  /\ Append(s, e) \in Seq(S)
           /\ \A i \in DOMAIN Append(s, e) :
                 (i \in DOMAIN s /\ Append(s, e)[i] = s[i]) \/ Append(s, e)[i] = e
OBVIOUS

\* The store's edges leave only statuses that are neither absent nor ended, and
\* a running operation is not cancelled by one.
LEMMA Edges ==
    ASSUME NEW s, NEW t, CanTransitionTo(s, t)
    PROVE  /\ t \in Statuses /\ t # "pending" /\ t # "absent"
           /\ s # "absent" /\ ~IsTerminal(s)
           /\ s = "running" => t # "cancelled"
BY Zenon DEF CanTransitionTo, Successors, Statuses, IsTerminal

-----------------------------------------------------------------------------
(* The writers of an operation row keep their promises. *)

\* What a writer may rely on.
WriterInv ==
    Typed /\ Followed /\ Truthful /\ RowsInOrder /\ AppliedIsTrue /\ ReleasesEnded

\* Rows that are left alone.
LEMMA Untouched ==
    ASSUME WriterInv, NEW p \in Changes,
           op'[p] = op[p], intent'[p].effect = intent[p].effect,
           intent'[p].released = intent[p].released
    PROVE  Advances(p) /\ Overtakes(p)
<1>1. Advances(p)
  BY Zenon DEF WriterInv, RowsInOrder, AppliedIsTrue, Advances, Live, HoldsTarget, Created
<1>2. Overtakes(p)
  BY Zenon DEF Overtakes
<1> QED BY <1>1, <1>2, Zenon

\* A row that ends with an effect that is not an application.
LEMMA Ended ==
    ASSUME WriterInv, NEW p \in Changes, NEW s \in {"failed", "timeout", "cancelled"},
           CanTransitionTo(op[p].status, s), op'[p].status = s,
           op'[p].version = op[p].version + 1,
           intent'[p].effect \in {"NOT_APPLIED", "UNKNOWN"},
           intent'[p].released = intent[p].released
    PROVE  Advances(p) /\ Overtakes(p)
<1>1. /\ op[p].version \in Nat /\ op[p].status # "absent" /\ ~IsTerminal(op[p].status)
      /\ op[p].status = "running" => s # "cancelled"
  BY RowFields, Edges, Zenon DEF WriterInv
<1>2. /\ op[p].version # 0 /\ intent[p].effect = "UNKNOWN" /\ ~intent[p].released
  BY <1>1, Zenon DEF WriterInv, RowsInOrder
<1>3. IsTerminal(s) /\ s # "absent" /\ s # "pending" /\ s # "succeeded"
  BY Zenon DEF IsTerminal
<1>4. op'[p].version # 0 /\ op'[p].version # 1
  BY <1>1, <1>2
<1>5. Advances(p)
  BY <1>1, <1>2, <1>3, <1>4, Zenon DEF Advances, Live, HoldsTarget, Created
<1>6. Progress(p)' = 2 /\ Progress(p) \in {0, 1}
  BY <1>1, <1>3, Zenon DEF Progress
<1>7. Overtakes(p)
  BY <1>6 DEF Overtakes
<1> QED BY <1>5, <1>7, Zenon

\* Finish, with any of the effects its callers write.
LEMMA FinishKeeps ==
    ASSUME WriterInv, NEW o \in Changes, NEW v \in Nat, NEW s \in {"failed", "timeout"},
           NEW e \in {"NOT_APPLIED", "UNKNOWN"}, Finish(o, v, s, e)
    PROVE  \A p \in Changes : Advances(p) /\ Overtakes(p)
<1>1. op \in [Changes -> OpRows] /\ intent \in [Changes -> IntentRows]
  BY Zenon DEF WriterInv, Typed, EmergencyTypeOK
<1>2. CASE op[o].version = v /\ CanTransitionTo(op[o].status, s)
  <2>1. op' = [op EXCEPT ![o] = [status |-> s, version |-> v + 1]]
        /\ intent' = [intent EXCEPT ![o].effect = e]
    BY <1>2, Zenon DEF Finish
  <2>2. s \in Statuses /\ e \in Effects /\ v + 1 \in Nat
    BY DEF Statuses, Effects
  <2>3. /\ op'[o].status = s /\ op'[o].version = v + 1
        /\ \A p \in Changes : p # o => op'[p] = op[p]
    BY <1>1, <2>1, <2>2, OpWritten, Zenon
  <2>4. /\ intent'[o].effect = e /\ intent'[o].released = intent[o].released
        /\ \A p \in Changes : p # o => intent'[p] = intent[p]
    BY <1>1, <2>1, <2>2, EffectWritten, Zenon
  <2>5. Advances(o) /\ Overtakes(o)
    BY <1>2, <2>3, <2>4, Ended, Zenon
  <2> QED BY <2>3, <2>4, <2>5, Untouched, Zenon
<1>3. CASE ~(op[o].version = v /\ CanTransitionTo(op[o].status, s))
  <2>1. op' = op /\ intent' = intent
    BY <1>3, Zenon DEF Finish
  <2> QED BY <2>1, Untouched, Zenon
<1> QED BY <1>2, <1>3, Zenon

\* A swap to queued or to running.
LEMMA SwapKeeps ==
    ASSUME WriterInv, NEW o \in Changes, NEW v \in Nat, NEW s \in {"queued", "running"},
           Swap(o, v, s), intent' = intent
    PROVE  /\ \A p \in Changes : Advances(p)
           /\ v = 1 => \A p \in Changes : Overtakes(p)
<1>1. op \in [Changes -> OpRows]
  BY Zenon DEF WriterInv, Typed, EmergencyTypeOK
<1>2. CASE op[o].version = v /\ CanTransitionTo(op[o].status, s)
  <2>1. op' = [op EXCEPT ![o] = [status |-> s, version |-> v + 1]]
    BY <1>2, Zenon DEF Swap
  <2>2. s \in Statuses /\ v + 1 \in Nat
    BY DEF Statuses
  <2>3. /\ op'[o].status = s /\ op'[o].version = v + 1
        /\ \A p \in Changes : p # o => op'[p] = op[p]
    BY <1>1, <2>1, <2>2, OpWritten, Zenon
  <2>4. op[o].status # "absent" /\ ~IsTerminal(op[o].status)
    BY <1>2, Edges, Zenon
  <2>5. /\ v # 0 /\ intent[o].effect = "UNKNOWN" /\ ~intent[o].released
        /\ v = 1 => op[o].status = "pending"
    BY <1>2, <2>4, Zenon DEF WriterInv, RowsInOrder
  <2>6. s # "absent" /\ s # "pending" /\ ~IsTerminal(s) /\ s # "cancelled" /\ s # "succeeded"
    BY Zenon DEF IsTerminal
  <2>7. op'[o].version # 0 /\ op'[o].version # 1
    BY <2>3, <2>5
  <2>8. Advances(o)
    BY <2>3, <2>4, <2>5, <2>6, <2>7, Zenon DEF Advances, Live, HoldsTarget, Created
  <2>9. ASSUME v = 1 PROVE Overtakes(o)
    <3>1. Progress(o)' = 1 /\ Progress(o) = 0
      BY <2>3, <2>4, <2>5, <2>6, <2>9, Zenon DEF Progress
    <3> QED BY <3>1 DEF Overtakes
  <2> QED BY <2>3, <2>8, <2>9, Untouched, Zenon
<1>3. CASE ~(op[o].version = v /\ CanTransitionTo(op[o].status, s))
  <2>1. op' = op
    BY <1>3, Zenon DEF Swap
  <2> QED BY <2>1, Untouched, Zenon
<1> QED BY <1>2, <1>3, Zenon

\* CancelCommit.
LEMMA CancelKeeps ==
    ASSUME WriterInv, CancelCommit
    PROVE  /\ op' \in [Changes -> OpRows] /\ intent' \in [Changes -> IntentRows]
           /\ \A p \in Changes : Advances(p) /\ Overtakes(p)
<1> DEFINE e == IF cancel.status = "pending" THEN "NOT_APPLIED" ELSE "UNKNOWN"
<1>1. op \in [Changes -> OpRows] /\ intent \in [Changes -> IntentRows]
  BY Zenon DEF WriterInv, Typed, EmergencyTypeOK
<1>2. PICK o \in Changes : o = cancel.op
  BY Zenon DEF CancelCommit, WriterInv, Followed, Held
<1>3. CASE op[o].version = cancel.version /\ CanTransitionTo(op[o].status, "cancelled")
  <2>1. op' = [op EXCEPT ![o] = [status |-> "cancelled", version |-> op[o].version + 1]]
        /\ intent' = [intent EXCEPT ![o].effect = e]
    <3>1. op' = [op EXCEPT ![o] = [status |-> "cancelled", version |-> @.version + 1]]
          /\ intent' = [intent EXCEPT ![o].effect = e]
      BY <1>2, <1>3, Zenon DEF CancelCommit
    <3> QED BY <1>1, <3>1, Zenon
  <2>2. "cancelled" \in Statuses /\ e \in Effects /\ op[o].version + 1 \in Nat
    <3>1. "cancelled" \in Statuses /\ e \in Effects
      BY Zenon DEF Statuses, Effects
    <3>2. op[o].version \in Nat
      BY <1>2, RowFields, Zenon DEF WriterInv
    <3>3. \A n \in Nat : n + 1 \in Nat
      OBVIOUS
    <3> QED BY <3>1, <3>2, <3>3, Zenon
  <2>5. e \in {"NOT_APPLIED", "UNKNOWN"}
    BY Zenon
  <2> HIDE DEF e
  <2>3. /\ op' \in [Changes -> OpRows]
        /\ op'[o].status = "cancelled" /\ op'[o].version = op[o].version + 1
        /\ \A p \in Changes : p # o => op'[p] = op[p]
    BY <1>1, <1>2, <2>1, <2>2, OpWritten, Zenon
  <2>4. /\ intent' \in [Changes -> IntentRows]
        /\ intent'[o].effect = e /\ intent'[o].released = intent[o].released
        /\ \A p \in Changes : p # o => intent'[p] = intent[p]
    BY <1>1, <1>2, <2>1, <2>2, EffectWritten, Zenon
  <2>6. Advances(o) /\ Overtakes(o)
    BY <1>2, <1>3, <2>3, <2>4, <2>5, Ended, Zenon
  <2> QED BY <2>3, <2>4, <2>6, Untouched, Zenon
<1>4. CASE ~(op[o].version = cancel.version /\ CanTransitionTo(op[o].status, "cancelled"))
  <2>1. op' = op /\ intent' = intent
    BY <1>2, <1>4, Zenon DEF CancelCommit
  <2> QED BY <1>1, <2>1, Untouched, Zenon
<1> QED BY <1>3, <1>4, Zenon

\* ReleaseCommit: only here may a known effect change, and only the effect of the
\* operation whose lock is released.
LEMMA ReleaseKeeps ==
    ASSUME WriterInv, ReleaseCommit
    PROVE  /\ op' \in [Changes -> OpRows] /\ intent' \in [Changes -> IntentRows]
           /\ \A p \in Changes : Advances(p) /\ Overtakes(p)
<1> DEFINE proven == release.status = "NOT_APPLIED_PROVEN"
           e == IF proven THEN "NOT_APPLIED" ELSE "UNKNOWN"
<1>1. op \in [Changes -> OpRows] /\ intent \in [Changes -> IntentRows]
  BY Zenon DEF WriterInv, Typed, EmergencyTypeOK
<1>2. release # Nothing /\ release' = Nothing
  BY Zenon DEF ReleaseCommit
<1>o. PICK o \in Changes : o = release.op
  BY <1>2, Zenon DEF WriterInv, Followed, Held
<1> DEFINE writes == IsTerminal(op[o].status) /\ o \in aged /\ task[o] # "pending_promotion"
<1>3. CASE writes
  <2>1. /\ op' = IF proven THEN [op EXCEPT ![o].version = @ + 1] ELSE op
        /\ intent' = [intent EXCEPT ![o].released = TRUE, ![o].effect = e]
    BY <1>3, <1>o, Zenon DEF ReleaseCommit
  <2>2. /\ op[o].status \in Statuses \cup {"absent"} /\ op[o].version \in Nat
        /\ op[o] = [status |-> op[o].status, version |-> op[o].version]
    BY <1>1, <1>2, Zenon DEF OpRows
  <2>3. op[o].status # "absent" /\ op[o].status # "pending" /\ op[o].status # "succeeded"
    BY <1>2, <1>3, <1>o, Zenon DEF IsTerminal, WriterInv, ReleasesEnded
  <2>4. op[o].version # 0 /\ op[o].version # 1
    BY <1>2, <2>3, Zenon DEF WriterInv, RowsInOrder
  <2>5. /\ op' \in [Changes -> OpRows] /\ op'[o].status = op[o].status
        /\ op'[o].version = op[o].version + 1 \/ op'[o].version = op[o].version
        /\ ~proven => op'[o].version = op[o].version
        /\ \A p \in Changes : p # o => op'[p] = op[p]
    <3>1. CASE proven
      <4>1. op' = [op EXCEPT ![o] = [status |-> op[o].status, version |-> op[o].version + 1]]
        <5>1. op' = [op EXCEPT ![o] = [op[o] EXCEPT !.version = op[o].version + 1]]
          BY <2>1, <3>1, Zenon
        <5>2. [op[o] EXCEPT !.version = op[o].version + 1]
              = [status |-> op[o].status, version |-> op[o].version + 1]
          BY <2>2
        <5> QED BY <5>1, <5>2, Zenon
      <4>2. op[o].status \in Statuses /\ op[o].version + 1 \in Nat
        BY <2>2, <2>3
      <4> QED BY <1>1, <1>2, <3>1, <4>1, <4>2, OpWritten, Zenon
    <3>2. CASE ~proven
      BY <1>1, <2>1, <3>2, Zenon
    <3> QED BY <3>1, <3>2, Zenon
  <2>6. e \in Effects /\ e # "APPLIED" /\ (proven => e # "UNKNOWN")
    BY Zenon DEF Effects
  <2>7. /\ intent' \in [Changes -> IntentRows] /\ intent'[o].effect = e /\ intent'[o].released
        /\ \A p \in Changes : p # o => intent'[p] = intent[p]
    BY <1>1, <1>2, <2>1, <2>6, ReleaseWritten, Zenon
  <2>8. IsTerminal(op[o].status)
    BY <1>3, Zenon
  <2>9. release.op = o
    BY <1>o, Zenon
  <2> HIDE DEF e, proven, writes
  <2>10. op'[o].version # 0 /\ op'[o].version # 1
    BY <2>2, <2>4, <2>5
  <2>11. Advances(o)
    BY <1>2, <2>3, <2>5, <2>6, <2>7, <2>8, <2>9, <2>10, Zenon DEF Advances, Live, HoldsTarget, Created
  <2>12. Overtakes(o)
    BY <2>5, <2>6, <2>7, Zenon DEF Overtakes
  <2> QED BY <2>5, <2>7, <2>11, <2>12, Untouched, Zenon
<1>4. CASE ~writes
  <2>1. op' = op /\ intent' = intent
    BY <1>4, <1>o, Zenon DEF ReleaseCommit
  <2> QED BY <1>1, <2>1, Untouched, Zenon
<1> QED BY <1>3, <1>4, Zenon

\* A result the store converges on.
LEMMA ConvergeKeeps ==
    ASSUME WriterInv, NEW o \in Changes, Created(o), NEW s \in Results,
           s = "succeeded" => o \in applied,
           IsTerminal(op[o].status) => intent[o].effect = "UNKNOWN",
           ConvergeWrite(o, s, EffectOf(s))
    PROVE  /\ op' \in [Changes -> OpRows] /\ intent' \in [Changes -> IntentRows]
           /\ intent'[o].effect = EffectOf(s)
           /\ \A p \in Changes : Advances(p)
<1> DEFINE e == EffectOf(s)
           t == IF IsTerminal(op[o].status) THEN op[o].status ELSE s
           v == IF IsTerminal(op[o].status) THEN op[o].version + 1
                ELSE op[o].version + HopsToRunning(op[o].status) + 1
<1>1. op \in [Changes -> OpRows] /\ intent \in [Changes -> IntentRows]
  BY Zenon DEF WriterInv, Typed, EmergencyTypeOK
<1>2. /\ op[o].status \in Statuses /\ op[o].version \in Nat
      /\ op[o] = [status |-> op[o].status, version |-> op[o].version]
  BY <1>1, Zenon DEF OpRows, Created
<1>3. HopsToRunning(op[o].status) \in Nat
  BY Zenon DEF HopsToRunning
<1>4. op' = [op EXCEPT ![o] = [status |-> t, version |-> v]]
  <2>1. EffectResolved(op[o]) = [status |-> op[o].status, version |-> op[o].version + 1]
    BY <1>2 DEF EffectResolved
  <2> QED BY <1>1, <2>1, Zenon DEF ConvergeWrite, HoppedTo
<1>5. t \in Statuses /\ v \in Nat
  BY <1>2, <1>3 DEF Statuses, Results
<1>6. e \in Effects /\ e # "UNKNOWN" /\ (e = "APPLIED" <=> s = "succeeded")
  BY Zenon DEF EffectOf, Effects, Results
<1>7. intent' = [intent EXCEPT ![o].effect = e]
  BY Zenon DEF ConvergeWrite
<1>8. /\ IsTerminal(op[o].status) => t = op[o].status
      /\ IsTerminal(t) /\ t # "absent" /\ t # "pending"
      /\ ~IsTerminal(op[o].status) => t = s
  BY Zenon DEF IsTerminal, Results
<1>9. op[o].version # 0 /\ v # 0 /\ v # 1
  BY <1>2, <1>3 DEF WriterInv, RowsInOrder, Created
<1>10. EffectOf(s) = e
  BY Zenon
<1> HIDE DEF e, t, v
<1>11. /\ op' \in [Changes -> OpRows] /\ op'[o].status = t /\ op'[o].version = v
       /\ \A p \in Changes : p # o => op'[p] = op[p]
  BY <1>1, <1>4, <1>5, OpWritten, Zenon
<1>12. /\ intent' \in [Changes -> IntentRows]
       /\ intent'[o].effect = e /\ intent'[o].released = intent[o].released
       /\ \A p \in Changes : p # o => intent'[p] = intent[p]
  BY <1>1, <1>6, <1>7, EffectWritten, Zenon
<1>13. ~IsTerminal(op[o].status) => intent[o].effect = "UNKNOWN" /\ ~intent[o].released
  BY Zenon DEF WriterInv, RowsInOrder
<1>14. op[o].status # "succeeded" \/ intent[o].effect = "APPLIED"
  BY Zenon DEF WriterInv, AppliedIsTrue
<1>15. IsTerminal("succeeded") /\ IsTerminal("failed")
  BY Zenon DEF IsTerminal
<1>16. op[o].status # "running" \/ t # "cancelled"
  BY <1>8, Zenon DEF IsTerminal, Results
<1>17. op'[o].status = "succeeded" => e = "APPLIED"
  BY <1>6, <1>8, <1>11, <1>14, <1>15, Zenon
<1>18. Advances(o)
  BY <1>6, <1>8, <1>9, <1>11, <1>12, <1>13, <1>14, <1>15, <1>16, <1>17, Zenon
  DEF Advances, Live, HoldsTarget, Created
<1>19. \A p \in Changes : p # o => Advances(p)
  BY <1>11, <1>12, Untouched, Zenon
<1> QED BY <1>10, <1>11, <1>12, <1>18, <1>19, Zenon

-----------------------------------------------------------------------------
(* Types. *)

LEMMA FinishTypes ==
    ASSUME Typed, NEW o \in Changes, NEW v \in Nat, NEW s \in Statuses,
           NEW e \in Effects, Finish(o, v, s, e)
    PROVE  /\ op' \in [Changes -> OpRows] /\ intent' \in [Changes -> IntentRows]
           /\ task' = task /\ aged' = aged
<1>1. op \in [Changes -> OpRows] /\ intent \in [Changes -> IntentRows] /\ v + 1 \in Nat
  BY DEF Typed, EmergencyTypeOK
<1>2. CASE op[o].version = v /\ CanTransitionTo(op[o].status, s)
  <2>1. op' = [op EXCEPT ![o] = [status |-> s, version |-> v + 1]]
        /\ intent' = [intent EXCEPT ![o].effect = e]
    BY <1>2, Zenon DEF Finish
  <2> QED BY <1>1, <2>1, OpWritten, EffectWritten, Zenon DEF Finish
<1>3. CASE ~(op[o].version = v /\ CanTransitionTo(op[o].status, s))
  BY <1>1, <1>3, Zenon DEF Finish
<1> QED BY <1>2, <1>3, Zenon

LEMMA SwapTypes ==
    ASSUME Typed, NEW o \in Changes, NEW v \in Nat, NEW s \in Statuses, Swap(o, v, s)
    PROVE  op' \in [Changes -> OpRows]
<1>1. op \in [Changes -> OpRows] /\ v + 1 \in Nat
  BY DEF Typed, EmergencyTypeOK
<1>2. CASE op[o].version = v /\ CanTransitionTo(op[o].status, s)
  BY <1>1, <1>2, OpWritten, Zenon DEF Swap
<1>3. CASE ~(op[o].version = v /\ CanTransitionTo(op[o].status, s))
  BY <1>1, <1>3, Zenon DEF Swap
<1> QED BY <1>2, <1>3, Zenon

LEMMA RequestTypes ==
    ASSUME EmergencyInv, NEW o \in Changes, Request(o)
    PROVE  Typed'
<1> Typed /\ Conjuncts
  BY Zenon DEF EmergencyInv, Typed, Conjuncts
<1> USE DEF Conjuncts
<1> SUFFICES EmergencyTypeOK'
  BY Zenon DEF Typed
<1>1. CASE RequestCheck(o)
  BY <1>1, Zenon DEF EmergencyTypeOK, RequestCheck, storeVars, raceVars, streamVars, agentVars
<1>2. CASE CreateEmergency(o)
  <2>1. op' \in [Changes -> OpRows]
    <3>1. op \in [Changes -> OpRows] /\ InitialStatus \in Statuses
      BY Zenon DEF EmergencyTypeOK, InitialStatus, Statuses
    <3> QED BY <1>2, <3>1, OpWritten, Zenon DEF CreateEmergency
  <2>2. /\ task' \in [Changes -> {"none", "pending_promotion", "converged"}]
        /\ req' \in [Changes -> {"idle", "checked", "created", "dispatched", "marked", "done"}]
    BY <1>2, Zenon DEF EmergencyTypeOK, CreateEmergency
  <2> QED BY <1>2, <2>1, <2>2, Zenon
      DEF EmergencyTypeOK, CreateEmergency, raceVars, streamVars, agentVars
<1>3. CASE Dispatch(o)
  <2>1. chan' \in Seq(Changes)
    BY <1>3, AddedTo, Zenon DEF EmergencyTypeOK, Dispatch
  <2> QED BY <1>3, <2>1, Zenon DEF EmergencyTypeOK, Dispatch, storeVars, raceVars, agentVars
<1>4. CASE DispatchOffline(o)
  <2>1. "failed" \in Statuses /\ "NOT_APPLIED" \in Effects
    BY Zenon DEF Statuses, Effects
  <2>2. /\ op' \in [Changes -> OpRows] /\ intent' \in [Changes -> IntentRows]
        /\ task' = task /\ aged' = aged
    BY <1>4, <2>1, FinishTypes, Zenon DEF DispatchOffline
  <2> QED BY <1>4, <2>2, Zenon DEF EmergencyTypeOK, DispatchOffline, raceVars, streamVars, agentVars
<1>5. CASE MarkQueued(o)
  <2>1. intent' \in [Changes -> IntentRows]
    BY <1>5, DeliveryWritten, Zenon DEF EmergencyTypeOK, MarkQueued, Deliveries
  <2> QED BY <1>5, <2>1, Zenon DEF EmergencyTypeOK, MarkQueued, raceVars, streamVars, agentVars
<1>6. CASE EnterQueued(o)
  <2>1. op' \in [Changes -> OpRows]
    BY <1>6, SwapTypes, Zenon DEF EnterQueued, Statuses
  <2> QED BY <1>6, <2>1, Zenon DEF EmergencyTypeOK, EnterQueued, raceVars, streamVars, agentVars
<1>7. CASE RequestAbandoned(o)
  BY <1>7, Zenon DEF EmergencyTypeOK, RequestAbandoned, storeVars, raceVars, streamVars, agentVars
<1> QED BY <1>1, <1>2, <1>3, <1>4, <1>5, <1>6, <1>7, Zenon DEF Request

\* The result of an attempt: what it does to the rows and to the loop.
LEMMA ConvergeStep ==
    ASSUME EmergencyInv, GwConverge
    PROVE  /\ op' \in [Changes -> OpRows] /\ intent' \in [Changes -> IntentRows]
           /\ task' \in [Changes -> {"none", "pending_promotion", "converged"}]
           /\ aged' = aged /\ gw' \in PcRecords
           /\ \A p \in Changes : Advances(p)
           /\ \/ /\ gw' = Nothing /\ intent'[gw.op].effect # "UNKNOWN"
              \/ /\ op' = op /\ intent' = intent
                 /\ gw'.pc = "result" /\ gw'.op = gw.op /\ gw'.status = gw.status
                 /\ gw'.version = op[gw.op].version /\ gw'.try = gw.try + 1
                 /\ gw.try < MaxAttempts /\ Progress(gw.op) >= gw.try
<1> Typed /\ Conjuncts
  BY Zenon DEF EmergencyInv, Typed, Conjuncts
<1> USE DEF Conjuncts
<1>1. gw.pc = "result" /\ gw.pc # "idle"
  BY Zenon DEF GwConverge
<1>2. PICK o \in Changes : o = gw.op
  BY <1>1, Zenon DEF Followed, Held
<1>3. /\ Created(o) /\ gw.status \in Results /\ (gw.status = "succeeded" => o \in applied)
  BY <1>1, <1>2, Zenon DEF Followed, Held, Truthful
<1> DEFINE e == EffectOf(gw.status)
           answer == ConvergeAnswer(o, gw.version, e)
<1>4. WriterInv
  BY Zenon DEF WriterInv
<1>5. e # "UNKNOWN"
  BY Zenon DEF EffectOf
<1>6. /\ answer = "write" => ConvergeWrite(o, gw.status, e)
      /\ answer # "write" => UNCHANGED storeVars
      /\ answer = "lock" /\ gw.try < MaxAttempts =>
            gw' = [gw EXCEPT !.version = op[o].version, !.try = @ + 1]
      /\ ~(answer = "lock" /\ gw.try < MaxAttempts) => gw' = Nothing
  BY <1>2, Zenon DEF GwConverge
<1>7. /\ answer \in {"same", "conflict", "lock", "write"}
      /\ answer = "same" => intent[o].effect = e
      /\ answer = "conflict" => intent[o].effect # "UNKNOWN"
      /\ answer \in {"lock", "write"} =>
            (IsTerminal(op[o].status) => intent[o].effect = "UNKNOWN")
      /\ answer = "lock" => op[o].version # gw.version
  <2> HIDE DEF e
  <2>1. CASE IsTerminal(op[o].status) /\ intent[o].effect # "UNKNOWN" /\ intent[o].effect = e
    <3>1. answer = "same"
      BY <2>1, Zenon DEF ConvergeAnswer
    <3> HIDE DEF answer
    <3> QED BY <2>1, <3>1, Zenon
  <2>2. CASE IsTerminal(op[o].status) /\ intent[o].effect # e /\ intent[o].effect # "UNKNOWN"
    <3>1. answer = "conflict"
      BY <2>2, Zenon DEF ConvergeAnswer
    <3> HIDE DEF answer
    <3> QED BY <2>2, <3>1, Zenon
  <2>3. CASE (IsTerminal(op[o].status) => intent[o].effect = "UNKNOWN") /\ op[o].version # gw.version
    <3>1. answer = "lock"
      BY <1>5, <2>3, Zenon DEF ConvergeAnswer
    <3> HIDE DEF answer
    <3> QED BY <2>3, <3>1, Zenon
  <2>4. CASE (IsTerminal(op[o].status) => intent[o].effect = "UNKNOWN") /\ op[o].version = gw.version
    <3>1. answer = "write"
      BY <1>5, <2>4, Zenon DEF ConvergeAnswer
    <3> HIDE DEF answer
    <3> QED BY <2>4, <3>1, Zenon
  <2> QED BY <2>1, <2>2, <2>3, <2>4, Zenon
<1> HIDE DEF e, answer
<1>8. /\ op \in [Changes -> OpRows] /\ intent \in [Changes -> IntentRows]
      /\ task \in [Changes -> {"none", "pending_promotion", "converged"}]
      /\ gw \in PcRecords /\ Nothing \in PcRecords
  BY Resting, Zenon DEF EmergencyTypeOK
<1>9. CASE answer = "write"
  <2>1. ConvergeWrite(o, gw.status, e) /\ gw' = Nothing
    BY <1>6, <1>9, Zenon
  <2>2. /\ op' \in [Changes -> OpRows] /\ intent' \in [Changes -> IntentRows]
        /\ intent'[o].effect = e
        /\ \A p \in Changes : Advances(p)
    <3> USE DEF e
    <3> QED BY <1>3, <1>4, <1>7, <1>9, <2>1, ConvergeKeeps, Zenon
  <2>3. /\ task' \in [Changes -> {"none", "pending_promotion", "converged"}] /\ aged' = aged
    BY <1>8, <2>1, Zenon DEF ConvergeWrite, Abandoned
  <2> QED BY <1>2, <1>5, <1>8, <2>1, <2>2, <2>3, Zenon
<1>10. CASE answer \in {"same", "conflict"}
  <2>1. UNCHANGED storeVars /\ gw' = Nothing
    BY <1>6, <1>10, Zenon
  <2>2. op' = op /\ intent' = intent /\ task' = task /\ aged' = aged
    BY <2>1, Zenon DEF storeVars
  <2>3. intent'[o].effect # "UNKNOWN"
    BY <1>5, <1>7, <1>10, <2>2, Zenon
  <2>4. \A p \in Changes : Advances(p)
    BY <1>4, <2>2, Untouched, Zenon
  <2> QED BY <1>2, <1>8, <2>1, <2>2, <2>3, <2>4, Zenon
<1>11. CASE answer = "lock"
  <2>1. UNCHANGED storeVars
    BY <1>6, <1>11, Zenon
  <2>2. op' = op /\ intent' = intent /\ task' = task /\ aged' = aged
    BY <2>1, Zenon DEF storeVars
  <2>3. \A p \in Changes : Advances(p)
    BY <1>4, <2>2, Untouched, Zenon
  <2>4. ~Settled(o)
    BY <1>7, <1>11, Zenon DEF Settled, RowsInOrder
  <2>5. gw.try \in 1 .. MaxAttempts /\ Progress(o) >= gw.try
    BY <1>1, <1>2, <1>7, <1>11, <2>4, Zenon DEF AttemptsSuffice
  <2>6. Progress(o) \in 0 .. 2
    BY DEF Progress
  <2>7. gw.try < MaxAttempts
    BY <2>5, <2>6 DEF MaxAttempts
  <2>8. gw' = [gw EXCEPT !.version = op[o].version, !.try = @ + 1]
    BY <1>6, <1>11, <2>7, Zenon
  <2>9. op[o].version \in Nat
    BY RowFields, Zenon
  <2>10. /\ gw' \in PcRecords /\ gw'.pc = gw.pc /\ gw'.op = gw.op /\ gw'.status = gw.status
         /\ gw'.version = op[o].version /\ gw'.try = gw.try + 1
    BY <1>8, <2>7, <2>8, <2>9, RetryRecord, Zenon
  <2> QED BY <1>1, <1>2, <1>8, <2>2, <2>3, <2>5, <2>7, <2>10, Zenon
<1> QED BY <1>7, <1>9, <1>10, <1>11, Zenon

LEMMA GatewayTypes ==
    ASSUME EmergencyInv, Gateway
    PROVE  Typed'
<1> Typed /\ Conjuncts
  BY Zenon DEF EmergencyInv, Typed, Conjuncts
<1> USE DEF Conjuncts
<1> SUFFICES EmergencyTypeOK'
  BY Zenon DEF Typed
<1>0. Nothing \in PcRecords /\ "none" \in Words /\ 0 \in 0 .. MaxAttempts /\ 1 \in 0 .. MaxAttempts
  BY Resting DEF Words, MaxAttempts
<1>1. CASE GwSend
  <2>1. Head(chan) \in Changes /\ chan' \in Seq(Changes)
    BY <1>1, TakenFrom, Zenon DEF GwSend, EmergencyTypeOK
  <2>2. down' \in Seq(Changes)
    BY <1>1, <2>1, AddedTo, Zenon DEF GwSend, EmergencyTypeOK
  <2>3. gw' \in PcRecords
    BY <1>0, <1>1, <2>1, AtRecord DEF GwSend, Pcs
  <2> QED BY <1>1, <2>1, <2>2, <2>3, Zenon DEF EmergencyTypeOK, GwSend, storeVars, raceVars, agentVars
<1>2. CASE GwMarkDelivered
  <2>1. gw.op \in Changes
    BY <1>2, Zenon DEF GwMarkDelivered, Followed, Held
  <2>2. intent' \in [Changes -> IntentRows]
    BY <1>2, <2>1, DeliveryWritten, Zenon DEF GwMarkDelivered, EmergencyTypeOK, Deliveries
  <2> QED BY <1>0, <1>2, <2>2, Zenon DEF EmergencyTypeOK, GwMarkDelivered, raceVars, agentVars
<1>3. CASE GwAck
  <2>1. Head(up) \in Frames /\ up' \in Seq(Frames)
    BY <1>3, TakenFrom, Zenon DEF GwAck, EmergencyTypeOK
  <2>2. Head(up).op \in Changes
    BY <2>1, Zenon DEF Frames
  <2>3. intent' \in [Changes -> IntentRows]
    BY <1>3, <2>2, DeliveryWritten, Zenon DEF GwAck, EmergencyTypeOK, Deliveries
  <2>4. gw' \in PcRecords
    BY <1>0, <1>3, <2>2, AtRecord, Zenon DEF GwAck, Pcs
  <2> QED BY <1>3, <2>1, <2>3, <2>4, Zenon DEF EmergencyTypeOK, GwAck, raceVars, agentVars
<1>4. CASE GwAckRead
  <2>1. gw.op \in Changes
    BY <1>4, Zenon DEF GwAckRead, Followed, Held
  <2>2. op[gw.op].version \in Nat
    BY <2>1, RowFields, Zenon
  <2>3. gw' \in PcRecords
    BY <1>0, <1>4, <2>1, <2>2, AtRecord DEF GwAckRead, Pcs
  <2> QED BY <1>4, <2>3, Zenon DEF EmergencyTypeOK, GwAckRead, storeVars, raceVars, agentVars
<1>5. CASE GwBegin
  <2>1. gw.op \in Changes /\ gw.version \in Nat
    BY <1>5, PcFields, Zenon DEF GwBegin, Followed, Held, EmergencyTypeOK
  <2>2. op' \in [Changes -> OpRows]
    BY <1>5, <2>1, SwapTypes, Zenon DEF GwBegin, Statuses
  <2> QED BY <1>0, <1>5, <2>2, Zenon DEF EmergencyTypeOK, GwBegin, raceVars, agentVars
<1>6. CASE GwResult
  <2>1. Head(up) \in Frames /\ up' \in Seq(Frames)
    BY <1>6, TakenFrom, Zenon DEF GwResult, EmergencyTypeOK
  <2>2. Head(up).op \in Changes /\ Head(up).res \in Words
    BY <2>1, Zenon DEF Frames, Words, Statuses
  <2>3. op[Head(up).op].version \in Nat
    BY <2>2, RowFields, Zenon
  <2>4. gw' \in PcRecords
    BY <1>0, <1>6, <2>2, <2>3, AtRecord DEF GwResult, Pcs
  <2> QED BY <1>6, <2>1, <2>4, Zenon DEF EmergencyTypeOK, GwResult, storeVars, raceVars, agentVars
<1>7. CASE GwConverge
  <2>1. /\ op' \in [Changes -> OpRows] /\ intent' \in [Changes -> IntentRows]
        /\ task' \in [Changes -> {"none", "pending_promotion", "converged"}]
        /\ aged' = aged /\ gw' \in PcRecords
    BY <1>7, ConvergeStep, Zenon
  <2> QED BY <1>7, <2>1, Zenon DEF EmergencyTypeOK, GwConverge, raceVars, agentVars
<1> QED BY <1>1, <1>2, <1>3, <1>4, <1>5, <1>6, <1>7, Zenon DEF Gateway

LEMMA SendTypes ==
    ASSUME Typed, NEW m \in Frames, AgentSends(m)
    PROVE  up' \in Seq(Frames)
BY AddedTo, Zenon DEF Typed, EmergencyTypeOK, AgentSends

LEMMA AgentTypes ==
    ASSUME EmergencyInv, Agent
    PROVE  Typed'
<1> Typed /\ Conjuncts
  BY Zenon DEF EmergencyInv, Typed, Conjuncts
<1> USE DEF Conjuncts
<1> SUFFICES EmergencyTypeOK'
  BY Zenon DEF Typed
<1>0. Nothing \in PcRecords /\ "none" \in Words /\ 0 \in 0 .. MaxAttempts /\ 0 \in Nat
  BY Resting DEF Words, MaxAttempts
<1>a. agent.pc \notin {"idle", "down"} => agent.op \in Changes
  BY Zenon DEF Followed, Held
<1>t. \A pc \in Pcs, o \in Changes, s \in Words : At(pc, o, s, 0, 0) \in PcRecords
  BY <1>0, AtRecord, Zenon
<1>1. CASE AgentTake
  <2>1. Head(down) \in Changes /\ down' \in Seq(Changes)
    BY <1>1, TakenFrom, Zenon DEF AgentTake, EmergencyTypeOK
  <2>2. local' \in [Changes -> {"none", "pending", "running", "succeeded", "failed"}]
    BY <1>1, <2>1, Zenon DEF AgentTake, EmergencyTypeOK
  <2>3. agent' \in {At("ack", Head(down), "none", 0, 0), At("start", Head(down), "none", 0, 0),
                    At("report", Head(down), "none", 0, 0)}
    BY <1>1, Zenon DEF AgentTake
  <2>4. agent' \in PcRecords
    BY <1>0, <1>t, <2>1, <2>3, Zenon DEF Pcs
  <2> QED BY <1>1, <2>1, <2>2, <2>4, Zenon DEF EmergencyTypeOK, AgentTake, storeVars, raceVars
<1>2. CASE AgentAck
  <2>1. agent.op \in Changes
    BY <1>2, <1>a, Zenon DEF AgentAck
  <2>2. AckOf(agent.op) \in Frames
    BY <2>1, Zenon DEF AckOf, Frames
  <2>3. up' \in Seq(Frames)
    BY <1>2, <2>2, SendTypes, Zenon DEF AgentAck
  <2>4. agent' \in PcRecords
    BY <1>0, <1>t, <1>2, <2>1, Zenon DEF AgentAck, Pcs
  <2> QED BY <1>2, <2>3, <2>4, Zenon DEF EmergencyTypeOK, AgentAck, storeVars, raceVars
<1>3. CASE AgentStart
  <2>1. agent.op \in Changes
    BY <1>3, <1>a, Zenon DEF AgentStart
  <2>2. local' \in [Changes -> {"none", "pending", "running", "succeeded", "failed"}]
    BY <1>3, <2>1, Zenon DEF AgentStart, EmergencyTypeOK
  <2>3. agent' \in PcRecords
    BY <1>0, <1>t, <1>3, <2>1, Zenon DEF AgentStart, Pcs
  <2> QED BY <1>3, <2>2, <2>3, Zenon DEF EmergencyTypeOK, AgentStart, storeVars, raceVars, streamVars
<1>4. CASE AgentExecute
  <2>1. agent.op \in Changes
    BY <1>4, <1>a, Zenon DEF AgentExecute
  <2>2. applied' \subseteq Changes
    BY <1>4, <2>1, Zenon DEF AgentExecute, EmergencyTypeOK
  <2>3. agent' \in PcRecords
    BY <1>0, <1>t, <1>4, <2>1, Zenon DEF AgentExecute, Pcs, Words, Statuses
  <2> QED BY <1>4, <2>2, <2>3, Zenon DEF EmergencyTypeOK, AgentExecute, storeVars, raceVars, streamVars
<1>5. CASE AgentStore
  <2>1. agent.op \in Changes /\ agent.status \in {"succeeded", "failed"}
    BY <1>5, <1>a, Zenon DEF AgentStore, Truthful, Results
  <2>2. local' \in [Changes -> {"none", "pending", "running", "succeeded", "failed"}]
    BY <1>5, <2>1, Zenon DEF AgentStore, EmergencyTypeOK
  <2>3. agent' \in PcRecords
    BY <1>0, <1>t, <1>5, <2>1, Zenon DEF AgentStore, Pcs
  <2> QED BY <1>5, <2>2, <2>3, Zenon DEF EmergencyTypeOK, AgentStore, storeVars, raceVars, streamVars
<1>6. CASE AgentReport
  <2>1. agent.op \in Changes /\ local[agent.op] \in {"succeeded", "failed"}
    BY <1>6, <1>a, Zenon DEF AgentReport, Truthful, Results
  <2>2. ResultOf(agent.op, local[agent.op]) \in Frames
    BY <2>1, Zenon DEF ResultOf, Frames
  <2>3. up' \in Seq(Frames)
    BY <1>6, <2>2, SendTypes, Zenon DEF AgentReport
  <2> QED BY <1>0, <1>6, <2>3, Zenon DEF EmergencyTypeOK, AgentReport, storeVars, raceVars
<1>7. CASE AgentReplay
  <2>1. PICK o \in replay :
          /\ replay' = replay \ {o}
          /\ IF local[o] = "running"
             THEN agent' = At("start", o, "none", 0, 0) /\ UNCHANGED up
             ELSE AgentSends(AckOf(o)) /\ UNCHANGED agent
    BY <1>7, Zenon DEF AgentReplay
  <2>2. o \in Changes /\ replay' \subseteq Changes
    BY <2>1, Zenon DEF EmergencyTypeOK
  <2>3. AckOf(o) \in Frames
    BY <2>2, Zenon DEF AckOf, Frames
  <2>4. up' \in Seq(Frames)
    BY <2>1, <2>3, SendTypes, Zenon DEF EmergencyTypeOK
  <2>5. agent' \in PcRecords
    BY <1>0, <1>t, <2>1, <2>2, Zenon DEF EmergencyTypeOK, Pcs
  <2> QED BY <1>7, <2>2, <2>4, <2>5, Zenon DEF EmergencyTypeOK, AgentReplay, storeVars, raceVars
<1> QED BY <1>1, <1>2, <1>3, <1>4, <1>5, <1>6, <1>7, Zenon DEF Agent

LEMMA StreamTypes ==
    ASSUME EmergencyInv, Stream
    PROVE  Typed'
<1> Typed /\ Conjuncts
  BY Zenon DEF EmergencyInv, Typed, Conjuncts
<1> USE DEF Conjuncts
<1> SUFFICES EmergencyTypeOK'
  BY Zenon DEF Typed
<1>0. /\ Nothing \in PcRecords /\ Down \in PcRecords
      /\ <<>> \in Seq(Changes) /\ <<>> \in Seq(Frames)
  BY Resting
<1>1. CASE Connect
  <2>1. replay' \subseteq Changes
    BY <1>1, Zenon DEF Connect
  <2> QED BY <1>0, <1>1, <2>1, Zenon DEF EmergencyTypeOK, Connect, storeVars, raceVars
<1>2. CASE StreamLost
  <2>1. faults' \in 0 .. MaxFaults
    BY <1>2, EmergencyAssumption DEF EmergencyTypeOK, StreamLost
  <2> QED BY <1>2, <2>1, Zenon DEF EmergencyTypeOK, StreamLost, storeVars, raceVars, agentVars
<1>3. CASE Teardown
  BY <1>0, <1>3, Zenon DEF EmergencyTypeOK, Teardown, storeVars, raceVars, agentVars
<1>4. CASE AgentNotice
  BY <1>0, <1>4, Zenon DEF EmergencyTypeOK, AgentNotice, storeVars, raceVars
<1>5. CASE AgentCrash
  <2>1. faults' \in 0 .. MaxFaults
    BY <1>5, EmergencyAssumption DEF EmergencyTypeOK, AgentCrash
  <2>2. teardown' \in BOOLEAN
    BY <1>5, Zenon DEF AgentCrash, EmergencyTypeOK
  <2> QED BY <1>0, <1>5, <2>1, <2>2, Zenon DEF EmergencyTypeOK, AgentCrash, storeVars, raceVars
<1> QED BY <1>1, <1>2, <1>3, <1>4, <1>5, Zenon DEF Stream

\* The racing writers, grouped.
Race ==
    \/ \E o \in Changes : SweepRead(o) \/ CancelRead(o) \/ ReleaseRead(o)
                          \/ ObserveWindowPasses(o) \/ Promote(o)
    \/ SweepFinish \/ CancelCommit \/ ReleaseCommit
    \/ StandardGate \/ StandardCreate \/ StandardFinish

LEMMA ExpiredEffects ==
    ASSUME NEW s
    PROVE  ExpiredEffect(s) \in {"NOT_APPLIED", "UNKNOWN"} /\ ExpiredEffect(s) \in Effects
BY Zenon DEF ExpiredEffect, Effects

LEMMA RaceTypes ==
    ASSUME EmergencyInv, Race
    PROVE  Typed'
<1> Typed /\ Conjuncts
  BY Zenon DEF EmergencyInv, Typed, Conjuncts
<1> USE DEF Conjuncts
<1> SUFFICES EmergencyTypeOK'
  BY Zenon DEF Typed
<1>0. Nothing \in PcRecords /\ 0 \in 0 .. MaxAttempts /\ 0 \in Nat /\ WriterInv
  BY Resting DEF MaxAttempts, WriterInv
<1>1. ASSUME NEW o \in Changes, SweepRead(o) PROVE EmergencyTypeOK'
  <2>1. op[o].status \in Words /\ op[o].version \in Nat
    BY RowFields, Zenon DEF Words
  <2>2. sweep' \in PcRecords
    BY <1>0, <1>1, <2>1, AtRecord DEF SweepRead, Pcs
  <2> QED BY <1>1, <2>2, Zenon DEF EmergencyTypeOK, SweepRead, storeVars, streamVars, agentVars
<1>2. ASSUME NEW o \in Changes, CancelRead(o) PROVE EmergencyTypeOK'
  <2>1. intent[o].delivery \in Words /\ op[o].version \in Nat
    BY RowFields, Zenon DEF Words
  <2>2. cancel' \in PcRecords
    BY <1>0, <1>2, <2>1, AtRecord, Zenon DEF CancelRead, Pcs
  <2> QED BY <1>2, <2>2, Zenon DEF EmergencyTypeOK, CancelRead, storeVars, streamVars, agentVars
<1>3. ASSUME NEW o \in Changes, ReleaseRead(o) PROVE EmergencyTypeOK'
  <2>1. \A m \in {"NOT_APPLIED_PROVEN", "AUDITED_OVERRIDE"} : At("read", o, m, 0, 0) \in PcRecords
    BY <1>0, AtRecord, Zenon DEF Pcs, Words
  <2>2. release' \in PcRecords
    BY <1>3, <2>1, Zenon DEF ReleaseRead
  <2> QED BY <1>3, <2>2, Zenon DEF EmergencyTypeOK, ReleaseRead, storeVars, streamVars, agentVars
<1>4. ASSUME NEW o \in Changes, ObserveWindowPasses(o) PROVE EmergencyTypeOK'
  BY <1>4, Zenon DEF EmergencyTypeOK, ObserveWindowPasses, raceVars, streamVars, agentVars
<1>5. ASSUME NEW o \in Changes, Promote(o) PROVE EmergencyTypeOK'
  BY <1>5, Zenon DEF EmergencyTypeOK, Promote, raceVars, streamVars, agentVars
<1>6. CASE SweepFinish
  <2>1. sweep.op \in Changes /\ sweep.version \in Nat
    BY <1>6, PcFields, Zenon DEF SweepFinish, Followed, Held, EmergencyTypeOK
  <2>2. "timeout" \in Statuses
    BY Zenon DEF Statuses
  <2>3. /\ op' \in [Changes -> OpRows] /\ intent' \in [Changes -> IntentRows]
        /\ task' = task /\ aged' = aged
    BY <1>6, <2>1, <2>2, ExpiredEffects, FinishTypes, Zenon DEF SweepFinish
  <2> QED BY <1>0, <1>6, <2>3, Zenon DEF EmergencyTypeOK, SweepFinish, streamVars, agentVars
<1>7. CASE CancelCommit
  <2>1. op' \in [Changes -> OpRows] /\ intent' \in [Changes -> IntentRows]
    BY <1>0, <1>7, CancelKeeps, Zenon
  <2> QED BY <1>0, <1>7, <2>1, Zenon DEF EmergencyTypeOK, CancelCommit, streamVars, agentVars
<1>8. CASE ReleaseCommit
  <2>1. op' \in [Changes -> OpRows] /\ intent' \in [Changes -> IntentRows]
    BY <1>0, <1>8, ReleaseKeeps, Zenon
  <2> QED BY <1>0, <1>8, <2>1, Zenon DEF EmergencyTypeOK, ReleaseCommit, streamVars, agentVars
<1>9. CASE StandardGate \/ StandardCreate \/ StandardFinish
  <2>1. std' \in {"idle", "gated", "active"}
    BY <1>9, Zenon DEF StandardGate, StandardCreate, StandardFinish
  <2> QED BY <1>9, <2>1, Zenon
      DEF EmergencyTypeOK, StandardGate, StandardCreate, StandardFinish, storeVars, streamVars,
          agentVars
<1> QED BY <1>1, <1>2, <1>3, <1>4, <1>5, <1>6, <1>7, <1>8, <1>9, Zenon DEF Race

\* The steps of the specification, grouped.
LEMMA NextGroups ==
    ASSUME Next
    PROVE  (\E o \in Changes : Request(o)) \/ Race \/ Gateway \/ Agent \/ Stream
BY Zenon DEF Next, Race

-----------------------------------------------------------------------------
(* Every step but a creation keeps the writers' promises. *)

LEMMA StoreStep ==
    ASSUME EmergencyInv, Next, \A o \in Changes : ~CreateEmergency(o)
    PROVE  /\ \A p \in Changes : Advances(p)
           /\ ~GwBegin /\ ~GwConverge => \A p \in Changes : Overtakes(p)
<1> Typed /\ Conjuncts
  BY Zenon DEF EmergencyInv, Typed, Conjuncts
<1> USE DEF Conjuncts
<1>0. WriterInv
  BY Zenon DEF WriterInv
<1>t. op \in [Changes -> OpRows] /\ intent \in [Changes -> IntentRows]
  BY Zenon DEF EmergencyTypeOK
<1>1. ASSUME UNCHANGED <<op, intent>> PROVE \A p \in Changes : Advances(p) /\ Overtakes(p)
  BY <1>0, <1>1, Untouched, Zenon
<1>2. ASSUME NEW o \in Changes, NEW d \in Deliveries, op' = op,
             intent' = [intent EXCEPT ![o].delivery = d]
      PROVE  \A p \in Changes : Advances(p) /\ Overtakes(p)
  <2>1. \A p \in Changes : intent'[p].effect = intent[p].effect
                           /\ intent'[p].released = intent[p].released
    BY <1>t, <1>2, DeliveryWritten, Zenon
  <2> QED BY <1>0, <1>2, <2>1, Untouched, Zenon
<1>3. ASSUME NEW o \in Changes, Request(o)
      PROVE  \A p \in Changes : Advances(p) /\ Overtakes(p)
  <2>1. CASE RequestCheck(o) \/ Dispatch(o) \/ RequestAbandoned(o)
    BY <1>1, <2>1, Zenon DEF RequestCheck, Dispatch, RequestAbandoned, storeVars
  <2>2. CASE DispatchOffline(o)
    BY <1>0, <2>2, FinishKeeps, Zenon DEF DispatchOffline
  <2>3. CASE MarkQueued(o)
    BY <1>2, <2>3, Zenon DEF MarkQueued, Deliveries
  <2>4. CASE EnterQueued(o)
    BY <1>0, <2>4, SwapKeeps, Zenon DEF EnterQueued
  <2> QED BY <1>3, <2>1, <2>2, <2>3, <2>4, Zenon DEF Request
<1>4. ASSUME Race PROVE \A p \in Changes : Advances(p) /\ Overtakes(p)
  <2>1. CASE SweepFinish
    <3>1. sweep.op \in Changes /\ sweep.version \in Nat
      BY <2>1, PcFields, Zenon DEF SweepFinish, Followed, Held, EmergencyTypeOK
    <3> QED BY <1>0, <2>1, <3>1, ExpiredEffects, FinishKeeps, Zenon DEF SweepFinish
  <2>2. CASE CancelCommit
    BY <1>0, <2>2, CancelKeeps, Zenon
  <2>3. CASE ReleaseCommit
    BY <1>0, <2>3, ReleaseKeeps, Zenon
  <2>4. CASE \E o \in Changes : SweepRead(o) \/ CancelRead(o) \/ ReleaseRead(o)
                                \/ ObserveWindowPasses(o) \/ Promote(o)
    <3>1. UNCHANGED <<op, intent>>
      BY <2>4, Zenon DEF SweepRead, CancelRead, ReleaseRead, ObserveWindowPasses, Promote, storeVars
    <3> QED BY <1>1, <3>1, Zenon
  <2>5. CASE StandardGate \/ StandardCreate \/ StandardFinish
    BY <1>1, <2>5, Zenon DEF StandardGate, StandardCreate, StandardFinish, storeVars
  <2> QED BY <1>4, <2>1, <2>2, <2>3, <2>4, <2>5, Zenon DEF Race
<1>5. ASSUME Agent \/ Stream PROVE \A p \in Changes : Advances(p) /\ Overtakes(p)
  <2>1. UNCHANGED <<op, intent>>
    <3>1. CASE Agent
      BY <3>1, Zenon DEF Agent, AgentTake, AgentAck, AgentStart, AgentExecute, AgentStore, AgentReport,
                  AgentReplay, storeVars
    <3>2. CASE Stream
      BY <3>2, Zenon DEF Stream, Connect, StreamLost, Teardown, AgentNotice, AgentCrash, storeVars
    <3> QED BY <1>5, <3>1, <3>2, Zenon
  <2> QED BY <1>1, <2>1, Zenon
<1>6. ASSUME Gateway
      PROVE  /\ \A p \in Changes : Advances(p)
             /\ ~GwBegin /\ ~GwConverge => \A p \in Changes : Overtakes(p)
  <2>1. CASE GwSend \/ GwAckRead \/ GwResult
    BY <1>1, <2>1, Zenon DEF GwSend, GwAckRead, GwResult, storeVars
  <2>2. CASE GwMarkDelivered
    <3>1. PICK o \in Changes : o = gw.op
      BY <2>2, Zenon DEF GwMarkDelivered, Followed, Held
    <3> QED BY <1>2, <2>2, <3>1, Zenon DEF GwMarkDelivered, Deliveries
  <2>3. CASE GwAck
    <3>1. Head(up) \in Frames
      BY <2>3, TakenFrom, Zenon DEF GwAck, EmergencyTypeOK
    <3>2. PICK o \in Changes : o = Head(up).op
      BY <3>1, Zenon DEF Frames
    <3> QED BY <1>2, <2>3, <3>2, Zenon DEF GwAck, Deliveries
  <2>4. CASE GwBegin
    <3>1. gw.version \in Nat
      BY PcFields, Zenon DEF EmergencyTypeOK
    <3>2. PICK o \in Changes : o = gw.op
      BY <2>4, Zenon DEF GwBegin, Followed, Held
    <3>3. Swap(o, gw.version, "running") /\ intent' = intent
      BY <2>4, <3>2, Zenon DEF GwBegin
    <3> QED BY <1>0, <2>4, <3>1, <3>3, SwapKeeps, Zenon
  <2>5. CASE GwConverge
    BY <2>5, ConvergeStep, Zenon
  <2> QED BY <1>6, <2>1, <2>2, <2>3, <2>4, <2>5, Zenon DEF Gateway
<1> QED BY <1>3, <1>4, <1>5, <1>6, NextGroups, Zenon

\* A creation admits an operation only when nothing else is live on the
\* definition and nobody holds the target; every other row stays as it is.
LEMMA CreationStep ==
    ASSUME EmergencyInv, NEW o \in Changes, CreateEmergency(o)
    PROVE  /\ intent' = intent
           /\ \A p \in Changes : p # o => op'[p] = op[p]
           /\ ~Created(o)
           /\ \/ op'[o] = op[o]
              \/ /\ op'[o].status = "pending" /\ op'[o].version = 1 /\ Admits(o)
           /\ UNCHANGED <<aged, std, sweep, cancel, release, registered, teardown, chan, conn,
                          down, up, gw, local, agent, replay, applied, faults>>
<1> Typed /\ Conjuncts
  BY Zenon DEF EmergencyInv, Typed, Conjuncts
<1> USE DEF Conjuncts
<1>1. op \in [Changes -> OpRows] /\ "pending" \in Statuses /\ 1 \in Nat
  BY Zenon DEF EmergencyTypeOK, Statuses
<1>2. ~Created(o)
  BY Zenon DEF CreateEmergency, Followed, Held, RequestsFollowed
<1>3. UNCHANGED <<intent, aged, std, sweep, cancel, release, registered, teardown, chan, conn,
                  down, up, gw, local, agent, replay, applied, faults>>
  BY Zenon DEF CreateEmergency, raceVars, streamVars, agentVars
<1>4. CASE Admits(o)
  <2>1. op' = [op EXCEPT ![o] = [status |-> "pending", version |-> 1]]
    BY <1>4, Zenon DEF CreateEmergency, InitialStatus
  <2>2. /\ op'[o].status = "pending" /\ op'[o].version = 1
        /\ \A p \in Changes : p # o => op'[p] = op[p]
    BY <1>1, <2>1, OpWritten, Zenon
  <2> QED BY <1>2, <1>3, <1>4, <2>2, Zenon
<1>5. CASE ~Admits(o)
  <2>1. op' = op
    BY <1>5, Zenon DEF CreateEmergency
  <2> QED BY <1>2, <1>3, <2>1, Zenon
<1> QED BY <1>4, <1>5, Zenon

\* A row, once there, stays, and what was made in the cluster stays made.
LEMMA Monotone ==
    ASSUME EmergencyInv, Next
    PROVE  /\ \A p \in Changes : Created(p) => op'[p].status # "absent"
           /\ applied \subseteq applied'
<1>1. \A p \in Changes : Created(p) => op'[p].status # "absent"
  <2>1. CASE \A o \in Changes : ~CreateEmergency(o)
    BY <2>1, StoreStep, Zenon DEF Advances, Created
  <2>2. ASSUME NEW o \in Changes, CreateEmergency(o)
        PROVE  \A p \in Changes : Created(p) => op'[p].status # "absent"
    BY <2>2, CreationStep, Zenon DEF Created
  <2> QED BY <2>1, <2>2, Zenon
<1>2. applied \subseteq applied'
  <2>1. CASE AgentExecute
    BY <2>1, Zenon DEF AgentExecute
  <2>2. CASE Agent /\ ~AgentExecute
    BY <2>2, Zenon DEF Agent, AgentTake, AgentAck, AgentStart, AgentStore, AgentReport, AgentReplay
  <2>3. CASE Stream
    BY <2>3, Zenon DEF Stream, Connect, StreamLost, Teardown, AgentNotice, AgentCrash, agentVars
  <2>4. CASE Gateway
    BY <2>4, Zenon DEF Gateway, GwSend, GwMarkDelivered, GwAck, GwAckRead, GwBegin, GwResult, GwConverge,
                agentVars
  <2>5. CASE Race
    BY <2>5, Zenon DEF Race, SweepRead, CancelRead, ReleaseRead, ObserveWindowPasses, Promote, SweepFinish,
                CancelCommit, ReleaseCommit, StandardGate, StandardCreate, StandardFinish, agentVars
  <2>6. CASE \E o \in Changes : Request(o)
    BY <2>6, Zenon DEF Request, RequestCheck, CreateEmergency, Dispatch, DispatchOffline, MarkQueued,
                EnterQueued, RequestAbandoned, agentVars
  <2> QED BY <2>1, <2>2, <2>3, <2>4, <2>5, <2>6, NextGroups, Zenon
<1> QED BY <1>1, <1>2, Zenon

-----------------------------------------------------------------------------
(* Rows, effects and exclusion. *)

LEMMA RowsStep ==
    ASSUME EmergencyInv, Next
    PROVE  RowsInOrder' /\ AppliedIsTrue'
<1> Typed /\ Conjuncts
  BY Zenon DEF EmergencyInv, Typed, Conjuncts
<1> USE DEF Conjuncts
<1>1. applied \subseteq applied'
  BY Monotone, Zenon
<1>2. CASE \A o \in Changes : ~CreateEmergency(o)
  <2>1. \A p \in Changes : Advances(p)
    BY <1>2, StoreStep, Zenon
  <2>2. RowsInOrder'
    BY <2>1, Zenon DEF Advances, RowsInOrder
  <2>3. AppliedIsTrue'
    BY <1>1, <2>1, Zenon DEF Advances, AppliedIsTrue
  <2> QED BY <2>2, <2>3, Zenon
<1>3. ASSUME NEW o \in Changes, CreateEmergency(o) PROVE RowsInOrder' /\ AppliedIsTrue'
  <2>1. /\ intent' = intent /\ ~Created(o)
        /\ \A p \in Changes : p # o => op'[p] = op[p]
        /\ op'[o] = op[o] \/ (op'[o].status = "pending" /\ op'[o].version = 1)
    BY <1>3, CreationStep, Zenon
  <2>2. ~IsTerminal("absent") /\ ~IsTerminal("pending")
    BY Zenon DEF IsTerminal
  <2>3. RowsInOrder'
    BY <2>1, <2>2 DEF RowsInOrder, Created
  <2>4. AppliedIsTrue'
    BY <1>1, <2>1, Zenon DEF AppliedIsTrue
  <2> QED BY <2>3, <2>4, Zenon
<1> QED BY <1>2, <1>3, Zenon

\* The standard operation starts only when no emergency operation is live.
LEMMA StandardStep ==
    ASSUME Next, std' = "active", std # "active"
    PROVE  /\ \A o \in Changes : ~Live(o)
           /\ op' = op
<1>1. StandardCreate
  <2>1. CASE \E o \in Changes : Request(o)
    BY <2>1, Zenon DEF Request, RequestCheck, CreateEmergency, Dispatch, DispatchOffline, MarkQueued,
                EnterQueued, RequestAbandoned, raceVars
  <2>2. CASE Gateway
    BY <2>2, Zenon DEF Gateway, GwSend, GwMarkDelivered, GwAck, GwAckRead, GwBegin, GwResult, GwConverge,
                raceVars
  <2>3. CASE Agent
    BY <2>3, Zenon DEF Agent, AgentTake, AgentAck, AgentStart, AgentExecute, AgentStore, AgentReport,
                AgentReplay, raceVars
  <2>4. CASE Stream
    BY <2>4, Zenon DEF Stream, Connect, StreamLost, Teardown, AgentNotice, AgentCrash, raceVars
  <2>5. CASE Race
    BY <2>5, Zenon DEF Race, SweepRead, CancelRead, ReleaseRead, ObserveWindowPasses, Promote, SweepFinish,
                CancelCommit, ReleaseCommit, StandardGate, StandardFinish, raceVars
  <2> QED BY <2>1, <2>2, <2>3, <2>4, <2>5, NextGroups, Zenon
<1> QED BY <1>1, Zenon DEF StandardCreate, storeVars

LEMMA ExclusionStep ==
    ASSUME EmergencyInv, Next
    PROVE  OneLiveOperation' /\ TargetLocked'
<1> Typed /\ Conjuncts
  BY Zenon DEF EmergencyInv, Typed, Conjuncts
<1> USE DEF Conjuncts
<1>1. CASE \A o \in Changes : ~CreateEmergency(o)
  <2>1. \A p \in Changes : (Live(p)' => Live(p)) /\ (HoldsTarget(p)' => HoldsTarget(p))
    BY <1>1, StoreStep, Zenon DEF Advances
  <2>2. \A o, p \in Changes : Live(o)' /\ Live(p)' => o = p
    BY <2>1, Zenon DEF OneLiveOperation
  <2>3. ASSUME std' = "active" PROVE \A o \in Changes : ~Live(o)'
    <3>1. CASE std = "active"
      BY <2>1, <3>1, Zenon DEF OneLiveOperation
    <3>2. CASE std # "active"
      BY <2>1, <2>3, <3>2, StandardStep, Zenon
    <3> QED BY <3>1, <3>2, Zenon
  <2>4. OneLiveOperation'
    BY <2>2, <2>3, Zenon DEF OneLiveOperation
  <2>5. TargetLocked'
    BY <2>1, Zenon DEF TargetLocked, Conflict
  <2> QED BY <2>4, <2>5, Zenon
<1>2. ASSUME NEW o \in Changes, CreateEmergency(o) PROVE OneLiveOperation' /\ TargetLocked'
  <2>1. /\ intent' = intent /\ std' = std
        /\ \A p \in Changes : p # o => op'[p] = op[p]
        /\ ~Created(o)
        /\ op'[o] = op[o] \/ Admits(o)
    BY <1>2, CreationStep, Zenon
  <2>2. \A p \in Changes : p # o => (Live(p)' <=> Live(p)) /\ (HoldsTarget(p)' <=> HoldsTarget(p))
    BY <2>1, Zenon DEF Live, HoldsTarget, Created
  <2>3. CASE op'[o] = op[o]
    <3>1. ~Live(o)' /\ ~HoldsTarget(o)'
      BY <2>1, <2>3, Zenon DEF Live, HoldsTarget, Created
    <3> QED BY <2>1, <2>2, <3>1, Zenon DEF OneLiveOperation, TargetLocked, Conflict
  <2>4. CASE Admits(o)
    <3>1. /\ std # "active" /\ \A p \in Changes : ~Live(p)
          /\ \A p \in Changes : HoldsTarget(p) => ~Conflict(o, p)
      BY <2>4, Zenon DEF Admits
    <3>2. OneLiveOperation'
      BY <2>1, <2>2, <3>1, Zenon DEF OneLiveOperation
    <3>3. TargetLocked'
      BY <2>2, <3>1, Zenon DEF TargetLocked, Conflict
    <3> QED BY <3>2, <3>3, Zenon
  <2> QED BY <2>1, <2>3, <2>4, Zenon
<1> QED BY <1>1, <1>2, Zenon

-----------------------------------------------------------------------------
(* What is in transit and in hand. *)

\* What a step leaves alone stays about existing rows.
LEMMA LeftAlone ==
    ASSUME EmergencyInv, Next
    PROVE  /\ local' = local => LocalFollowed'
           /\ chan' = chan => InRows(chan)'
           /\ down' = down => InRows(down)'
           /\ up' = up => UpFollowed'
           /\ gw' = gw => (gw.pc # "idle" => Held(gw))'
           /\ agent' = agent => (agent.pc \notin {"idle", "down"} => Held(agent))'
           /\ sweep' = sweep => (sweep # Nothing => Held(sweep))'
           /\ cancel' = cancel => (cancel # Nothing => Held(cancel))'
           /\ release' = release => (release # Nothing => Held(release))'
           /\ replay' \subseteq replay => (\A o \in replay : Created(o))'
<1> Typed /\ Conjuncts
  BY Zenon DEF EmergencyInv, Typed, Conjuncts
<1> USE DEF Conjuncts
<1>1. \A p \in Changes : Created(p) => op'[p].status # "absent"
  BY Monotone, Zenon
<1>2. local' = local => LocalFollowed'
  BY <1>1, Zenon DEF Followed, LocalFollowed, Created
<1>3. chan' = chan => InRows(chan)'
  BY <1>1 DEF Followed, InRows, Created, EmergencyTypeOK
<1>4. down' = down => InRows(down)'
  BY <1>1 DEF Followed, InRows, Created, EmergencyTypeOK
<1>5. up' = up => UpFollowed'
  <2>1. \A i \in DOMAIN up : up[i] \in Frames
    BY DEF EmergencyTypeOK
  <2>2. \A i \in DOMAIN up : up[i].op \in Changes
    BY <2>1, Zenon DEF Frames
  <2> QED BY <1>1, <2>2, Zenon DEF Followed, UpFollowed, Created
<1>6. gw' = gw => (gw.pc # "idle" => Held(gw))'
  BY <1>1, Zenon DEF Followed, Held, Created
<1>7. agent' = agent => (agent.pc \notin {"idle", "down"} => Held(agent))'
  BY <1>1, Zenon DEF Followed, Held, Created
<1>8. /\ sweep' = sweep => (sweep # Nothing => Held(sweep))'
      /\ cancel' = cancel => (cancel # Nothing => Held(cancel))'
      /\ release' = release => (release # Nothing => Held(release))'
  <2>1. Nothing' = Nothing
    BY Zenon DEF Nothing
  <2> QED BY <1>1, <2>1, Zenon DEF Followed, Held, Created
<1>9. replay' \subseteq replay => (\A o \in replay : Created(o))'
  BY <1>1, Zenon DEF Followed, Created, EmergencyTypeOK
<1> QED BY <1>2, <1>3, <1>4, <1>5, <1>6, <1>7, <1>8, <1>9, Zenon

\* Outside the requests no row appears.
LEMMA RequestsLeftAlone ==
    ASSUME EmergencyInv, Next, req' = req
    PROVE  RequestsFollowed'
<1> Typed /\ Conjuncts
  BY Zenon DEF EmergencyInv, Typed, Conjuncts
<1> USE DEF Conjuncts
<1>1. ASSUME NEW o \in Changes, CreateEmergency(o) PROVE FALSE
  BY <1>1, Zenon DEF CreateEmergency, EmergencyTypeOK
<1>2. \A p \in Changes : op'[p].status = "absent" <=> op[p].status = "absent"
  BY <1>1, StoreStep, Zenon DEF Advances
<1> QED BY <1>2, Zenon DEF Followed, RequestsFollowed, Created

LEMMA FollowedByRequests ==
    ASSUME EmergencyInv, Next, NEW o \in Changes, Request(o)
    PROVE  Followed'
<1> Typed /\ Conjuncts
  BY Zenon DEF EmergencyInv, Typed, Conjuncts
<1> USE DEF Conjuncts
<1>1. UNCHANGED <<local, down, up, gw, agent, sweep, cancel, release, replay>>
  BY Zenon DEF Request, RequestCheck, CreateEmergency, Dispatch, DispatchOffline, MarkQueued, EnterQueued,
         RequestAbandoned, raceVars, streamVars, agentVars
<1>2. InRows(chan)'
  <2>1. CASE Dispatch(o)
    <3>1. /\ chan \in Seq(Changes) /\ chan' = Append(chan, o) /\ op' = op /\ Created(o)
      BY <2>1, Zenon DEF Dispatch, storeVars, EmergencyTypeOK, Followed, RequestsFollowed
    <3>2. \A i \in DOMAIN chan' : (i \in DOMAIN chan /\ chan'[i] = chan[i]) \/ chan'[i] = o
      BY <3>1, AddedTo, ZenonT(30)
    <3> QED BY <3>1, <3>2, Zenon DEF Followed, InRows, Created
  <2>2. CASE ~Dispatch(o)
    <3>1. chan' = chan
      BY <2>2, Zenon DEF Request, RequestCheck, CreateEmergency, DispatchOffline, MarkQueued, EnterQueued,
                  RequestAbandoned, streamVars
    <3> QED BY <3>1, LeftAlone, Zenon
  <2> QED BY <2>1, <2>2, Zenon
<1>3. RequestsFollowed'
  <2>0. req \in [Changes -> {"idle", "checked", "created", "dispatched", "marked", "done"}]
    BY Zenon DEF EmergencyTypeOK
  <2>1. CASE CreateEmergency(o)
    <3>1. /\ \A p \in Changes : p # o => op'[p] = op[p] /\ req'[p] = req[p]
      BY <2>0, <2>1, CreationStep, Zenon DEF CreateEmergency
    <3>2. CASE Admits(o)
      <4>1. req'[o] = "created"
        BY <2>0, <2>1, <3>2, Zenon DEF CreateEmergency
      <4>2. op'[o].status = "pending"
        <5>1. op' = [op EXCEPT ![o] = [status |-> "pending", version |-> 1]]
          BY <2>1, <3>2, Zenon DEF CreateEmergency, InitialStatus
        <5> QED BY <5>1, Zenon DEF EmergencyTypeOK
      <4> QED BY <3>1, <4>1, <4>2, Zenon DEF Followed, RequestsFollowed, Created
    <3>3. CASE ~Admits(o)
      <4>1. req'[o] = "done" /\ op' = op
        BY <2>0, <2>1, <3>3, Zenon DEF CreateEmergency
      <4> QED BY <3>1, <4>1, Zenon DEF Followed, RequestsFollowed, Created
    <3> QED BY <3>2, <3>3, Zenon
  <2>2. CASE ~CreateEmergency(o)
    <3>1. \A p \in Changes : op'[p].status = "absent" <=> op[p].status = "absent"
      <4>1. ASSUME NEW p \in Changes, CreateEmergency(p) PROVE FALSE
        <5>1. p # o /\ req[p] = "checked" /\ req'[p] # "checked"
          BY <2>0, <2>2, <4>1, Zenon DEF CreateEmergency
        <5>2. req'[p] = req[p]
          BY <2>0, <2>2, <5>1, Zenon
          DEF Request, RequestCheck, Dispatch, DispatchOffline, MarkQueued, EnterQueued,
              RequestAbandoned
        <5> QED BY <5>1, <5>2, Zenon
      <4> QED BY <4>1, StoreStep, Zenon DEF Advances
    <3>2. /\ \A p \in Changes : p # o => req'[p] = req[p]
          /\ \/ req[o] = "idle" /\ req'[o] = "checked"
             \/ req[o] \in {"created", "dispatched", "marked"}
                /\ req'[o] \in {"dispatched", "marked", "done"}
             \/ req'[o] = "done"
      BY <2>0, <2>2, Zenon
      DEF Request, RequestCheck, Dispatch, DispatchOffline, MarkQueued, EnterQueued, RequestAbandoned
    <3> QED BY <3>1, <3>2, Zenon DEF Followed, RequestsFollowed, Created
  <2> QED BY <2>1, <2>2, Zenon
<1> QED BY <1>1, <1>2, <1>3, LeftAlone, Zenon DEF Followed

LEMMA FollowedByRacers ==
    ASSUME EmergencyInv, Next, Race
    PROVE  Followed'
<1> Typed /\ Conjuncts
  BY Zenon DEF EmergencyInv, Typed, Conjuncts
<1> USE DEF Conjuncts
<1>1. UNCHANGED <<req, local, chan, down, up, gw, agent, replay>>
  BY Zenon DEF Race, SweepRead, CancelRead, ReleaseRead, ObserveWindowPasses, Promote, SweepFinish,
         CancelCommit, ReleaseCommit, StandardGate, StandardCreate, StandardFinish, streamVars,
         agentVars
<1>2. ASSUME NEW o \in Changes, Created(o), NEW s \in Words, NEW v \in Nat
      PROVE  op'[o].status # "absent" /\ At("read", o, s, v, 0).op = o
  <2>1. 0 \in 0 .. MaxAttempts /\ "read" \in Pcs
    BY DEF MaxAttempts, Pcs
  <2> QED BY <1>2, <2>1, AtRecord, Monotone
<1>3. (sweep # Nothing => Held(sweep))'
  <2>1. CASE sweep' \in {sweep, Nothing}
    BY <2>1, LeftAlone, Zenon DEF Nothing
  <2>2. ASSUME NEW o \in Changes, SweepRead(o) PROVE (sweep # Nothing => Held(sweep))'
    <3>1. op[o].status \in Words /\ op[o].version \in Nat /\ Created(o)
      BY <2>2, RowFields, Zenon DEF Words, SweepRead, Live
    <3>2. sweep'.op = o /\ op'[o].status # "absent"
      BY <1>2, <2>2, <3>1, Zenon DEF SweepRead
    <3> QED BY <3>2, Zenon DEF Held, Created
  <2> QED BY <2>1, <2>2, Zenon
      DEF Race, CancelRead, ReleaseRead, ObserveWindowPasses, Promote, SweepFinish, CancelCommit,
          ReleaseCommit, StandardGate, StandardCreate, StandardFinish, raceVars
<1>4. (cancel # Nothing => Held(cancel))'
  <2>1. CASE cancel' \in {cancel, Nothing}
    BY <2>1, LeftAlone, Zenon DEF Nothing
  <2>2. ASSUME NEW o \in Changes, CancelRead(o) PROVE (cancel # Nothing => Held(cancel))'
    <3>1. intent[o].delivery \in Words /\ op[o].version \in Nat /\ Created(o)
      BY <2>2, RowFields, Zenon DEF Words, CancelRead
    <3>2. cancel'.op = o /\ op'[o].status # "absent"
      BY <1>2, <2>2, <3>1, Zenon DEF CancelRead
    <3> QED BY <3>2, Zenon DEF Held, Created
  <2> QED BY <2>1, <2>2, Zenon
      DEF Race, SweepRead, ReleaseRead, ObserveWindowPasses, Promote, SweepFinish, CancelCommit,
          ReleaseCommit, StandardGate, StandardCreate, StandardFinish, raceVars
<1>5. (release # Nothing => Held(release))'
  <2>1. CASE release' \in {release, Nothing}
    BY <2>1, LeftAlone, Zenon DEF Nothing
  <2>2. ASSUME NEW o \in Changes, ReleaseRead(o) PROVE (release # Nothing => Held(release))'
    <3>1. PICK m \in {"NOT_APPLIED_PROVEN", "AUDITED_OVERRIDE"} : release' = At("read", o, m, 0, 0)
      BY <2>2, Zenon DEF ReleaseRead
    <3>2. m \in Words /\ 0 \in Nat /\ Created(o)
      BY <2>2, Zenon DEF Words, ReleaseRead
    <3>3. release'.op = o /\ op'[o].status # "absent"
      BY <1>2, <3>1, <3>2, Zenon
    <3> QED BY <3>3, Zenon DEF Held, Created
  <2> QED BY <2>1, <2>2, Zenon
      DEF Race, SweepRead, CancelRead, ObserveWindowPasses, Promote, SweepFinish, CancelCommit,
          ReleaseCommit, StandardGate, StandardCreate, StandardFinish, raceVars
<1> QED BY <1>1, <1>3, <1>4, <1>5, LeftAlone, RequestsLeftAlone, Zenon DEF Followed

LEMMA FollowedByGateway ==
    ASSUME EmergencyInv, Next, Gateway
    PROVE  Followed'
<1> Typed /\ Conjuncts
  BY Zenon DEF EmergencyInv, Typed, Conjuncts
<1> USE DEF Conjuncts
<1>1. UNCHANGED <<req, local, agent, replay, sweep, cancel, release>>
  BY Zenon DEF Gateway, GwSend, GwMarkDelivered, GwAck, GwAckRead, GwBegin, GwResult, GwConverge,
         raceVars, agentVars
<1>2. \A p \in Changes : Created(p) => op'[p].status # "absent"
  BY Monotone, Zenon
<1>t. /\ chan \in Seq(Changes) /\ down \in Seq(Changes) /\ up \in Seq(Frames)
  BY Zenon DEF EmergencyTypeOK
<1>3. CASE GwSend
  <2>1. /\ Head(chan) \in Changes /\ Created(Head(chan)) /\ op'[Head(chan)].status # "absent"
        /\ \A i \in DOMAIN Tail(chan) : i + 1 \in DOMAIN chan /\ Tail(chan)[i] = chan[i + 1]
    BY <1>2, <1>3, <1>t, TakenFrom, Zenon DEF GwSend, Followed, InRows
  <2>2. UNCHANGED <<up, op>>
    BY <1>3, Zenon DEF GwSend, storeVars
  <2>3. InRows(chan)'
    BY <1>3, <2>1, <2>2, Zenon DEF GwSend, Followed, InRows, Created
  <2>4. InRows(down)'
    <3>1. CASE conn
      <4>1. PICK o \in Changes : o = Head(chan)
        BY <2>1, Zenon
      <4>2. down' = Append(down, o)
        BY <1>3, <3>1, <4>1, Zenon DEF GwSend
      <4>3. \A i \in DOMAIN down' : (i \in DOMAIN down /\ down'[i] = down[i]) \/ down'[i] = o
        BY <1>t, <4>2, AddedTo
      <4> QED BY <2>1, <2>2, <4>1, <4>3, Zenon DEF Followed, InRows, Created
    <3>2. CASE ~conn
      BY <1>3, <3>2, LeftAlone, Zenon DEF GwSend
    <3> QED BY <3>1, <3>2, Zenon
  <2>5. gw'.op = Head(chan)
    BY <1>3, Zenon DEF GwSend, At
  <2>6. (gw.pc # "idle" => Held(gw))'
    BY <2>1, <2>5, Zenon DEF Held, Created
  <2> QED BY <1>1, <2>2, <2>3, <2>4, <2>6, LeftAlone, RequestsLeftAlone, Zenon DEF Followed
<1>4. CASE GwAck \/ GwResult
  <2>1. /\ up # <<>> /\ up' = Tail(up) /\ op' = op /\ UNCHANGED <<chan, down>>
    BY <1>4, Zenon DEF GwAck, GwResult, storeVars
  <2>2. /\ Head(up) \in Frames /\ Created(Head(up).op)
        /\ \A i \in DOMAIN Tail(up) : i + 1 \in DOMAIN up /\ Tail(up)[i] = up[i + 1]
    BY <1>t, <2>1, TakenFrom, Zenon DEF Followed, UpFollowed
  <2>3. Head(up).op \in Changes
    BY <2>2, Zenon DEF Frames
  <2>4. UpFollowed'
    BY <2>1, <2>2, Zenon DEF Followed, UpFollowed, Created
  <2>5. gw'.op = Head(up).op
    <3>1. CASE GwAck
      BY <3>1, Zenon DEF GwAck, At
    <3>2. CASE GwResult
      BY <3>2, Zenon DEF GwResult, At
    <3> QED BY <1>4, <3>1, <3>2, Zenon
  <2>6. (gw.pc # "idle" => Held(gw))'
    BY <2>1, <2>2, <2>3, <2>5, Zenon DEF Held, Created
  <2> QED BY <1>1, <2>1, <2>4, <2>6, LeftAlone, RequestsLeftAlone, Zenon DEF Followed
<1>5. CASE GwMarkDelivered \/ GwAckRead \/ GwBegin \/ GwConverge
  <2>1. UNCHANGED <<chan, down, up>>
    BY <1>5, Zenon DEF GwMarkDelivered, GwAckRead, GwBegin, GwConverge
  <2>2. gw' = Nothing \/ (gw.pc # "idle" /\ gw'.op = gw.op)
    <3>1. CASE GwMarkDelivered \/ GwBegin
      BY <3>1, Zenon DEF GwMarkDelivered, GwBegin
    <3>2. CASE GwConverge
      BY <3>2, ConvergeStep, Zenon DEF GwConverge
    <3>3. CASE GwAckRead
      BY <3>3, Zenon DEF GwAckRead, At
    <3> QED BY <1>5, <3>1, <3>2, <3>3, Zenon
  <2>3. (gw.pc # "idle" => Held(gw))'
    BY <1>2, <2>2, Resting, Zenon DEF Followed, Held, Created
  <2> QED BY <1>1, <2>1, <2>3, LeftAlone, RequestsLeftAlone, Zenon DEF Followed
<1> QED BY <1>3, <1>4, <1>5, Zenon DEF Gateway

\* A frame that is sent or lost.
LEMMA SendFollowed ==
    ASSUME EmergencyInv, NEW m \in Frames, AgentSends(m), Created(m.op), op' = op
    PROVE  UpFollowed'
<1> Typed /\ Conjuncts
  BY Zenon DEF EmergencyInv, Typed, Conjuncts
<1> USE DEF Conjuncts
<1>1. CASE conn
  <2>1. \A i \in DOMAIN up' : (i \in DOMAIN up /\ up'[i] = up[i]) \/ up'[i] = m
    BY <1>1, AddedTo DEF AgentSends, EmergencyTypeOK
  <2> QED BY <2>1, Zenon DEF Followed, UpFollowed, Created
<1>2. CASE ~conn
  BY <1>2, Zenon DEF AgentSends, Followed, UpFollowed, Created
<1> QED BY <1>1, <1>2, Zenon

LEMMA FollowedByAgent ==
    ASSUME EmergencyInv, Next, Agent
    PROVE  Followed'
<1> Typed /\ Conjuncts
  BY Zenon DEF EmergencyInv, Typed, Conjuncts
<1> USE DEF Conjuncts
<1>1. UNCHANGED <<op, req, chan, gw, sweep, cancel, release>>
  BY Zenon DEF Agent, AgentTake, AgentAck, AgentStart, AgentExecute, AgentStore, AgentReport, AgentReplay,
         storeVars, raceVars, streamVars
<1>t. local \in [Changes -> {"none", "pending", "running", "succeeded", "failed"}]
  BY Zenon DEF EmergencyTypeOK
<1>h. agent.pc \notin {"idle", "down"} => agent.op \in Changes /\ Created(agent.op)
  BY Zenon DEF Followed, Held
<1>2. CASE AgentTake
  <2>1. /\ Head(down) \in Changes /\ Created(Head(down))
        /\ \A i \in DOMAIN Tail(down) : i + 1 \in DOMAIN down /\ Tail(down)[i] = down[i + 1]
    BY <1>2, TakenFrom DEF AgentTake, Followed, InRows, EmergencyTypeOK
  <2>2. InRows(down)'
    BY <1>1, <1>2, <2>1, Zenon DEF AgentTake, Followed, InRows, Created
  <2>3. LocalFollowed'
    BY <1>1, <1>2, <1>t, <2>1, Zenon DEF AgentTake, Followed, LocalFollowed, Created
  <2>4. agent' \in {At("ack", Head(down), "none", 0, 0), At("start", Head(down), "none", 0, 0),
                    At("report", Head(down), "none", 0, 0)}
    BY <1>2, Zenon DEF AgentTake
  <2>5. agent'.op = Head(down)
    <3>1. \A pc : At(pc, Head(down), "none", 0, 0).op = Head(down)
      BY Zenon DEF At
    <3> QED BY <2>4, <3>1, Zenon
  <2>6. (agent.pc \notin {"idle", "down"} => Held(agent))'
    BY <1>1, <2>1, <2>5, Zenon DEF Held, Created
  <2>7. UNCHANGED <<up, replay>>
    BY <1>2, Zenon DEF AgentTake
  <2> QED BY <1>1, <2>2, <2>3, <2>6, <2>7, LeftAlone, RequestsLeftAlone, Zenon DEF Followed
<1>3. CASE AgentAck \/ AgentReport
  <2>1. UNCHANGED <<local, down, replay>>
    BY <1>3, Zenon DEF AgentAck, AgentReport
  <2>2. agent.op \in Changes /\ Created(agent.op)
    BY <1>3, <1>h, Zenon DEF AgentAck, AgentReport
  <2>3. UpFollowed'
    <3>1. CASE AgentAck
      <4>1. AckOf(agent.op) \in Frames /\ AckOf(agent.op).op = agent.op
        BY <2>2, Zenon DEF AckOf, Frames
      <4> QED BY <1>1, <2>2, <3>1, <4>1, SendFollowed, Zenon DEF AgentAck
    <3>2. CASE AgentReport
      <4>1. local[agent.op] \in {"succeeded", "failed"}
        BY <3>2, Zenon DEF AgentReport, Truthful, Results
      <4>2. ResultOf(agent.op, local[agent.op]) \in Frames
            /\ ResultOf(agent.op, local[agent.op]).op = agent.op
        BY <2>2, <4>1, Zenon DEF ResultOf, Frames
      <4> QED BY <1>1, <2>2, <3>2, <4>2, SendFollowed, Zenon DEF AgentReport
    <3> QED BY <1>3, <3>1, <3>2, Zenon
  <2>4. agent' = Nothing \/ agent'.op = agent.op
    <3>1. CASE AgentAck
      BY <3>1, Zenon DEF AgentAck, At
    <3>2. CASE AgentReport
      BY <3>2, Zenon DEF AgentReport
    <3> QED BY <1>3, <3>1, <3>2, Zenon
  <2>5. (agent.pc \notin {"idle", "down"} => Held(agent))'
    BY <1>1, <2>2, <2>4, Resting, Zenon DEF Held, Created
  <2> QED BY <1>1, <2>1, <2>3, <2>5, LeftAlone, RequestsLeftAlone, Zenon DEF Followed
<1>4. CASE AgentStart \/ AgentExecute \/ AgentStore
  <2>1. UNCHANGED <<down, up, replay>>
    BY <1>4, Zenon DEF AgentStart, AgentExecute, AgentStore, streamVars
  <2>2. agent.op \in Changes /\ Created(agent.op)
    BY <1>4, <1>h, Zenon DEF AgentStart, AgentExecute, AgentStore
  <2>3. \A o \in Changes : local'[o] = local[o] \/ o = agent.op
    BY <1>4, <1>t, <2>2, Zenon DEF AgentStart, AgentExecute, AgentStore
  <2>4. LocalFollowed'
    BY <1>1, <2>2, <2>3, Zenon DEF Followed, LocalFollowed, Created
  <2>5. agent'.op = agent.op
    BY <1>4 DEF AgentStart, AgentExecute, AgentStore, At
  <2>6. (agent.pc \notin {"idle", "down"} => Held(agent))'
    BY <1>1, <2>2, <2>5, Zenon DEF Held, Created
  <2> QED BY <1>1, <2>1, <2>4, <2>6, LeftAlone, RequestsLeftAlone, Zenon DEF Followed
<1>5. CASE AgentReplay
  <2>1. PICK o \in replay :
          /\ replay' = replay \ {o}
          /\ IF local[o] = "running"
             THEN agent' = At("start", o, "none", 0, 0) /\ UNCHANGED up
             ELSE AgentSends(AckOf(o)) /\ UNCHANGED agent
    BY <1>5, Zenon DEF AgentReplay
  <2>2. o \in Changes /\ Created(o) /\ replay' \subseteq replay
    BY <2>1, Zenon DEF EmergencyTypeOK, Followed
  <2>3. UNCHANGED <<local, down>>
    BY <1>5, Zenon DEF AgentReplay
  <2>4. UpFollowed'
    <3>1. AckOf(o) \in Frames /\ AckOf(o).op = o
      BY <2>2, Zenon DEF AckOf, Frames
    <3> QED BY <1>1, <2>1, <2>2, <3>1, SendFollowed, LeftAlone, Zenon
  <2>5. agent' = agent \/ agent'.op = o
    BY <2>1 DEF At
  <2>6. (agent.pc \notin {"idle", "down"} => Held(agent))'
    BY <1>1, <2>2, <2>5, LeftAlone, Zenon DEF Held, Created
  <2> QED BY <1>1, <2>2, <2>3, <2>4, <2>6, LeftAlone, RequestsLeftAlone, Zenon DEF Followed
<1> QED BY <1>2, <1>3, <1>4, <1>5, Zenon DEF Agent

LEMMA FollowedByStream ==
    ASSUME EmergencyInv, Next, Stream
    PROVE  Followed'
<1> Typed /\ Conjuncts
  BY Zenon DEF EmergencyInv, Typed, Conjuncts
<1> USE DEF Conjuncts
<1>1. UNCHANGED <<op, req, local, sweep, cancel, release>>
  BY Zenon DEF Stream, Connect, StreamLost, Teardown, AgentNotice, AgentCrash, storeVars, raceVars,
         agentVars
<1>2. chan' \in {chan, <<>>} /\ down' \in {down, <<>>} /\ up' \in {up, <<>>}
  BY Zenon DEF Stream, Connect, StreamLost, Teardown, AgentNotice, AgentCrash
<1>3. gw' \in {gw, Nothing} /\ agent' \in {agent, Nothing, Down}
  BY Zenon DEF Stream, Connect, StreamLost, Teardown, AgentNotice, AgentCrash, agentVars
<1>4. replay' \subseteq replay \/ replay' = {o \in Changes : local[o] \in {"pending", "running"}}
  BY Zenon DEF Stream, Connect, StreamLost, Teardown, AgentNotice, AgentCrash, agentVars
<1>5. InRows(chan)' /\ InRows(down)' /\ UpFollowed'
  BY <1>2, LeftAlone DEF InRows, UpFollowed
<1>6. /\ (gw.pc # "idle" => Held(gw))'
      /\ (agent.pc \notin {"idle", "down"} => Held(agent))'
  BY <1>3, LeftAlone, Resting, Zenon
<1>7. (\A o \in replay : Created(o))'
  BY <1>1, <1>4, LeftAlone, Zenon DEF Followed, LocalFollowed, Created
<1> QED BY <1>1, <1>5, <1>6, <1>7, LeftAlone, RequestsLeftAlone, Zenon DEF Followed

-----------------------------------------------------------------------------
(* A success is never invented. *)

\* What a step leaves alone stays true.
LEMMA TrueLeftAlone ==
    ASSUME EmergencyInv, Next, local' = local
    PROVE  /\ (\A o \in Changes : local[o] = "succeeded" => o \in applied)'
           /\ agent' = agent =>
                 /\ (agent.pc = "store" => agent.status \in Results
                                           /\ (agent.status = "succeeded" => agent.op \in applied))'
                 /\ (agent.pc = "report" => local[agent.op] \in Results)'
           /\ up' = up =>
                 (\A i \in DOMAIN up : up[i].kind = "result" =>
                     up[i].res \in Results /\ (up[i].res = "succeeded" => up[i].op \in applied))'
           /\ gw' = gw =>
                 (gw.pc = "result" =>
                     gw.status \in Results /\ (gw.status = "succeeded" => gw.op \in applied))'
<1> Typed /\ Conjuncts
  BY Zenon DEF EmergencyInv, Typed, Conjuncts
<1> USE DEF Conjuncts
<1>1. applied \subseteq applied' /\ Results' = Results
  BY Monotone, Zenon DEF Results
<1> QED BY <1>1, Zenon DEF Truthful

LEMMA TruthfulStep ==
    ASSUME EmergencyInv, Next
    PROVE  Truthful'
<1> Typed /\ Conjuncts
  BY Zenon DEF EmergencyInv, Typed, Conjuncts
<1> USE DEF Conjuncts
<1>1. applied \subseteq applied'
  BY Monotone, Zenon
<1>t. local \in [Changes -> {"none", "pending", "running", "succeeded", "failed"}]
  BY Zenon DEF EmergencyTypeOK
<1>h. agent.pc \notin {"idle", "down"} => agent.op \in Changes
  BY Zenon DEF Followed, Held
<1>2. CASE (\E o \in Changes : Request(o)) \/ Race
  <2>1. UNCHANGED <<local, agent, up, gw>>
    <3>1. CASE \E o \in Changes : Request(o)
      BY <3>1, Zenon DEF Request, RequestCheck, CreateEmergency, Dispatch, DispatchOffline, MarkQueued,
                  EnterQueued, RequestAbandoned, streamVars, agentVars
    <3>2. CASE Race
      BY <3>2, Zenon DEF Race, SweepRead, CancelRead, ReleaseRead, ObserveWindowPasses, Promote,
                  SweepFinish, CancelCommit, ReleaseCommit, StandardGate, StandardCreate,
                  StandardFinish, streamVars, agentVars
    <3> QED BY <1>2, <3>1, <3>2, Zenon
  <2> QED BY <2>1, TrueLeftAlone, Zenon DEF Truthful
<1>3. CASE Stream
  <2>1. local' = local /\ agent' \in {agent, Nothing, Down} /\ up' \in {up, <<>>}
        /\ gw' \in {gw, Nothing}
    BY <1>3, Zenon DEF Stream, Connect, StreamLost, Teardown, AgentNotice, AgentCrash, agentVars
  <2>2. (agent.pc = "store" => agent.status \in Results
                               /\ (agent.status = "succeeded" => agent.op \in applied))'
        /\ (agent.pc = "report" => local[agent.op] \in Results)'
    BY <2>1, TrueLeftAlone, Resting, Zenon
  <2>3. (\A i \in DOMAIN up : up[i].kind = "result" =>
            up[i].res \in Results /\ (up[i].res = "succeeded" => up[i].op \in applied))'
    BY <2>1, TrueLeftAlone
  <2>4. (gw.pc = "result" =>
            gw.status \in Results /\ (gw.status = "succeeded" => gw.op \in applied))'
    BY <2>1, TrueLeftAlone, Resting, Zenon
  <2> QED BY <2>1, <2>2, <2>3, <2>4, TrueLeftAlone, Zenon DEF Truthful
<1>4. CASE Gateway
  <2>1. UNCHANGED <<local, agent, applied>>
    BY <1>4, Zenon DEF Gateway, GwSend, GwMarkDelivered, GwAck, GwAckRead, GwBegin, GwResult, GwConverge,
                agentVars
  <2>2. (\A i \in DOMAIN up : up[i].kind = "result" =>
            up[i].res \in Results /\ (up[i].res = "succeeded" => up[i].op \in applied))'
    <3>1. CASE GwAck \/ GwResult
      <4>1. up # <<>> /\ up' = Tail(up)
        BY <3>1, Zenon DEF GwAck, GwResult
      <4>2. \A i \in DOMAIN up' : i + 1 \in DOMAIN up /\ up'[i] = up[i + 1]
        BY <4>1, TakenFrom, Zenon DEF EmergencyTypeOK
      <4> QED BY <2>1, <4>2, Zenon DEF Truthful
    <3>2. CASE ~(GwAck \/ GwResult)
      <4>1. up' = up
        BY <1>4, <3>2, Zenon DEF Gateway, GwSend, GwMarkDelivered, GwAckRead, GwBegin, GwConverge
      <4> QED BY <2>1, <4>1, TrueLeftAlone, Zenon
    <3> QED BY <3>1, <3>2, Zenon
  <2>3. (gw.pc = "result" =>
            gw.status \in Results /\ (gw.status = "succeeded" => gw.op \in applied))'
    <3>1. CASE GwResult
      <4>1. up # <<>> /\ Head(up).kind = "result" /\ gw'.op = Head(up).op /\ gw'.status = Head(up).res
        BY <3>1, Zenon DEF GwResult, At
      <4>2. 1 \in DOMAIN up /\ Head(up) = up[1]
        BY <4>1, TakenFrom, Zenon DEF EmergencyTypeOK
      <4> QED BY <2>1, <4>1, <4>2, Zenon DEF Truthful
    <3>2. CASE GwConverge
      BY <2>1, <3>2, ConvergeStep, Resting DEF Truthful, GwConverge
    <3>3. CASE GwSend \/ GwMarkDelivered \/ GwAck \/ GwAckRead \/ GwBegin
      <4>1. gw' = Nothing \/ gw'.pc \in {"sent", "acked", "begin"}
        BY <3>3 DEF GwSend, GwMarkDelivered, GwAck, GwAckRead, GwBegin, At
      <4> QED BY <4>1, Resting, Zenon
    <3> QED BY <1>4, <3>1, <3>2, <3>3, Zenon DEF Gateway
  <2> QED BY <2>1, <2>2, <2>3, TrueLeftAlone, Zenon DEF Truthful
<1>5. CASE Agent
  <2>1. gw' = gw
    BY <1>5, Zenon DEF Agent, AgentTake, AgentAck, AgentStart, AgentExecute, AgentStore, AgentReport,
                AgentReplay, streamVars
  <2>2. (gw.pc = "result" =>
            gw.status \in Results /\ (gw.status = "succeeded" => gw.op \in applied))'
    BY <1>1, <2>1, Zenon DEF Truthful, Results
  <2>3. (\A o \in Changes : local[o] = "succeeded" => o \in applied)'
    <3>1. CASE AgentTake
      BY <1>1, <1>t, <3>1, Zenon DEF AgentTake, Truthful
    <3>2. CASE AgentStart
      BY <1>1, <1>t, <3>2, Zenon DEF AgentStart, Truthful
    <3>3. CASE AgentStore
      BY <1>1, <1>t, <3>3, Zenon DEF AgentStore, Truthful
    <3>4. CASE AgentAck \/ AgentExecute \/ AgentReport \/ AgentReplay
      <4>1. local' = local
        BY <3>4, Zenon DEF AgentAck, AgentExecute, AgentReport, AgentReplay
      <4> QED BY <4>1, TrueLeftAlone, Zenon
    <3> QED BY <1>5, <3>1, <3>2, <3>3, <3>4, Zenon DEF Agent
  <2>4. /\ (agent.pc = "store" => agent.status \in Results
                                  /\ (agent.status = "succeeded" => agent.op \in applied))'
        /\ (agent.pc = "report" => local[agent.op] \in Results)'
    <3>1. CASE AgentTake
      <4>1. Head(down) \in Changes
        BY <3>1, TakenFrom, Zenon DEF AgentTake, EmergencyTypeOK
      <4>2. CASE local[Head(down)] \in {"succeeded", "failed"}
        <5>1. agent' = At("report", Head(down), "none", 0, 0) /\ local' = local
          BY <3>1, <4>2, Zenon DEF AgentTake
        <5> QED BY <4>2, <5>1, Zenon DEF At, Results
      <4>3. CASE local[Head(down)] \notin {"succeeded", "failed"}
        <5>1. local[Head(down)] \in {"none", "pending", "running"}
          BY <1>t, <4>1, <4>3, Zenon
        <5>2. agent' \in {At("ack", Head(down), "none", 0, 0), At("start", Head(down), "none", 0, 0)}
          BY <3>1, <5>1, Zenon DEF AgentTake
        <5> QED BY <5>2 DEF At
      <4> QED BY <4>2, <4>3, Zenon
    <3>2. CASE AgentExecute
      BY <3>2 DEF AgentExecute, At, Results
    <3>3. CASE AgentStore
      <4>1. agent.op \in Changes /\ agent.status \in Results
        BY <1>h, <3>3, Zenon DEF AgentStore, Truthful
      <4>2. agent'.pc = "report" /\ agent'.op = agent.op /\ local'[agent.op] = agent.status
        BY <1>t, <3>3, <4>1, Zenon DEF AgentStore, At
      <4> QED BY <4>1, <4>2, Zenon DEF Results
    <3>4. CASE AgentAck \/ AgentStart \/ AgentReport
      <4>1. agent'.pc \in {"start", "execute", "idle"}
        BY <3>4, Resting DEF AgentAck, AgentStart, AgentReport, At
      <4> QED BY <4>1, Zenon
    <3>5. CASE AgentReplay
      <4>1. agent' = agent \/ agent'.pc = "start"
        BY <3>5 DEF AgentReplay, At
      <4>2. local' = local
        BY <3>5, Zenon DEF AgentReplay
      <4> QED BY <4>1, <4>2, TrueLeftAlone, Zenon
    <3> QED BY <1>5, <3>1, <3>2, <3>3, <3>4, <3>5, Zenon DEF Agent
  <2>5. (\A i \in DOMAIN up : up[i].kind = "result" =>
            up[i].res \in Results /\ (up[i].res = "succeeded" => up[i].op \in applied))'
    <3>1. ASSUME NEW m \in Frames, AgentSends(m),
                 m.kind = "result" => m.res \in Results /\ (m.res = "succeeded" => m.op \in applied)
          PROVE  (\A i \in DOMAIN up : up[i].kind = "result" =>
                     up[i].res \in Results /\ (up[i].res = "succeeded" => up[i].op \in applied))'
      <4>1. \A i \in DOMAIN up' : (i \in DOMAIN up /\ up'[i] = up[i]) \/ up'[i] = m
        BY <3>1, AddedTo DEF AgentSends, EmergencyTypeOK
      <4> QED BY <1>1, <3>1, <4>1, Zenon DEF Truthful
    <3>2. ASSUME NEW o \in Changes, AgentSends(AckOf(o))
          PROVE  (\A i \in DOMAIN up : up[i].kind = "result" =>
                     up[i].res \in Results /\ (up[i].res = "succeeded" => up[i].op \in applied))'
      <4>1. AckOf(o) \in Frames /\ AckOf(o).kind # "result"
        BY Zenon DEF AckOf, Frames
      <4> QED BY <3>1, <3>2, <4>1, Zenon
    <3>3. CASE AgentAck
      BY <1>h, <3>2, <3>3, Zenon DEF AgentAck
    <3>4. CASE AgentReport
      <4>1. agent.op \in Changes /\ local[agent.op] \in Results
        BY <1>h, <3>4, Zenon DEF AgentReport, Truthful
      <4>2. ResultOf(agent.op, local[agent.op]) \in Frames
        BY <4>1, Zenon DEF ResultOf, Frames, Results
      <4>3. /\ ResultOf(agent.op, local[agent.op]).res = local[agent.op]
            /\ ResultOf(agent.op, local[agent.op]).op = agent.op
        BY Zenon DEF ResultOf
      <4>4. local[agent.op] = "succeeded" => agent.op \in applied
        BY <4>1, Zenon DEF Truthful
      <4> QED BY <3>1, <3>4, <4>1, <4>2, <4>3, <4>4, Zenon DEF AgentReport
    <3>5. CASE AgentReplay
      <4>1. PICK o \in Changes : AgentSends(AckOf(o)) \/ up' = up
        BY <3>5, Zenon DEF AgentReplay, EmergencyTypeOK
      <4>2. local' = local
        BY <3>5, Zenon DEF AgentReplay
      <4> QED BY <3>2, <4>1, <4>2, TrueLeftAlone, Zenon
    <3>6. CASE AgentTake \/ AgentStart \/ AgentExecute \/ AgentStore
      <4>1. up' = up
        BY <3>6, Zenon DEF AgentTake, AgentStart, AgentExecute, AgentStore, streamVars
      <4> QED BY <1>1, <4>1, Zenon DEF Truthful, Results
    <3> QED BY <1>5, <3>3, <3>4, <3>5, <3>6, Zenon DEF Agent
  <2> QED BY <2>2, <2>3, <2>4, <2>5, Zenon DEF Truthful
<1> QED BY <1>2, <1>3, <1>4, <1>5, NextGroups, Zenon

-----------------------------------------------------------------------------
(* The release of a lock, and the attempts at a result. *)

\* Only the observe window adds to the operations observed to their end.
LEMMA AgedStep ==
    ASSUME EmergencyInv, Next, \A o \in Changes : ~ObserveWindowPasses(o)
    PROVE  aged' = aged
<1>1. CASE \E o \in Changes : Request(o)
  BY <1>1, Zenon DEF Request, RequestCheck, CreateEmergency, Dispatch, DispatchOffline, MarkQueued,
              EnterQueued, RequestAbandoned, Finish, storeVars
<1>2. CASE Gateway /\ ~GwConverge
  BY <1>2, Zenon DEF Gateway, GwSend, GwMarkDelivered, GwAck, GwAckRead, GwBegin, GwResult, storeVars
<1>3. CASE GwConverge
  BY <1>3, ConvergeStep, Zenon
<1>4. CASE Agent
  BY <1>4, Zenon DEF Agent, AgentTake, AgentAck, AgentStart, AgentExecute, AgentStore, AgentReport,
              AgentReplay, storeVars
<1>5. CASE Stream
  BY <1>5, Zenon DEF Stream, Connect, StreamLost, Teardown, AgentNotice, AgentCrash, storeVars
<1>6. CASE Race
  BY <1>6, Zenon DEF Race, SweepRead, CancelRead, ReleaseRead, Promote, SweepFinish, CancelCommit,
              ReleaseCommit, StandardGate, StandardCreate, StandardFinish, Finish, storeVars
<1> QED BY <1>1, <1>2, <1>3, <1>4, <1>5, <1>6, NextGroups, Zenon

\* Only a read puts a release in hand.
LEMMA ReleaseInHand ==
    ASSUME Next, \A o \in Changes : ~ReleaseRead(o)
    PROVE  release' \in {release, Nothing}
<1>1. CASE \E o \in Changes : Request(o)
  BY <1>1, Zenon DEF Request, RequestCheck, CreateEmergency, Dispatch, DispatchOffline, MarkQueued,
              EnterQueued, RequestAbandoned, raceVars
<1>2. CASE Gateway
  BY <1>2, Zenon DEF Gateway, GwSend, GwMarkDelivered, GwAck, GwAckRead, GwBegin, GwResult, GwConverge,
              raceVars
<1>3. CASE Agent
  BY <1>3, Zenon DEF Agent, AgentTake, AgentAck, AgentStart, AgentExecute, AgentStore, AgentReport,
              AgentReplay, raceVars
<1>4. CASE Stream
  BY <1>4, Zenon DEF Stream, Connect, StreamLost, Teardown, AgentNotice, AgentCrash, raceVars
<1>5. CASE Race
  BY <1>5, Zenon DEF Race, SweepRead, CancelRead, ObserveWindowPasses, Promote, SweepFinish, CancelCommit,
              ReleaseCommit, StandardGate, StandardCreate, StandardFinish, raceVars
<1> QED BY <1>1, <1>2, <1>3, <1>4, <1>5, NextGroups, Zenon

LEMMA ReleasesStep ==
    ASSUME EmergencyInv, Next
    PROVE  ReleasesEnded'
<1> Typed /\ Conjuncts
  BY Zenon DEF EmergencyInv, Typed, Conjuncts
<1> USE DEF Conjuncts
<1>0. Nothing.op \notin Changes /\ Nothing' = Nothing
  BY EmergencyAssumption, Resting, Zenon DEF Nothing
<1>1. ASSUME NEW o \in Changes, ReleaseRead(o) PROVE ReleasesEnded'
  <2>1. /\ UNCHANGED <<op, intent, aged>> /\ release'.op = o
        /\ ~intent[o].released /\ intent[o].effect = "UNKNOWN" /\ release = Nothing
    BY <1>1 DEF ReleaseRead, storeVars, At
  <2>2. op[o].status # "succeeded"
    BY <2>1, Zenon DEF AppliedIsTrue
  <2> QED BY <2>1, <2>2, Zenon DEF ReleasesEnded
<1>2. ASSUME NEW o \in Changes, ObserveWindowPasses(o) PROVE ReleasesEnded'
  <2>1. /\ UNCHANGED <<op, intent, release>> /\ aged' = aged \cup {o} /\ release.op # o
        /\ IsTerminal(op[o].status)
    BY <1>2, Zenon DEF ObserveWindowPasses, raceVars, Live
  <2> QED BY <1>0, <2>1, Zenon DEF ReleasesEnded
<1>3. ASSUME NEW o \in Changes, CreateEmergency(o) PROVE ReleasesEnded'
  <2>1. /\ intent' = intent /\ UNCHANGED <<aged, release>> /\ ~Created(o)
        /\ \A p \in Changes : p # o => op'[p] = op[p]
    BY <1>3, CreationStep, Zenon
  <2>2. o \notin aged
    BY <2>1, Zenon DEF ReleasesEnded, IsTerminal, Created
  <2>3. aged \subseteq Changes
    BY Zenon DEF EmergencyTypeOK
  <2> QED BY <1>0, <2>1, <2>2, <2>3, Zenon DEF ReleasesEnded
<1>4. CASE \A o \in Changes : ~ReleaseRead(o) /\ ~ObserveWindowPasses(o) /\ ~CreateEmergency(o)
  <2>1. aged' = aged /\ release' \in {release, Nothing} /\ aged \subseteq Changes
    BY <1>4, AgedStep, ReleaseInHand, Zenon DEF EmergencyTypeOK
  <2>2. \A p \in Changes :
          /\ IsTerminal(op[p].status) => op'[p].status = op[p].status
          /\ intent'[p].released => intent[p].released \/ release' = Nothing
    BY <1>4, StoreStep, Zenon DEF Advances
  <2> QED BY <1>0, <2>1, <2>2 DEF ReleasesEnded
<1> QED BY <1>1, <1>2, <1>3, <1>4, Zenon

\* While a result is in the gateway's hands nobody else moves the loop.
LEMMA ResultInHand ==
    ASSUME EmergencyInv, Next, gw'.pc = "result"
    PROVE  GwResult \/ GwConverge \/ (gw' = gw /\ ~GwBegin)
<1>1. CASE \E o \in Changes : Request(o)
  <2>1. gw' = gw
    BY <1>1, Zenon DEF Request, RequestCheck, CreateEmergency, Dispatch, DispatchOffline, MarkQueued,
                EnterQueued, RequestAbandoned, streamVars
  <2> QED BY <2>1, Zenon DEF GwBegin
<1>2. CASE Race
  <2>1. gw' = gw
    BY <1>2, Zenon DEF Race, SweepRead, CancelRead, ReleaseRead, ObserveWindowPasses, Promote, SweepFinish,
                CancelCommit, ReleaseCommit, StandardGate, StandardCreate, StandardFinish, streamVars
  <2> QED BY <2>1, Zenon DEF GwBegin
<1>3. CASE Agent
  <2>1. gw' = gw
    BY <1>3, Zenon DEF Agent, AgentTake, AgentAck, AgentStart, AgentExecute, AgentStore, AgentReport,
                AgentReplay, streamVars
  <2> QED BY <2>1, Zenon DEF GwBegin
<1>4. CASE Stream
  <2>1. gw' = gw \/ gw' = Nothing
    BY <1>4, Zenon DEF Stream, Connect, StreamLost, Teardown, AgentNotice, AgentCrash
  <2>2. gw' = gw
    BY <2>1, Resting, Zenon
  <2> QED BY <2>2, Zenon DEF GwBegin
<1>5. CASE GwSend \/ GwMarkDelivered \/ GwAck \/ GwAckRead \/ GwBegin
  <2>1. gw' = Nothing \/ gw'.pc \in {"sent", "acked", "begin"}
    BY <1>5 DEF GwSend, GwMarkDelivered, GwAck, GwAckRead, GwBegin, At
  <2> QED BY <2>1, Resting, Zenon
<1> QED BY <1>1, <1>2, <1>3, <1>4, <1>5, NextGroups, Zenon DEF Gateway

LEMMA AttemptsStep ==
    ASSUME EmergencyInv, Next
    PROVE  AttemptsSuffice'
<1> Typed /\ Conjuncts
  BY Zenon DEF EmergencyInv, Typed, Conjuncts
<1> USE DEF Conjuncts
<1> SUFFICES ASSUME gw'.pc = "result" PROVE AttemptsSuffice'
  BY Zenon DEF AttemptsSuffice
<1>1. \A o \in Changes : Progress(o) \in 0 .. 2
  BY DEF Progress
<1>2. CASE GwResult
  <2>1. Head(up).op \in Changes
    <3>1. Head(up) \in Frames
      BY <1>2, TakenFrom, Zenon DEF GwResult, EmergencyTypeOK
    <3> QED BY <3>1, Zenon DEF Frames
  <2>2. PICK o \in Changes : o = Head(up).op
    BY <2>1, Zenon
  <2>3. gw'.op = o /\ gw'.version = op[o].version /\ gw'.try = 1 /\ op' = op
    BY <1>2, <2>2, Zenon DEF GwResult, At, storeVars
  <2>4. Progress(o)' = Progress(o)
    BY <2>3, Zenon DEF Progress
  <2>5. Progress(o) \in 0 .. 2
    BY <1>1, Zenon
  <2>6. gw'.try \in 1 .. MaxAttempts /\ Progress(o)' >= gw'.try - 1
    <3> HIDE DEF Conjuncts
    <3> QED BY <2>3, <2>4, <2>5 DEF MaxAttempts
  <2> QED BY <2>3, <2>6, Zenon DEF AttemptsSuffice
<1>3. CASE GwConverge
  <2>1. gw.pc # "idle"
    BY <1>3, Zenon DEF GwConverge
  <2>2. PICK o \in Changes : o = gw.op
    BY <2>1, Zenon DEF Followed, Held
  <2>3. /\ op' = op /\ gw'.op = o
        /\ gw'.version = op[o].version /\ gw'.try = gw.try + 1
        /\ gw.try < MaxAttempts /\ Progress(o) >= gw.try
    BY <1>3, <2>2, ConvergeStep, Resting, Zenon
  <2>4. gw.try \in 1 .. MaxAttempts
    BY <1>3, Zenon DEF AttemptsSuffice, GwConverge
  <2>5. Progress(o)' = Progress(o)
    BY <2>3, Zenon DEF Progress
  <2>6. Progress(o) \in 0 .. 2
    BY <1>1, Zenon
  <2>7. gw'.try \in 1 .. MaxAttempts /\ Progress(o)' >= gw'.try - 1
    BY <2>3, <2>4, <2>5, <2>6 DEF MaxAttempts
  <2> QED BY <2>3, <2>7, Zenon DEF AttemptsSuffice
<1>4. CASE gw' = gw /\ ~GwBegin /\ ~GwConverge
  <2>1. gw.pc = "result"
    BY <1>4, Zenon
  <2>2. PICK o \in Changes : o = gw.op
    BY <2>1, Zenon DEF Followed, Held
  <2>3. /\ gw.try \in 1 .. MaxAttempts /\ Progress(o) >= gw.try - 1 /\ Created(o)
        /\ op[o].version # gw.version => Progress(o) >= gw.try \/ Settled(o)
    BY <2>1, <2>2, Zenon DEF AttemptsSuffice, Followed, Held
  <2>4. CASE \E p \in Changes : CreateEmergency(p)
    <3>1. op'[o] = op[o] /\ intent' = intent
      BY <2>3, <2>4, CreationStep, Zenon
    <3>2. Progress(o)' = Progress(o) /\ Settled(o)' = Settled(o)
      BY <3>1, Zenon DEF Progress, Settled
    <3> QED BY <1>4, <2>2, <2>3, <3>1, <3>2, Zenon DEF AttemptsSuffice
  <2>5. CASE \A p \in Changes : ~CreateEmergency(p)
    <3>1. Advances(o) /\ Overtakes(o)
      BY <1>4, <2>5, StoreStep, Zenon
    <3>2. Progress(o)' >= Progress(o)
      <4>1. op'[o].status = "pending" => op[o].status = "pending"
        <5>1. op'[o].version # op[o].version \/ op'[o].status # "pending" \/ op[o].status = "pending"
          BY <3>1, Zenon DEF Advances, RowsInOrder
        <5>2. ASSUME op'[o].status = "pending", op[o].status # "pending" PROVE FALSE
          <6>1. ~IsTerminal(op'[o].status) /\ op'[o].version # op[o].version
            BY <5>1, <5>2, Zenon DEF IsTerminal
          <6>2. Progress(o)' > Progress(o)
            BY <3>1, <6>1, Zenon DEF Overtakes, Advances
          <6>3. Progress(o)' = 0
            BY <5>2, <6>1, Zenon DEF Progress
          <6> QED BY <1>1, <6>2, <6>3
        <5> QED BY <5>2, Zenon
      <4>2. IsTerminal(op[o].status) => op'[o].status = op[o].status
        BY <3>1, Zenon DEF Advances
      <4> QED BY <4>1, <4>2 DEF Progress
    <3>3. Settled(o) => Settled(o)'
      <4>1. ASSUME Settled(o) PROVE Settled(o)'
        <5>1. release.op # o
          BY <4>1, Zenon DEF Settled, ReleasesEnded
        <5>2. intent'[o].released /\ intent'[o].effect = intent[o].effect
          BY <3>1, <4>1, <5>1, Zenon DEF Advances, Settled
        <5> QED BY <4>1, <5>2, Zenon DEF Settled
      <4> QED BY <4>1, Zenon
    <3>4. op'[o].version # op[o].version => Progress(o)' > Progress(o) \/ Settled(o)'
      BY <3>1, Zenon DEF Overtakes, Settled
    <3>5. Progress(o)' \in 0 .. 2
      BY DEF Progress
    <3>6. gw'.op = o /\ gw'.try = gw.try /\ gw'.version = gw.version
      BY <1>4, <2>2, Zenon
    <3>a. Progress(o) \in 0 .. 2
      BY <1>1, Zenon
    <3>7. gw'.try \in 1 .. MaxAttempts /\ Progress(o)' >= gw'.try - 1
      BY <2>3, <3>2, <3>5, <3>6, <3>a DEF MaxAttempts
    <3>8. ASSUME op'[o].version # gw'.version, ~Settled(o)'
          PROVE  Progress(o)' >= gw'.try
      <4>1. Progress(o) >= gw.try \/ Progress(o)' > Progress(o)
        BY <2>3, <3>3, <3>4, <3>6, <3>8, Zenon
      <4>2. gw.try \in 1 .. MaxAttempts /\ Progress(o) >= gw.try - 1
        BY <2>3, Zenon
      <4> HIDE DEF Conjuncts
      <4> QED BY <3>2, <3>5, <3>6, <3>a, <4>1, <4>2 DEF MaxAttempts
    <3> QED BY <3>6, <3>7, <3>8, Zenon DEF AttemptsSuffice
  <2> QED BY <2>4, <2>5, Zenon
<1> QED BY <1>2, <1>3, <1>4, ResultInHand, Zenon

-----------------------------------------------------------------------------
(* The invariant is inductive. *)

LEMMA EmergencyInit == Init => EmergencyInv
<1> SUFFICES ASSUME Init PROVE EmergencyInv
  BY Zenon
<1>1. /\ \A o \in Changes : op[o].status = "absent" /\ op[o].version = 0
      /\ \A o \in Changes : intent[o].effect = "UNKNOWN" /\ intent[o].released = FALSE
      /\ \A o \in Changes : req[o] = "idle" /\ local[o] = "none"
  BY Zenon DEF Init
<1>2. EmergencyTypeOK
  <2>1. op \in [Changes -> OpRows]
    BY Zenon DEF Init, OpRows
  <2>2. intent \in [Changes -> IntentRows]
    BY Zenon DEF Init, IntentRows, Deliveries, Effects
  <2>3. <<>> \in Seq(Changes) /\ <<>> \in Seq(Frames) /\ 0 \in 0 .. MaxFaults
    BY EmergencyAssumption
  <2> QED BY <2>1, <2>2, <2>3, Resting, Zenon DEF Init, EmergencyTypeOK
<1>3. Followed
  <2>1. gw.pc = "idle" /\ agent.pc = "down"
    BY Resting, Zenon DEF Init
  <2>2. InRows(chan) /\ InRows(down) /\ UpFollowed
    BY DEF Init, InRows, UpFollowed
  <2> QED BY <1>1, <2>1, <2>2, Zenon DEF Init, Followed, RequestsFollowed, LocalFollowed, Created
<1>4. Truthful
  <2>1. gw.pc = "idle" /\ agent.pc = "down" /\ up = <<>>
    BY Resting, Zenon DEF Init
  <2> QED BY <1>1, <2>1, SMTT(30) DEF Truthful
<1>5. RowsInOrder /\ AppliedIsTrue
  BY <1>1 DEF RowsInOrder, AppliedIsTrue
<1>6. ReleasesEnded
  BY <1>1, Zenon DEF Init, ReleasesEnded
<1>7. OneLiveOperation /\ TargetLocked
  BY <1>1, Zenon DEF Init, OneLiveOperation, TargetLocked, Live, HoldsTarget, Created
<1>8. AttemptsSuffice
  BY Resting, Zenon DEF Init, AttemptsSuffice
<1> QED BY <1>2, <1>3, <1>4, <1>5, <1>6, <1>7, <1>8, Zenon DEF EmergencyInv, Conjuncts

LEMMA EmergencyStep == EmergencyInv /\ [Next]_vars => EmergencyInv'
<1> SUFFICES ASSUME EmergencyInv, [Next]_vars PROVE EmergencyInv'
  BY Zenon
<1>1. CASE Next
  <2>1. Typed'
    BY <1>1, NextGroups, RequestTypes, RaceTypes, GatewayTypes, AgentTypes, StreamTypes, Zenon
  <2>2. Followed'
    BY <1>1, NextGroups, FollowedByRequests, FollowedByRacers, FollowedByGateway, FollowedByAgent,
       FollowedByStream, Zenon
  <2>3. Truthful' /\ RowsInOrder' /\ AppliedIsTrue'
    BY <1>1, TruthfulStep, RowsStep, Zenon
  <2>4. ReleasesEnded' /\ OneLiveOperation' /\ TargetLocked' /\ AttemptsSuffice'
    BY <1>1, ReleasesStep, ExclusionStep, AttemptsStep, Zenon
  <2> QED BY <2>1, <2>2, <2>3, <2>4, Zenon DEF EmergencyInv, Conjuncts, Typed
<1>2. CASE UNCHANGED vars
  <2> Conjuncts
    BY Zenon DEF EmergencyInv
  <2>1. EmergencyTypeOK'
    BY <1>2, Zenon DEF Conjuncts, EmergencyTypeOK, vars
  <2>2. Followed'
    BY <1>2, Zenon DEF Conjuncts, Followed, RequestsFollowed, LocalFollowed, InRows, UpFollowed, Held,
                Created, Nothing, vars
  <2>3. Truthful'
    BY <1>2, Zenon DEF Conjuncts, Truthful, Results, vars
  <2>4. RowsInOrder' /\ AppliedIsTrue' /\ ReleasesEnded'
    BY <1>2, Zenon DEF Conjuncts, RowsInOrder, AppliedIsTrue, ReleasesEnded, Nothing, vars
  <2>5. OneLiveOperation' /\ TargetLocked'
    BY <1>2, Zenon DEF Conjuncts, OneLiveOperation, TargetLocked, Live, HoldsTarget, Created, Conflict,
                vars
  <2>6. AttemptsSuffice'
    BY <1>2, Zenon DEF Conjuncts, AttemptsSuffice, Progress, Settled, vars
  <2> QED BY <2>1, <2>2, <2>3, <2>4, <2>5, <2>6, Zenon DEF EmergencyInv, Conjuncts
<1> QED BY <1>1, <1>2, Zenon

LEMMA EmergencyInvariant == Spec => []EmergencyInv
BY EmergencyInit, EmergencyStep, PTL DEF Spec

-----------------------------------------------------------------------------
(* The theorems. *)

\* Every row, frame and program counter of the emergency path always holds a
\* value the code writes there.
THEOREM EmergencyTypes == Spec => []EmergencyTypeOK
<1>1. EmergencyInv => EmergencyTypeOK
  BY Zenon DEF EmergencyInv, Conjuncts
<1> QED BY <1>1, EmergencyInvariant, PTL

\* An effect that finishEmergencyResult and ConvergeEmergencyResult record as
\* APPLIED was made in the cluster, whatever the sweep, the cancel and the
\* release of the lock did in between.
THEOREM EffectsAreTrue == Spec => []AppliedIsTrue
<1>1. EmergencyInv => AppliedIsTrue
  BY Zenon DEF EmergencyInv, Conjuncts
<1> QED BY <1>1, EmergencyInvariant, PTL

\* The two creation transactions keep the definition to one live operation,
\* emergency or standard.
THEOREM OneOperationLives == Spec => []OneLiveOperation
<1>1. EmergencyInv => OneLiveOperation
  BY Zenon DEF EmergencyInv, Conjuncts
<1> QED BY <1>1, EmergencyInvariant, PTL

\* listActiveEmergencyIntents keeps two changes of one target apart until the
\* effect of the older one is known or its lock is released.
THEOREM TargetsExclusive == Spec => []TargetLocked
<1>1. EmergencyInv => TargetLocked
  BY Zenon DEF EmergencyInv, Conjuncts
<1> QED BY <1>1, EmergencyInvariant, PTL

\* No writer changes the status of an operation that has ended, and none cancels
\* a running one.
THEOREM EndedForGood == Spec => TerminalStatusKept
<1> DEFINE Kept == \A o \in Changes :
                      /\ Created(o) /\ ~Live(o) => op'[o].status = op[o].status
                      /\ op[o].status = "running" => op'[o].status # "cancelled"
<1>1. EmergencyInv /\ [Next]_vars => [Kept]_vars
  <2> SUFFICES ASSUME EmergencyInv, Next PROVE Kept
    BY Zenon
  <2>1. CASE \A o \in Changes : ~CreateEmergency(o)
    BY <2>1, StoreStep, Zenon DEF Advances, Live
  <2>2. ASSUME NEW o \in Changes, CreateEmergency(o) PROVE Kept
    BY <2>2, CreationStep, Zenon DEF Created
  <2> QED BY <2>1, <2>2, Zenon
<1> QED BY <1>1, EmergencyInvariant, PTL DEF Spec, TerminalStatusKept

\* A known effect is rewritten only by ReleaseLock, and only for the operation
\* whose lock it releases.
THEOREM KnownForGood == Spec => KnownEffectKept
<1> DEFINE Kept == \A o \in Changes :
                      intent[o].effect # "UNKNOWN" /\ intent'[o].effect # intent[o].effect
                      => release.op = o /\ release' = Nothing
<1>1. EmergencyInv /\ [Next]_vars => [Kept]_vars
  <2> SUFFICES ASSUME EmergencyInv, Next PROVE Kept
    BY Zenon
  <2>1. CASE \A o \in Changes : ~CreateEmergency(o)
    BY <2>1, StoreStep, Zenon DEF Advances
  <2>2. ASSUME NEW o \in Changes, CreateEmergency(o) PROVE Kept
    BY <2>2, CreationStep, Zenon
  <2> QED BY <2>1, <2>2, Zenon
<1> QED BY <1>1, EmergencyInvariant, PTL DEF Spec, KnownEffectKept

\* maxAttempts = 3 is enough: the last attempt of finishEmergencyResult never
\* loses its compare-and-swap, so a result processed to its end leaves the
\* effect known.
THEOREM AttemptsAreEnough == Spec => ResultSettles
<1> DEFINE Settles == GwConverge => gw'.pc = "result" \/ intent'[gw.op].effect # "UNKNOWN"
<1>1. EmergencyInv /\ [Next]_vars => [Settles]_vars
  <2> SUFFICES ASSUME EmergencyInv, GwConverge
               PROVE  gw'.pc = "result" \/ intent'[gw.op].effect # "UNKNOWN"
    BY Zenon
  <2> QED BY ConvergeStep, Zenon
<1> QED BY <1>1, EmergencyInvariant, PTL DEF Spec, ResultSettles

-----------------------------------------------------------------------------
(* The rows' versions and edges. *)

\* The statuses of an emergency operation: it has no preflight and no cancelling.
PathStatus(s) == s \in {"absent", "pending", "queued", "running"} \/ IsTerminal(s)
OnPath == \A o \in Changes : PathStatus(op[o].status)

\* What RowsFollowEdges says of one row, and that the row stays on the path.
Follows(p) ==
    /\ PathStatus(op'[p].status)
    /\ op'[p] # op[p] =>
          /\ op'[p].version > op[p].version
          /\ \/ ~Created(p) /\ op'[p].status = InitialStatus /\ op'[p].version = 1
             \/ Walk(op[p].status, op'[p].status)
             \/ IsTerminal(op[p].status) /\ op'[p].status = op[p].status

\* A row that is left alone.
LEMMA StandsStill ==
    ASSUME OnPath, NEW p \in Changes, op'[p] = op[p]
    PROVE  Follows(p)
BY Zenon DEF OnPath, Follows

\* One edge, one version.
LEMMA OneEdge ==
    ASSUME Typed, OnPath, NEW o \in Changes,
           NEW s \in {"queued", "running", "failed", "timeout", "cancelled"},
           CanTransitionTo(op[o].status, s),
           op' = [op EXCEPT ![o] = [status |-> s, version |-> op[o].version + 1]]
    PROVE  \A p \in Changes : Follows(p)
<1>1. op \in [Changes -> OpRows] /\ op[o].version \in Nat
  BY RowFields, Zenon DEF Typed, EmergencyTypeOK
<1>2. s \in Statuses /\ PathStatus(s)
  BY Zenon DEF Statuses, PathStatus, IsTerminal
<1>3. op[o].version + 1 \in Nat /\ op[o].version + 1 > op[o].version
  BY <1>1
<1>4. /\ op'[o].status = s /\ op'[o].version = op[o].version + 1
      /\ \A p \in Changes : p # o => op'[p] = op[p]
  BY <1>1, <1>2, <1>3, OpWritten, Zenon
<1>5. Follows(o)
  BY <1>2, <1>3, <1>4, Zenon DEF Follows, Walk
<1> QED BY <1>4, <1>5, StandsStill, Zenon

\* The compare-and-swaps: Swap, Finish and CancelCommit.
LEMMA SwapFollows ==
    ASSUME Typed, OnPath, NEW o \in Changes, NEW v, NEW s \in {"queued", "running"}, Swap(o, v, s)
    PROVE  \A p \in Changes : Follows(p)
<1>1. CASE op[o].version = v /\ CanTransitionTo(op[o].status, s)
  <2>1. op' = [op EXCEPT ![o] = [status |-> s, version |-> op[o].version + 1]]
    BY <1>1, Zenon DEF Swap
  <2> QED BY <1>1, <2>1, OneEdge, Zenon
<1>2. CASE ~(op[o].version = v /\ CanTransitionTo(op[o].status, s))
  BY <1>2, StandsStill, Zenon DEF Swap
<1> QED BY <1>1, <1>2, Zenon

LEMMA FinishFollows ==
    ASSUME Typed, OnPath, NEW o \in Changes, NEW v, NEW s \in {"failed", "timeout"}, NEW e,
           Finish(o, v, s, e)
    PROVE  \A p \in Changes : Follows(p)
<1>1. CASE op[o].version = v /\ CanTransitionTo(op[o].status, s)
  <2>1. op' = [op EXCEPT ![o] = [status |-> s, version |-> op[o].version + 1]]
    BY <1>1, Zenon DEF Finish
  <2> QED BY <1>1, <2>1, OneEdge, Zenon
<1>2. CASE ~(op[o].version = v /\ CanTransitionTo(op[o].status, s))
  BY <1>2, StandsStill, Zenon DEF Finish
<1> QED BY <1>1, <1>2, Zenon

LEMMA CancelFollows ==
    ASSUME WriterInv, OnPath, CancelCommit
    PROVE  \A p \in Changes : Follows(p)
<1>0. Typed
  BY Zenon DEF WriterInv
<1>1. PICK o \in Changes : o = cancel.op
  BY Zenon DEF CancelCommit, WriterInv, Followed, Held
<1>2. CASE op[o].version = cancel.version /\ CanTransitionTo(op[o].status, "cancelled")
  <2>1. op' = [op EXCEPT ![o] = [status |-> "cancelled", version |-> op[o].version + 1]]
    BY <1>1, <1>2, Zenon DEF CancelCommit
  <2> QED BY <1>0, <1>2, <2>1, OneEdge, Zenon
<1>3. CASE ~(op[o].version = cancel.version /\ CanTransitionTo(op[o].status, "cancelled"))
  BY <1>1, <1>3, StandsStill, Zenon DEF CancelCommit
<1> QED BY <1>2, <1>3, Zenon

\* ReleaseLock writes ended rows only, and a proven release raises the version.
LEMMA ReleaseFollows ==
    ASSUME WriterInv, OnPath, ReleaseCommit
    PROVE  \A p \in Changes : Follows(p)
<1> DEFINE proven == release.status = "NOT_APPLIED_PROVEN"
<1>1. PICK o \in Changes : o = release.op
  BY Zenon DEF ReleaseCommit, WriterInv, Followed, Held
<1>2. op \in [Changes -> OpRows] /\ op[o].version \in Nat
  BY RowFields, Zenon DEF WriterInv, Typed, EmergencyTypeOK
<1>3. CASE IsTerminal(op[o].status) /\ proven /\ op' # op
  <2>1. op' = [op EXCEPT ![o] = [op[o] EXCEPT !.version = op[o].version + 1]]
    BY <1>1, <1>3, Zenon DEF ReleaseCommit
  <2>2. /\ [op[o] EXCEPT !.version = op[o].version + 1].status = op[o].status
        /\ [op[o] EXCEPT !.version = op[o].version + 1].version = op[o].version + 1
    BY <1>2, Zenon DEF OpRows
  <2>3. /\ op'[o].status = op[o].status /\ op'[o].version = op[o].version + 1
        /\ \A p \in Changes : p # o => op'[p] = op[p]
    BY <1>2, <2>1, <2>2, Zenon
  <2>4. op[o].version + 1 > op[o].version
    BY <1>2
  <2>5. Follows(o)
    BY <1>3, <2>3, <2>4, Zenon DEF Follows, PathStatus
  <2> QED BY <2>3, <2>5, StandsStill, Zenon
<1>4. CASE ~(IsTerminal(op[o].status) /\ proven /\ op' # op)
  <2>1. op' = op
    BY <1>1, <1>4, Zenon DEF ReleaseCommit
  <2> QED BY <2>1, StandsStill, Zenon
<1> QED BY <1>3, <1>4, Zenon

\* A result walks the legal hops, or resolves the effect of an ended operation.
LEMMA ConvergeFollows ==
    ASSUME Typed, OnPath, NEW o \in Changes, Created(o), NEW s \in Results, NEW e,
           ConvergeWrite(o, s, e)
    PROVE  \A p \in Changes : Follows(p)
<1>1. op \in [Changes -> OpRows] /\ op[o].version \in Nat /\ op[o].status \in Statuses
  BY RowFields, Zenon DEF Typed, EmergencyTypeOK, Created
<1>2. CASE IsTerminal(op[o].status)
  <2>1. op' = [op EXCEPT ![o] = [op[o] EXCEPT !.version = op[o].version + 1]]
    BY <1>2, Zenon DEF ConvergeWrite, EffectResolved
  <2>2. /\ [op[o] EXCEPT !.version = op[o].version + 1].status = op[o].status
        /\ [op[o] EXCEPT !.version = op[o].version + 1].version = op[o].version + 1
    BY <1>1, Zenon DEF OpRows
  <2>3. /\ op'[o].status = op[o].status /\ op'[o].version = op[o].version + 1
        /\ \A p \in Changes : p # o => op'[p] = op[p]
    BY <1>1, <2>1, <2>2, Zenon
  <2>4. op[o].version + 1 > op[o].version
    BY <1>1
  <2>5. Follows(o)
    BY <1>2, <2>3, <2>4, Zenon DEF Follows, PathStatus
  <2> QED BY <2>3, <2>5, StandsStill, Zenon
<1>3. CASE ~IsTerminal(op[o].status)
  <2> DEFINE v == op[o].version + HopsToRunning(op[o].status) + 1
  <2>1. op' = [op EXCEPT ![o] = [status |-> s, version |-> v]]
    BY <1>3, Zenon DEF ConvergeWrite, HoppedTo
  <2>2. HopsToRunning(op[o].status) \in Nat
    BY Zenon DEF HopsToRunning
  <2>3. v \in Nat /\ v > op[o].version
    BY <1>1, <2>2
  <2>4. s \in Statuses /\ PathStatus(s) /\ CanTransitionTo("running", s)
    BY Zenon DEF Results, Statuses, PathStatus, IsTerminal, CanTransitionTo, Successors
  <2>5. op[o].status \in {"pending", "queued", "running"}
    BY <1>3, Zenon DEF OnPath, PathStatus, Created
  <2>6. Walk(op[o].status, s)
    BY <2>4, <2>5, Zenon DEF Walk
  <2> HIDE DEF v
  <2>7. /\ op'[o].status = s /\ op'[o].version = v
        /\ \A p \in Changes : p # o => op'[p] = op[p]
    BY <1>1, <2>1, <2>3, <2>4, OpWritten, Zenon
  <2>8. Follows(o)
    BY <2>3, <2>4, <2>6, <2>7, Zenon DEF Follows
  <2> QED BY <2>7, <2>8, StandsStill, Zenon
<1> QED BY <1>2, <1>3, Zenon

LEMMA FollowsStep ==
    ASSUME EmergencyInv, OnPath, Next
    PROVE  \A p \in Changes : Follows(p)
<1> Typed /\ Conjuncts
  BY Zenon DEF EmergencyInv, Typed, Conjuncts
<1> USE DEF Conjuncts
<1>0. WriterInv
  BY Zenon DEF WriterInv
<1>1. ASSUME op' = op PROVE \A p \in Changes : Follows(p)
  BY <1>1, StandsStill, Zenon
<1>2. ASSUME NEW o \in Changes, CreateEmergency(o) PROVE \A p \in Changes : Follows(p)
  <2>1. /\ \A p \in Changes : p # o => op'[p] = op[p]
        /\ ~Created(o)
        /\ op'[o] = op[o] \/ (op'[o].status = "pending" /\ op'[o].version = 1)
    BY <1>2, CreationStep, Zenon
  <2>2. op[o].version = 0 /\ 1 > 0
    BY <2>1 DEF RowsInOrder, Created
  <2>3. Follows(o)
    BY <2>1, <2>2, StandsStill, Zenon DEF Follows, PathStatus, InitialStatus
  <2> QED BY <2>1, <2>3, StandsStill, Zenon
<1>3. ASSUME NEW o \in Changes, Request(o) PROVE \A p \in Changes : Follows(p)
  <2>1. CASE RequestCheck(o) \/ Dispatch(o) \/ RequestAbandoned(o) \/ MarkQueued(o)
    BY <1>1, <2>1, Zenon DEF RequestCheck, Dispatch, RequestAbandoned, MarkQueued, storeVars
  <2>2. CASE DispatchOffline(o)
    BY <2>2, FinishFollows, Zenon DEF DispatchOffline
  <2>3. CASE EnterQueued(o)
    BY <2>3, SwapFollows, Zenon DEF EnterQueued
  <2> QED BY <1>2, <1>3, <2>1, <2>2, <2>3, Zenon DEF Request
<1>4. ASSUME Race PROVE \A p \in Changes : Follows(p)
  <2>1. CASE SweepFinish
    <3>1. PICK o \in Changes : o = sweep.op
      BY <2>1, Zenon DEF SweepFinish, Followed, Held
    <3> QED BY <2>1, <3>1, FinishFollows, Zenon DEF SweepFinish
  <2>2. CASE CancelCommit \/ ReleaseCommit
    BY <1>0, <2>2, CancelFollows, ReleaseFollows, Zenon
  <2>3. CASE \E o \in Changes : SweepRead(o) \/ CancelRead(o) \/ ReleaseRead(o)
                                \/ ObserveWindowPasses(o) \/ Promote(o)
    <3>1. op' = op
      BY <2>3, Zenon DEF SweepRead, CancelRead, ReleaseRead, ObserveWindowPasses, Promote, storeVars
    <3> QED BY <1>1, <3>1, Zenon
  <2>4. CASE StandardGate \/ StandardCreate \/ StandardFinish
    BY <1>1, <2>4, Zenon DEF StandardGate, StandardCreate, StandardFinish, storeVars
  <2> QED BY <1>4, <2>1, <2>2, <2>3, <2>4, Zenon DEF Race
<1>5. ASSUME Agent \/ Stream PROVE \A p \in Changes : Follows(p)
  <2>1. CASE Agent
    BY <1>1, <2>1, Zenon DEF Agent, AgentTake, AgentAck, AgentStart, AgentExecute, AgentStore,
                AgentReport, AgentReplay, storeVars
  <2>2. CASE Stream
    BY <1>1, <2>2, Zenon DEF Stream, Connect, StreamLost, Teardown, AgentNotice, AgentCrash, storeVars
  <2> QED BY <1>5, <2>1, <2>2, Zenon
<1>6. ASSUME Gateway PROVE \A p \in Changes : Follows(p)
  <2>1. CASE GwSend \/ GwMarkDelivered \/ GwAck \/ GwAckRead \/ GwResult
    BY <1>1, <2>1, Zenon DEF GwSend, GwMarkDelivered, GwAck, GwAckRead, GwResult, storeVars
  <2>2. CASE GwBegin
    <3>1. PICK o \in Changes : o = gw.op
      BY <2>2, Zenon DEF GwBegin, Followed, Held
    <3> QED BY <2>2, <3>1, SwapFollows, Zenon DEF GwBegin
  <2>3. CASE GwConverge
    <3>1. PICK o \in Changes : o = gw.op /\ Created(o)
      BY <2>3, Zenon DEF GwConverge, Followed, Held
    <3>2. gw.status \in Results
      BY <2>3, Zenon DEF GwConverge, Truthful
    <3>3. op' = op \/ ConvergeWrite(o, gw.status, EffectOf(gw.status))
      BY <2>3, <3>1, Zenon DEF GwConverge, storeVars
    <3> QED BY <1>1, <3>1, <3>2, <3>3, ConvergeFollows, Zenon
  <2> QED BY <1>6, <2>1, <2>2, <2>3, Zenon DEF Gateway
<1> QED BY <1>3, <1>4, <1>5, <1>6, NextGroups, Zenon

\* The optimistic lock is sound: whichever of the request, the gateway, the
\* sweep, the cancel and the release writes an operation row raises its version
\* and moves its status along the store's edges; an ended row keeps its status.
THEOREM VersionsGuard == Spec => RowsFollowEdges
<1> DEFINE Moves == \A o \in Changes : op'[o] # op[o] =>
                       /\ op'[o].version > op[o].version
                       /\ \/ ~Created(o) /\ op'[o].status = InitialStatus /\ op'[o].version = 1
                          \/ Walk(op[o].status, op'[o].status)
                          \/ IsTerminal(op[o].status) /\ op'[o].status = op[o].status
<1>1. Init => OnPath
  <2> SUFFICES ASSUME Init PROVE OnPath
    BY Zenon
  <2>1. \A o \in Changes : op[o].status = "absent"
    BY Zenon DEF Init
  <2> QED BY <2>1, Zenon DEF OnPath, PathStatus
<1>2. EmergencyInv /\ OnPath /\ [Next]_vars => OnPath' /\ [Moves]_vars
  <2>1. CASE Next
    BY <2>1, FollowsStep, Zenon DEF Follows, OnPath
  <2>2. CASE UNCHANGED vars
    BY <2>2, Zenon DEF OnPath, vars
  <2> QED BY <2>1, <2>2, Zenon
<1> QED BY <1>1, <1>2, EmergencyInvariant, PTL DEF Spec, RowsFollowEdges
=============================================================================
