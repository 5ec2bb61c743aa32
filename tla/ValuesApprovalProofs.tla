------------------------ MODULE ValuesApprovalProofs ------------------------
(***************************************************************************)
(* Proofs about ValuesApproval, for any number of users, revisions, prepare *)
(* sessions and tasks and any assignment of paths to tasks.                *)
(*                                                                         *)
(* The argument: a revision's row, its tasks and its token change together *)
(* or not at all, so each table can be read off the others.  What a prepare *)
(* session noted (the head of the chain, disjoint paths) does not become   *)
(* false while it is kept, because revisions are never renumbered and the  *)
(* paths of a task never change; only "this is still the head" and "these  *)
(* tasks are still free" can, and CreateDraft asks both again.             *)
(***************************************************************************)
EXTENDS ValuesApproval, TLAPS

\* A row that does not exist was created from no session.
Unborn == \A r \in Revisions : status[r] = "none" => origin[r] = NoSession

\* The parent a session noted has the version it noted.
SessionParent ==
  \A s \in Sessions : session[s].state # "none" =>
    IF session[s].parentVersion = 0 THEN session[s].parent = NoRevision
    ELSE session[s].parent \in Existing /\ version[session[s].parent] = session[s].parentVersion

\* The tasks of a session own disjoint paths.
SessionPaths ==
  \A s \in Sessions : \A t, x \in session[s].tasks :
    t # x => PathsOf[t] \cap PathsOf[x] = {}

ValuesInv ==
  /\ ValuesTypeOK /\ Unborn /\ SessionParent /\ SessionPaths
  /\ ApprovedPointer /\ OnePending /\ TasksFollowRevision /\ ConvergedIsCovered
  /\ PathOwnedOnce /\ TokenSpentOnce /\ VersionChain /\ EvidenceMatches

-----------------------------------------------------------------------------
(* Types, and what a change of a session's state leaves alone.             *)

\* The binding of tasks to revisions depends on five columns only.
LEMMA TasksFrame ==
  ASSUME TasksFollowRevision, UNCHANGED <<active, task, status, origin, session>>
  PROVE  TasksFollowRevision'
BY DEF TasksFollowRevision, Carries

LEMMA UnusedType == Unused \in Session /\ Unused.state = "none" /\ Unused.tasks = {}
BY Zenon DEF Unused, Session, SessionState

LEMMA SetStateType ==
  ASSUME ValuesTypeOK, NEW s \in Sessions, NEW to \in SessionState, SetState(s, to)
  PROVE  /\ session' \in [Sessions -> Session]
         /\ \A x \in Sessions :
              /\ session'[x].actor = session[x].actor
              /\ session'[x].parent = session[x].parent
              /\ session'[x].parentVersion = session[x].parentVersion
              /\ session'[x].tasks = session[x].tasks
              /\ session'[x].state = IF x = s THEN to ELSE session[x].state
BY DEF ValuesTypeOK, SetState, Session

LEMMA CheckType ==
  ASSUME ValuesTypeOK, NEW s \in Sessions, NEW u \in Users, NEW T \in SUBSET Tasks,
         NEW p \in Revisions \cup {NoRevision}, NEW v \in Nat, PrepareCheck(s, u, T, p, v)
  PROVE  /\ session' \in [Sessions -> Session]
         /\ session[s].state = "none" /\ session'[s].state = "checked"
         /\ session'[s].tasks = T /\ session'[s].parent = p /\ session'[s].parentVersion = v
         /\ \A x \in Sessions : x # s => session'[x] = session[x]
BY Zenon DEF ValuesTypeOK, PrepareCheck, Session, SessionState

\* The kinds of step.
Sweep(s) == PrepareInsert(s) \/ ExpireSession(s) \/ DeleteSession(s)
Undo(r, u, v) == Discard(r, u, v) \/ Reject(r, u, v)

LEMMA SweepState ==
  ASSUME ValuesTypeOK, NEW s \in Sessions, Sweep(s)
  PROVE  /\ UNCHANGED <<revision, decisions, approved, tasks>>
         /\ \E to \in SessionState :
              /\ SetState(s, to) /\ to # "none"
              /\ session[s].state = "checked" => to \in {"open", "refused"}
              /\ session[s].state = "open" => to = "expired"
              /\ session[s].state \in {"expired", "consumed"} => to = "deleted"
              /\ session[s].state \in {"checked", "open", "expired", "consumed"}
BY Zenon DEF Sweep, PrepareInsert, ExpireSession, DeleteSession, SessionState

LEMMA SweepFrame ==
  ASSUME ValuesTypeOK, NEW s \in Sessions, Sweep(s)
  PROVE  /\ UNCHANGED <<revision, decisions, approved, tasks>>
         /\ session' \in [Sessions -> Session]
         /\ \A x \in Sessions :
              /\ session'[x].parent = session[x].parent
              /\ session'[x].parentVersion = session[x].parentVersion
              /\ session'[x].tasks = session[x].tasks
              /\ (session'[x].state = "none") <=> (session[x].state = "none")
              /\ session'[x].state = "consumed" => session[x].state = "consumed"
              /\ session[x].state \in {"consumed", "deleted"}
                   => session'[x].state \in {"consumed", "deleted"}
<1>1. PICK to \in SessionState :
        /\ SetState(s, to) /\ to # "none"
        /\ session[s].state = "checked" => to \in {"open", "refused"}
        /\ session[s].state = "open" => to = "expired"
        /\ session[s].state \in {"expired", "consumed"} => to = "deleted"
        /\ session[s].state \in {"checked", "open", "expired", "consumed"}
  BY SweepState, Zenon
<1>2. UNCHANGED <<revision, decisions, approved, tasks>>
  BY SweepState, Zenon
<1> QED BY <1>1, <1>2, SetStateType

LEMMA ConsumeFrame ==
  ASSUME ValuesTypeOK, NEW s \in Sessions, NEW u \in Users, Consume(s, u)
  PROVE  /\ session' \in [Sessions -> Session]
         /\ session[s].state = "open" /\ session'[s].state = "consumed"
         /\ \A x \in Sessions :
              /\ session'[x].parent = session[x].parent
              /\ session'[x].parentVersion = session[x].parentVersion
              /\ session'[x].tasks = session[x].tasks
              /\ x # s => session'[x].state = session[x].state
              /\ session'[x].state = "none" => session[x].state = "none"
<1>1. SetState(s, "consumed") /\ session[s].state = "open"
  BY Zenon DEF Consume
<1>2. "consumed" \in SessionState
  BY Zenon DEF SessionState
<1> QED BY <1>1, <1>2, SetStateType, Zenon

\* The steps of the specification, by kind.
LEMMA StepKinds ==
  ASSUME Next
  PROVE  \/ \E t \in Tasks : OpenTask(t) \/ AbandonTask(t)
         \/ \E s \in Sessions, u \in Users, T \in SUBSET Tasks,
               p \in Revisions \cup {NoRevision}, v \in Nat : PrepareCheck(s, u, T, p, v)
         \/ \E s \in Sessions : Sweep(s)
         \/ \E r \in Revisions, u \in Users, p \in Revisions \cup {NoRevision}, v \in Nat :
              CreatePlain(r, u, p, v)
         \/ \E r \in Revisions, u \in Users, s \in Sessions, c \in BOOLEAN :
              CreateConverging(r, u, s, c)
         \/ \E r \in Revisions, u \in Users, v \in Nat :
              Undo(r, u, v) \/ Submit(r, u, v) \/ Approve(r, u, v)
<1>1. Versions \subseteq Nat /\ StateVersions \subseteq Nat
  BY SMT DEF Versions, StateVersions
<1> HIDE DEF Versions, StateVersions
<1> QED BY <1>1, Zenon DEF Next, Sweep, Undo

\* Steps that touch no revision, decision or pointer.
LEMMA RowsUntouched ==
  ASSUME ValuesInv, UNCHANGED <<revision, decisions, approved>>
  PROVE  Unborn' /\ ApprovedPointer' /\ OnePending' /\ VersionChain' /\ EvidenceMatches'
<1> USE DEF revision
<1>1. Unborn' /\ ApprovedPointer' /\ OnePending'
  BY Zenon DEF ValuesInv, Unborn, ApprovedPointer, OnePending
<1>2. Existing' = Existing
  BY Zenon DEF Existing
<1>3. VersionChain'
  <2>1. VersionChain
    BY Zenon DEF ValuesInv
  <2> QED BY <1>2, <2>1, Zenon DEF VersionChain
<1>4. EvidenceMatches'
  <2>1. EvidenceMatches
    BY Zenon DEF ValuesInv
  <2> QED BY <2>1 DEF EvidenceMatches
<1> QED BY <1>1, <1>3, <1>4, Zenon

\* The tasks that own their paths for a revision.
Owner(t) == task[t] = "pending_promotion" /\ active[t] # NoRevision

\* Steps that bind no task.
LEMMA NoNewOwner ==
  ASSUME PathOwnedOnce, \A t \in Tasks : Owner(t)' => Owner(t)
  PROVE  PathOwnedOnce'
BY Zenon DEF PathOwnedOnce, Owner

-----------------------------------------------------------------------------
(* Every step preserves every part of the invariant.                       *)

\* Types.
LEMMA TypeStep ==
  ASSUME ValuesInv, Next PROVE ValuesTypeOK'
<1>1. ASSUME NEW t \in Tasks, OpenTask(t) \/ AbandonTask(t)
      PROVE  ValuesTypeOK'
  BY <1>1, Zenon DEF OpenTask, AbandonTask, TaskStatus, ValuesInv, ValuesTypeOK, revision, tasks
<1>2. ASSUME NEW s \in Sessions, NEW u \in Users, NEW T \in SUBSET Tasks,
             NEW p \in Revisions \cup {NoRevision}, NEW v \in Nat, PrepareCheck(s, u, T, p, v)
      PROVE  ValuesTypeOK'
  <2>1. session' \in [Sessions -> Session]
    BY <1>2, CheckType, Zenon DEF ValuesInv
  <2>2. UNCHANGED <<revision, decisions, approved, tasks>>
    BY <1>2, Zenon DEF PrepareCheck
  <2> QED BY <2>1, <2>2, Zenon DEF ValuesInv, ValuesTypeOK, revision, tasks
<1>3. ASSUME NEW s \in Sessions, Sweep(s)
      PROVE  ValuesTypeOK'
  BY <1>3, SweepFrame, Zenon DEF ValuesInv, ValuesTypeOK, revision, tasks
<1>4. ASSUME NEW r \in Revisions, NEW u \in Users, NEW p \in Revisions \cup {NoRevision},
             NEW v \in Nat, CreatePlain(r, u, p, v)
      PROVE  ValuesTypeOK'
  BY <1>4 DEF CreatePlain, InsertDraft, Status, ValuesInv, ValuesTypeOK, revision, tasks
<1>5. ASSUME NEW r \in Revisions, NEW u \in Users, NEW s \in Sessions, NEW c \in BOOLEAN,
             CreateConverging(r, u, s, c)
      PROVE  ValuesTypeOK'
  BY <1>5, ConsumeFrame DEF CreateConverging, InsertDraft, BindTasks, Status, Session, ValuesInv, ValuesTypeOK, revision, tasks
<1>6. ASSUME NEW r \in Revisions, NEW u \in Users, NEW v \in Nat, Undo(r, u, v)
      PROVE  ValuesTypeOK'
  BY <1>6 DEF Undo, Discard, Reject, Move, Record, Decision, Unbind, Status, ValuesInv, ValuesTypeOK, revision, tasks
<1>7. ASSUME NEW r \in Revisions, NEW u \in Users, NEW v \in Nat, Submit(r, u, v)
      PROVE  ValuesTypeOK'
  BY <1>7 DEF Submit, Move, Record, Decision, Status, ValuesInv, ValuesTypeOK, revision, tasks
<1>8. ASSUME NEW r \in Revisions, NEW u \in Users, NEW v \in Nat, Approve(r, u, v)
      PROVE  ValuesTypeOK'
  BY <1>8 DEF Approve, Supersede, Converge, Record, Decision, Status, TaskStatus, ValuesInv, ValuesTypeOK, revision, tasks
<1> QED BY StepKinds, <1>1, <1>2, <1>3, <1>4, <1>5, <1>6, <1>7, <1>8, Zenon

\* Rows that do not exist.
LEMMA UnbornStep ==
  ASSUME ValuesInv, Next PROVE Unborn'
<1>1. ASSUME NEW t \in Tasks, OpenTask(t) \/ AbandonTask(t)
      PROVE  Unborn'
  BY <1>1, RowsUntouched, Zenon DEF OpenTask, AbandonTask
<1>2. ASSUME NEW s \in Sessions, NEW u \in Users, NEW T \in SUBSET Tasks,
             NEW p \in Revisions \cup {NoRevision}, NEW v \in Nat, PrepareCheck(s, u, T, p, v)
      PROVE  Unborn'
  BY <1>2, RowsUntouched, Zenon DEF PrepareCheck
<1>3. ASSUME NEW s \in Sessions, Sweep(s)
      PROVE  Unborn'
  BY <1>3, SweepFrame, RowsUntouched, Zenon DEF ValuesInv
<1>4. ASSUME NEW r \in Revisions, NEW u \in Users, NEW p \in Revisions \cup {NoRevision},
             NEW v \in Nat, CreatePlain(r, u, p, v)
      PROVE  Unborn'
  BY <1>4, Zenon DEF CreatePlain, InsertDraft, Unborn, ValuesInv, ValuesTypeOK, revision, tasks
<1>5. ASSUME NEW r \in Revisions, NEW u \in Users, NEW s \in Sessions, NEW c \in BOOLEAN,
             CreateConverging(r, u, s, c)
      PROVE  Unborn'
  BY <1>5, Zenon DEF CreateConverging, InsertDraft, Unborn, ValuesInv, ValuesTypeOK, revision, tasks
<1>6. ASSUME NEW r \in Revisions, NEW u \in Users, NEW v \in Nat, Undo(r, u, v)
      PROVE  Unborn'
  BY <1>6, Zenon DEF Undo, Discard, Reject, Move, Unborn, ValuesInv, ValuesTypeOK, revision, tasks
<1>7. ASSUME NEW r \in Revisions, NEW u \in Users, NEW v \in Nat, Submit(r, u, v)
      PROVE  Unborn'
  BY <1>7, Zenon DEF Submit, Move, Unborn, ValuesInv, ValuesTypeOK, revision, tasks
<1>8. ASSUME NEW r \in Revisions, NEW u \in Users, NEW v \in Nat, Approve(r, u, v)
      PROVE  Unborn'
  BY <1>8, Zenon DEF Approve, Supersede, Unborn, ValuesInv, ValuesTypeOK, revision, tasks
<1> QED BY StepKinds, <1>1, <1>2, <1>3, <1>4, <1>5, <1>6, <1>7, <1>8, Zenon

\* Disjoint selections.
LEMMA SessionPathsStep ==
  ASSUME ValuesInv, Next PROVE SessionPaths'
<1>1. ASSUME NEW t \in Tasks, OpenTask(t) \/ AbandonTask(t)
      PROVE  SessionPaths'
  BY <1>1, Zenon DEF OpenTask, AbandonTask, SessionPaths, ValuesInv, ValuesTypeOK, revision, tasks
<1>2. ASSUME NEW s \in Sessions, NEW u \in Users, NEW T \in SUBSET Tasks,
             NEW p \in Revisions \cup {NoRevision}, NEW v \in Nat, PrepareCheck(s, u, T, p, v)
      PROVE  SessionPaths'
  BY <1>2, CheckType DEF PrepareCheck, SessionPaths, ValuesInv, ValuesTypeOK, revision, tasks
<1>3. ASSUME NEW s \in Sessions, Sweep(s)
      PROVE  SessionPaths'
  BY <1>3, SweepFrame, Zenon DEF SessionPaths, ValuesInv, ValuesTypeOK, revision, tasks
<1>4. ASSUME NEW r \in Revisions, NEW u \in Users, NEW p \in Revisions \cup {NoRevision},
             NEW v \in Nat, CreatePlain(r, u, p, v)
      PROVE  SessionPaths'
  BY <1>4, Zenon DEF CreatePlain, SessionPaths, ValuesInv, ValuesTypeOK, revision, tasks
<1>5. ASSUME NEW r \in Revisions, NEW u \in Users, NEW s \in Sessions, NEW c \in BOOLEAN,
             CreateConverging(r, u, s, c)
      PROVE  SessionPaths'
  BY <1>5, ConsumeFrame DEF CreateConverging, SessionPaths, ValuesInv, ValuesTypeOK, revision, tasks
<1>6. ASSUME NEW r \in Revisions, NEW u \in Users, NEW v \in Nat, Undo(r, u, v)
      PROVE  SessionPaths'
  BY <1>6, Zenon DEF Undo, Discard, Reject, SessionPaths, ValuesInv, ValuesTypeOK, revision, tasks
<1>7. ASSUME NEW r \in Revisions, NEW u \in Users, NEW v \in Nat, Submit(r, u, v)
      PROVE  SessionPaths'
  BY <1>7, Zenon DEF Submit, SessionPaths, ValuesInv, ValuesTypeOK, revision, tasks
<1>8. ASSUME NEW r \in Revisions, NEW u \in Users, NEW v \in Nat, Approve(r, u, v)
      PROVE  SessionPaths'
  BY <1>8, Zenon DEF Approve, SessionPaths, ValuesInv, ValuesTypeOK, revision, tasks
<1> QED BY StepKinds, <1>1, <1>2, <1>3, <1>4, <1>5, <1>6, <1>7, <1>8, Zenon

\* The approved pointer.
LEMMA PointerStep ==
  ASSUME ValuesInv, Next PROVE ApprovedPointer'
<1>1. ASSUME NEW t \in Tasks, OpenTask(t) \/ AbandonTask(t)
      PROVE  ApprovedPointer'
  BY <1>1, RowsUntouched, Zenon DEF OpenTask, AbandonTask
<1>2. ASSUME NEW s \in Sessions, NEW u \in Users, NEW T \in SUBSET Tasks,
             NEW p \in Revisions \cup {NoRevision}, NEW v \in Nat, PrepareCheck(s, u, T, p, v)
      PROVE  ApprovedPointer'
  BY <1>2, RowsUntouched, Zenon DEF PrepareCheck
<1>3. ASSUME NEW s \in Sessions, Sweep(s)
      PROVE  ApprovedPointer'
  BY <1>3, SweepFrame, RowsUntouched, Zenon DEF ValuesInv
<1>4. ASSUME NEW r \in Revisions, NEW u \in Users, NEW p \in Revisions \cup {NoRevision},
             NEW v \in Nat, CreatePlain(r, u, p, v)
      PROVE  ApprovedPointer'
  BY <1>4, Zenon DEF CreatePlain, InsertDraft, ApprovedPointer, ValuesInv, ValuesTypeOK, revision, tasks
<1>5. ASSUME NEW r \in Revisions, NEW u \in Users, NEW s \in Sessions, NEW c \in BOOLEAN,
             CreateConverging(r, u, s, c)
      PROVE  ApprovedPointer'
  BY <1>5, Zenon DEF CreateConverging, InsertDraft, ApprovedPointer, ValuesInv, ValuesTypeOK, revision, tasks
<1>6. ASSUME NEW r \in Revisions, NEW u \in Users, NEW v \in Nat, Undo(r, u, v)
      PROVE  ApprovedPointer'
  BY <1>6, Zenon DEF Undo, Discard, Reject, Move, ApprovedPointer, ValuesInv, ValuesTypeOK, revision, tasks
<1>7. ASSUME NEW r \in Revisions, NEW u \in Users, NEW v \in Nat, Submit(r, u, v)
      PROVE  ApprovedPointer'
  BY <1>7, Zenon DEF Submit, Move, ApprovedPointer, ValuesInv, ValuesTypeOK, revision, tasks
<1>8. ASSUME NEW r \in Revisions, NEW u \in Users, NEW v \in Nat, Approve(r, u, v)
      PROVE  ApprovedPointer'
  BY <1>8, Zenon DEF Approve, Supersede, ApprovedPointer, ValuesInv, ValuesTypeOK, revision, tasks
<1> QED BY StepKinds, <1>1, <1>2, <1>3, <1>4, <1>5, <1>6, <1>7, <1>8, Zenon

\* One pending revision.
LEMMA PendingStep ==
  ASSUME ValuesInv, Next PROVE OnePending'
<1>1. ASSUME NEW t \in Tasks, OpenTask(t) \/ AbandonTask(t)
      PROVE  OnePending'
  BY <1>1, RowsUntouched, Zenon DEF OpenTask, AbandonTask
<1>2. ASSUME NEW s \in Sessions, NEW u \in Users, NEW T \in SUBSET Tasks,
             NEW p \in Revisions \cup {NoRevision}, NEW v \in Nat, PrepareCheck(s, u, T, p, v)
      PROVE  OnePending'
  BY <1>2, RowsUntouched, Zenon DEF PrepareCheck
<1>3. ASSUME NEW s \in Sessions, Sweep(s)
      PROVE  OnePending'
  BY <1>3, SweepFrame, RowsUntouched, Zenon DEF ValuesInv
<1>4. ASSUME NEW r \in Revisions, NEW u \in Users, NEW p \in Revisions \cup {NoRevision},
             NEW v \in Nat, CreatePlain(r, u, p, v)
      PROVE  OnePending'
  BY <1>4, Zenon DEF CreatePlain, InsertDraft, OnePending, ValuesInv, ValuesTypeOK, revision, tasks
<1>5. ASSUME NEW r \in Revisions, NEW u \in Users, NEW s \in Sessions, NEW c \in BOOLEAN,
             CreateConverging(r, u, s, c)
      PROVE  OnePending'
  BY <1>5, Zenon DEF CreateConverging, InsertDraft, OnePending, ValuesInv, ValuesTypeOK, revision, tasks
<1>6. ASSUME NEW r \in Revisions, NEW u \in Users, NEW v \in Nat, Undo(r, u, v)
      PROVE  OnePending'
  BY <1>6 DEF Undo, Discard, Reject, Move, OnePending, ValuesInv, ValuesTypeOK, revision, tasks
<1>7. ASSUME NEW r \in Revisions, NEW u \in Users, NEW v \in Nat, Submit(r, u, v)
      PROVE  OnePending'
  BY <1>7, Zenon DEF Submit, Move, NonePending, OnePending, ValuesInv, ValuesTypeOK, revision, tasks
<1>8. ASSUME NEW r \in Revisions, NEW u \in Users, NEW v \in Nat, Approve(r, u, v)
      PROVE  OnePending'
  BY <1>8, Zenon DEF Approve, Supersede, OnePending, ValuesInv, ValuesTypeOK, revision, tasks
<1> QED BY StepKinds, <1>1, <1>2, <1>3, <1>4, <1>5, <1>6, <1>7, <1>8, Zenon

\* What sessions noted about the chain.
LEMMA SessionParentStep ==
  ASSUME ValuesInv, Next PROVE SessionParent'
<1>1. ASSUME NEW t \in Tasks, OpenTask(t) \/ AbandonTask(t)
      PROVE  SessionParent'
  BY <1>1, Zenon DEF OpenTask, AbandonTask, SessionParent, Existing, ValuesInv, ValuesTypeOK, revision, tasks
<1>2. ASSUME NEW s \in Sessions, NEW u \in Users, NEW T \in SUBSET Tasks,
             NEW p \in Revisions \cup {NoRevision}, NEW v \in Nat, PrepareCheck(s, u, T, p, v)
      PROVE  SessionParent'
  <2>1. v = 0 => p = NoRevision
    BY <1>2 DEF PrepareCheck, IsHead, Existing, VersionChain, ValuesInv
  <2>2. v # 0 => p \in Existing /\ version[p] = v
    BY <1>2, Zenon DEF PrepareCheck, IsHead
  <2>3. Existing' = Existing /\ version' = version
    BY <1>2, Zenon DEF PrepareCheck, Existing, revision
  <2>4. SessionParent /\ ValuesTypeOK
    BY Zenon DEF ValuesInv
  <2>5. /\ session'[s].parent = p /\ session'[s].parentVersion = v
        /\ \A x \in Sessions : x # s => session'[x] = session[x]
    BY <1>2, <2>4, Zenon DEF PrepareCheck, ValuesTypeOK
  <2>6. SUFFICES ASSUME NEW x \in Sessions, session'[x].state # "none"
                 PROVE  IF session'[x].parentVersion = 0 THEN session'[x].parent = NoRevision
                        ELSE /\ session'[x].parent \in Existing
                             /\ version[session'[x].parent] = session'[x].parentVersion
    BY <2>3, Zenon DEF SessionParent
  <2>7. CASE x = s
    BY <2>1, <2>2, <2>5, <2>7, Zenon
  <2>8. CASE x # s
    BY <2>4, <2>5, <2>6, <2>8, Zenon DEF SessionParent
  <2> QED BY <2>7, <2>8, Zenon
<1>3. ASSUME NEW s \in Sessions, Sweep(s)
      PROVE  SessionParent'
  BY <1>3, SweepFrame DEF SessionParent, Existing, ValuesInv, ValuesTypeOK, revision, tasks
<1>4. ASSUME NEW r \in Revisions, NEW u \in Users, NEW p \in Revisions \cup {NoRevision},
             NEW v \in Nat, CreatePlain(r, u, p, v)
      PROVE  SessionParent'
  BY <1>4, Zenon DEF CreatePlain, InsertDraft, SessionParent, Existing, ValuesInv, ValuesTypeOK, revision, tasks
<1>5. ASSUME NEW r \in Revisions, NEW u \in Users, NEW s \in Sessions, NEW c \in BOOLEAN,
             CreateConverging(r, u, s, c)
      PROVE  SessionParent'
  <2>1. ValuesTypeOK /\ SessionParent /\ Consume(s, u) /\ status[r] = "none"
    BY <1>5, Zenon DEF CreateConverging, InsertDraft, ValuesInv
  <2>2. \A q \in Existing : q \in Existing' /\ version'[q] = version[q]
    BY <1>5, Zenon DEF CreateConverging, InsertDraft, Existing, ValuesInv, ValuesTypeOK
  <2>3. \A x \in Sessions :
          /\ session'[x].parent = session[x].parent
          /\ session'[x].parentVersion = session[x].parentVersion
          /\ session'[x].state # "none" => session[x].state # "none"
    BY <2>1, ConsumeFrame, Zenon
  <2> QED BY <2>1, <2>2, <2>3 DEF SessionParent
<1>6. ASSUME NEW r \in Revisions, NEW u \in Users, NEW v \in Nat, Undo(r, u, v)
      PROVE  SessionParent'
  BY <1>6 DEF Undo, Discard, Reject, Move, Unbind, SessionParent, Existing, ValuesInv, ValuesTypeOK, revision, tasks
<1>7. ASSUME NEW r \in Revisions, NEW u \in Users, NEW v \in Nat, Submit(r, u, v)
      PROVE  SessionParent'
  BY <1>7, Zenon DEF Submit, Move, SessionParent, Existing, ValuesInv, ValuesTypeOK, revision, tasks
<1>8. ASSUME NEW r \in Revisions, NEW u \in Users, NEW v \in Nat, Approve(r, u, v)
      PROVE  SessionParent'
  BY <1>8, Zenon DEF Approve, Supersede, Converge, SessionParent, Existing, ValuesInv, ValuesTypeOK, revision, tasks
<1> QED BY StepKinds, <1>1, <1>2, <1>3, <1>4, <1>5, <1>6, <1>7, <1>8, Zenon

\* Tasks and the revisions that carry them.
LEMMA TasksStep ==
  ASSUME ValuesInv, Next PROVE TasksFollowRevision'
<1>1. ASSUME NEW t \in Tasks, OpenTask(t) \/ AbandonTask(t)
      PROVE  TasksFollowRevision'
  <2>1. \A r \in Revisions, x \in Tasks : Carries(r, x)' <=> Carries(r, x)
    BY <1>1, Zenon DEF OpenTask, AbandonTask, Carries, revision
  <2> QED BY <1>1, <2>1, ValuesAssumption DEF OpenTask, AbandonTask, TasksFollowRevision, ValuesInv, ValuesTypeOK, revision, tasks
<1>2. ASSUME NEW s \in Sessions, NEW u \in Users, NEW T \in SUBSET Tasks,
             NEW p \in Revisions \cup {NoRevision}, NEW v \in Nat, PrepareCheck(s, u, T, p, v)
      PROVE  TasksFollowRevision'
  <2>1. \A r \in Revisions : origin[r] # s
    BY <1>2, ValuesAssumption DEF PrepareCheck, TokenSpentOnce, Unborn, Existing, ValuesInv
  <2>2. \A r \in Revisions, x \in Tasks : Carries(r, x)' <=> Carries(r, x)
    <3>1. \A y \in Sessions : y # s => session'[y] = session[y]
      BY <1>2, CheckType, Zenon DEF ValuesInv
    <3>2. origin' = origin
      BY <1>2, Zenon DEF PrepareCheck, revision
    <3> QED BY <2>1, <3>1, <3>2, Zenon DEF Carries
  <2> QED BY <1>2, <2>2 DEF PrepareCheck, TasksFollowRevision, ValuesInv, ValuesTypeOK, revision, tasks
<1>3. ASSUME NEW s \in Sessions, Sweep(s)
      PROVE  TasksFollowRevision'
  <2>1. \A r \in Revisions, x \in Tasks : Carries(r, x)' <=> Carries(r, x)
    BY <1>3, SweepFrame DEF Carries, ValuesInv, ValuesTypeOK, revision, tasks
  <2> QED BY <1>3, <2>1, SweepFrame DEF TasksFollowRevision, ValuesInv, ValuesTypeOK, revision, tasks
<1>4. ASSUME NEW r \in Revisions, NEW u \in Users, NEW p \in Revisions \cup {NoRevision},
             NEW v \in Nat, CreatePlain(r, u, p, v)
      PROVE  TasksFollowRevision'
  <2>1. \A q \in Revisions, x \in Tasks : q # r => (Carries(q, x)' <=> Carries(q, x))
    BY <1>4, Zenon DEF CreatePlain, InsertDraft, Carries, ValuesInv, ValuesTypeOK, revision, tasks
  <2>2. \A x \in Tasks : ~Carries(r, x)'
    BY <1>4, ValuesAssumption, Zenon DEF CreatePlain, InsertDraft, Carries, ValuesInv, ValuesTypeOK, revision, tasks
  <2> QED BY <1>4, <2>1, <2>2 DEF CreatePlain, InsertDraft, TasksFollowRevision, ValuesInv, ValuesTypeOK, revision, tasks
<1>5. ASSUME NEW r \in Revisions, NEW u \in Users, NEW s \in Sessions, NEW c \in BOOLEAN,
             CreateConverging(r, u, s, c)
      PROVE  TasksFollowRevision'
  <2>1. /\ ValuesTypeOK /\ Consume(s, u)
        /\ status[r] = "none" /\ status' = [status EXCEPT ![r] = "draft"]
        /\ origin' = [origin EXCEPT ![r] = s]
        /\ BindTasks(session[s].tasks, r)
    BY <1>5, Zenon DEF CreateConverging, InsertDraft, ValuesInv
  <2>2. \A x \in Sessions : session'[x].tasks = session[x].tasks
    BY <2>1, ConsumeFrame, Zenon
  <2>3. origin'[r] = s /\ \A q \in Revisions : q # r => origin'[q] = origin[q]
    BY <2>1, Zenon DEF ValuesTypeOK
  <2>4. \A q \in Revisions, x \in Tasks : q # r => (Carries(q, x)' <=> Carries(q, x))
    BY <2>2, <2>3, Zenon DEF Carries
  <2>5. \A x \in Tasks : Carries(r, x)' <=> x \in session[s].tasks
    BY <2>2, <2>3, Zenon DEF Carries
  <2>6. /\ TasksFollowRevision /\ status \in [Revisions -> Status]
        /\ active \in [Tasks -> Revisions \cup {NoRevision}]
    BY Zenon DEF ValuesInv, ValuesTypeOK
  <2>7. \A x \in Tasks : active[x] # r
    BY <2>1, <2>6, Zenon DEF TasksFollowRevision
  <2>8. /\ task' = task
        /\ \A x \in Tasks :
             IF x \in session[s].tasks
             THEN active'[x] = r /\ active[x] = NoRevision /\ task[x] = "pending_promotion"
             ELSE active'[x] = active[x]
    BY <2>1, Zenon DEF BindTasks, Selectable
  <2>9. status'[r] = "draft" /\ \A q \in Revisions : q # r => status'[q] = status[q]
    BY <2>1, <2>6, Zenon
  <2> DEFINE Follows(q, x) ==
        /\ active[x] = q =>
             /\ Carries(q, x)
             /\ \/ task[x] = "pending_promotion" /\ status[q] \in {"draft", "pending_approval"}
                \/ task[x] = "converged" /\ status[q] \in {"approved", "superseded"}
        /\ Carries(q, x) /\ task[x] # "abandoned" =>
             /\ status[q] \in {"draft", "pending_approval"} => active[x] = q
             /\ status[q] \in {"approved", "superseded"} =>
                  active[x] = q /\ task[x] = "converged"
  <2>10. ASSUME NEW q \in Revisions, NEW x \in Tasks PROVE Follows(q, x)'
    <3>1. CASE q = r
      BY <3>1, <2>5, <2>7, <2>8, <2>9, Zenon
    <3>2. CASE q # r
      <4>1. Follows(q, x)
        BY <2>6, Zenon DEF TasksFollowRevision
      <4>2. active'[x] = q <=> active[x] = q
        BY <3>2, <2>8, ValuesAssumption, Zenon
      <4> QED BY <3>2, <4>1, <4>2, <2>4, <2>8, <2>9, Zenon
    <3> QED BY <3>1, <3>2, Zenon
  <2> QED BY <2>10, Zenon DEF TasksFollowRevision
<1>6. ASSUME NEW r \in Revisions, NEW u \in Users, NEW v \in Nat, Undo(r, u, v)
      PROVE  TasksFollowRevision'
  <2>1. \A q \in Revisions, x \in Tasks : Carries(q, x)' <=> Carries(q, x)
    BY <1>6, Zenon DEF Undo, Discard, Reject, Move, Carries
  <2> QED BY <1>6, <2>1, ValuesAssumption DEF Undo, Discard, Reject, Move, Unbind, TasksFollowRevision, ValuesInv, ValuesTypeOK, revision, tasks
<1>7. ASSUME NEW r \in Revisions, NEW u \in Users, NEW v \in Nat, Submit(r, u, v)
      PROVE  TasksFollowRevision'
  <2>1. \A q \in Revisions, x \in Tasks : Carries(q, x)' <=> Carries(q, x)
    BY <1>7, Zenon DEF Submit, Move, Carries
  <2> QED BY <1>7, <2>1 DEF Submit, Move, TasksFollowRevision, ValuesInv, ValuesTypeOK, revision, tasks
<1>8. ASSUME NEW r \in Revisions, NEW u \in Users, NEW v \in Nat, Approve(r, u, v)
      PROVE  TasksFollowRevision'
  <2>1. \A q \in Revisions, x \in Tasks : Carries(q, x)' <=> Carries(q, x)
    BY <1>8, Zenon DEF Approve, Supersede, Carries
  <2> QED BY <1>8, <2>1 DEF Approve, Supersede, Converge, TasksFollowRevision, ValuesInv, ValuesTypeOK, revision, tasks
<1> QED BY StepKinds, <1>1, <1>2, <1>3, <1>4, <1>5, <1>6, <1>7, <1>8, Zenon

\* Coverage.
LEMMA CoveredStep ==
  ASSUME ValuesInv, Next PROVE ConvergedIsCovered'
<1>1. ASSUME NEW t \in Tasks, OpenTask(t) \/ AbandonTask(t)
      PROVE  ConvergedIsCovered'
  BY <1>1 DEF OpenTask, AbandonTask, ConvergedIsCovered, TasksFollowRevision, ValuesInv, ValuesTypeOK, revision, tasks
<1>2. ASSUME NEW s \in Sessions, NEW u \in Users, NEW T \in SUBSET Tasks,
             NEW p \in Revisions \cup {NoRevision}, NEW v \in Nat, PrepareCheck(s, u, T, p, v)
      PROVE  ConvergedIsCovered'
  BY <1>2, CheckType, Zenon DEF PrepareCheck, ConvergedIsCovered, TasksFollowRevision, ValuesInv, ValuesTypeOK, revision, tasks
<1>3. ASSUME NEW s \in Sessions, Sweep(s)
      PROVE  ConvergedIsCovered'
  BY <1>3, SweepFrame DEF ConvergedIsCovered, TasksFollowRevision, ValuesInv, ValuesTypeOK, revision, tasks
<1>4. ASSUME NEW r \in Revisions, NEW u \in Users, NEW p \in Revisions \cup {NoRevision},
             NEW v \in Nat, CreatePlain(r, u, p, v)
      PROVE  ConvergedIsCovered'
  BY <1>4 DEF CreatePlain, InsertDraft, ConvergedIsCovered, TasksFollowRevision, ValuesInv, ValuesTypeOK, revision, tasks
<1>5. ASSUME NEW r \in Revisions, NEW u \in Users, NEW s \in Sessions, NEW c \in BOOLEAN,
             CreateConverging(r, u, s, c)
      PROVE  ConvergedIsCovered'
  <2>1. /\ status[r] = "none" /\ covers' = [covers EXCEPT ![r] = c]
        /\ BindTasks(session[s].tasks, r)
    BY <1>5, Zenon DEF CreateConverging, InsertDraft
  <2>2. /\ covers \in [Revisions -> BOOLEAN] /\ active \in [Tasks -> Revisions \cup {NoRevision}]
        /\ ConvergedIsCovered /\ TasksFollowRevision
    BY Zenon DEF ValuesInv, ValuesTypeOK
  <2>3. \A t \in Tasks : task[t] = "converged" => active[t] # r /\ active'[t] = active[t]
    BY <2>1, <2>2 DEF BindTasks, Selectable, TasksFollowRevision
  <2> QED BY <2>1, <2>2, <2>3, Zenon DEF BindTasks, ConvergedIsCovered
<1>6. ASSUME NEW r \in Revisions, NEW u \in Users, NEW v \in Nat, Undo(r, u, v)
      PROVE  ConvergedIsCovered'
  BY <1>6 DEF Undo, Discard, Reject, Move, Unbind, ConvergedIsCovered, TasksFollowRevision, ValuesInv, ValuesTypeOK, revision, tasks
<1>7. ASSUME NEW r \in Revisions, NEW u \in Users, NEW v \in Nat, Submit(r, u, v)
      PROVE  ConvergedIsCovered'
  BY <1>7, Zenon DEF Submit, Move, ConvergedIsCovered, TasksFollowRevision, ValuesInv, ValuesTypeOK, revision, tasks
<1>8. ASSUME NEW r \in Revisions, NEW u \in Users, NEW v \in Nat, Approve(r, u, v)
      PROVE  ConvergedIsCovered'
  BY <1>8 DEF Approve, Supersede, Converge, ConvergedIsCovered, TasksFollowRevision, ValuesInv, ValuesTypeOK, revision, tasks
<1> QED BY StepKinds, <1>1, <1>2, <1>3, <1>4, <1>5, <1>6, <1>7, <1>8, Zenon

\* Owners of paths.
LEMMA PathStep ==
  ASSUME ValuesInv, Next PROVE PathOwnedOnce'
<1>1. ASSUME NEW t \in Tasks, OpenTask(t) \/ AbandonTask(t)
      PROVE  PathOwnedOnce'
  BY <1>1, NoNewOwner, ValuesAssumption DEF OpenTask, AbandonTask, Owner, TasksFollowRevision, ValuesInv, ValuesTypeOK, revision, tasks
<1>2. ASSUME NEW s \in Sessions, NEW u \in Users, NEW T \in SUBSET Tasks,
             NEW p \in Revisions \cup {NoRevision}, NEW v \in Nat, PrepareCheck(s, u, T, p, v)
      PROVE  PathOwnedOnce'
  BY <1>2, NoNewOwner, Zenon DEF PrepareCheck, Owner, tasks, ValuesInv
<1>3. ASSUME NEW s \in Sessions, Sweep(s)
      PROVE  PathOwnedOnce'
  <2>1. UNCHANGED tasks
    BY <1>3, SweepFrame, Zenon DEF ValuesInv
  <2> QED BY <2>1, NoNewOwner, Zenon DEF Owner, tasks, ValuesInv
<1>4. ASSUME NEW r \in Revisions, NEW u \in Users, NEW p \in Revisions \cup {NoRevision},
             NEW v \in Nat, CreatePlain(r, u, p, v)
      PROVE  PathOwnedOnce'
  BY <1>4, NoNewOwner, Zenon DEF CreatePlain, Owner, tasks, ValuesInv
<1>5. ASSUME NEW r \in Revisions, NEW u \in Users, NEW s \in Sessions, NEW c \in BOOLEAN,
             CreateConverging(r, u, s, c)
      PROVE  PathOwnedOnce'
  <2> DEFINE T == session[s].tasks
  <2>1. /\ PathOwnedOnce /\ active \in [Tasks -> Revisions \cup {NoRevision}]
        /\ \A t, x \in T : t # x => PathsOf[t] \cap PathsOf[x] = {}
    BY Zenon DEF ValuesInv, ValuesTypeOK, SessionPaths
  <2>2. BindTasks(T, r)
    BY <1>5, Zenon DEF CreateConverging
  <2> HIDE DEF T
  <2>3. \A t \in Tasks : Owner(t)' => t \in T \/ (Owner(t) /\ t \notin T)
    BY <2>1, <2>2, Zenon DEF BindTasks, Owner
  <2>4. \A t \in T, x \in Tasks : Owner(x) /\ x \notin T => PathsOf[t] \cap PathsOf[x] = {}
    BY <2>2, Zenon DEF BindTasks, PathConflict, Owner
  <2>5. \A t, x \in Tasks : Owner(t) /\ Owner(x) /\ t # x => PathsOf[t] \cap PathsOf[x] = {}
    BY <2>1, Zenon DEF PathOwnedOnce, Owner
  <2>6. \A t, x \in Tasks : Owner(t)' /\ Owner(x)' /\ t # x => PathsOf[t] \cap PathsOf[x] = {}
    BY <2>1, <2>3, <2>4, <2>5, Zenon
  <2> QED BY <2>6, Zenon DEF PathOwnedOnce, Owner
<1>6. ASSUME NEW r \in Revisions, NEW u \in Users, NEW v \in Nat, Undo(r, u, v)
      PROVE  PathOwnedOnce'
  BY <1>6, NoNewOwner, Zenon DEF Undo, Discard, Reject, Unbind, Owner, ValuesInv, ValuesTypeOK, revision, tasks
<1>7. ASSUME NEW r \in Revisions, NEW u \in Users, NEW v \in Nat, Submit(r, u, v)
      PROVE  PathOwnedOnce'
  BY <1>7, NoNewOwner, Zenon DEF Submit, Owner, tasks, ValuesInv
<1>8. ASSUME NEW r \in Revisions, NEW u \in Users, NEW v \in Nat, Approve(r, u, v)
      PROVE  PathOwnedOnce'
  BY <1>8, NoNewOwner, Zenon DEF Approve, Converge, Owner, ValuesInv, ValuesTypeOK, revision, tasks
<1> QED BY StepKinds, <1>1, <1>2, <1>3, <1>4, <1>5, <1>6, <1>7, <1>8, Zenon

\* Tokens.
LEMMA TokenStep ==
  ASSUME ValuesInv, Next PROVE TokenSpentOnce'
<1>1. ASSUME NEW t \in Tasks, OpenTask(t) \/ AbandonTask(t)
      PROVE  TokenSpentOnce'
  BY <1>1 DEF OpenTask, AbandonTask, TokenSpentOnce, Existing, Unborn, ValuesInv, ValuesTypeOK, revision, tasks
<1>2. ASSUME NEW s \in Sessions, NEW u \in Users, NEW T \in SUBSET Tasks,
             NEW p \in Revisions \cup {NoRevision}, NEW v \in Nat, PrepareCheck(s, u, T, p, v)
      PROVE  TokenSpentOnce'
  <2>1. /\ TokenSpentOnce /\ Existing' = Existing /\ origin' = origin
        /\ session[s].state = "none" /\ session'[s].state = "checked"
        /\ \A x \in Sessions : x # s => session'[x] = session[x]
    <3>1. TokenSpentOnce /\ ValuesTypeOK
      BY Zenon DEF ValuesInv
    <3>2. Existing' = Existing /\ origin' = origin
      BY <1>2, Zenon DEF PrepareCheck, Existing, revision
    <3> QED BY <1>2, <3>1, <3>2, CheckType, Zenon
  <2> QED BY <2>1 DEF TokenSpentOnce
<1>3. ASSUME NEW s \in Sessions, Sweep(s)
      PROVE  TokenSpentOnce'
  BY <1>3, SweepFrame DEF TokenSpentOnce, Existing, Unborn, ValuesInv, ValuesTypeOK, revision, tasks
<1>4. ASSUME NEW r \in Revisions, NEW u \in Users, NEW p \in Revisions \cup {NoRevision},
             NEW v \in Nat, CreatePlain(r, u, p, v)
      PROVE  TokenSpentOnce'
  BY <1>4, ValuesAssumption DEF CreatePlain, InsertDraft, TokenSpentOnce, Existing, Unborn, ValuesInv, ValuesTypeOK, revision, tasks
<1>5. ASSUME NEW r \in Revisions, NEW u \in Users, NEW s \in Sessions, NEW c \in BOOLEAN,
             CreateConverging(r, u, s, c)
      PROVE  TokenSpentOnce'
  <2>1. /\ TokenSpentOnce /\ ValuesTypeOK /\ Consume(s, u)
        /\ status[r] = "none" /\ status' = [status EXCEPT ![r] = "draft"]
        /\ origin' = [origin EXCEPT ![r] = s]
    BY <1>5, Zenon DEF CreateConverging, InsertDraft, ValuesInv
  <2>2. /\ Existing' = Existing \cup {r} /\ r \notin Existing
        /\ origin'[r] = s /\ \A q \in Existing : origin'[q] = origin[q]
    BY <2>1, Zenon DEF Existing, ValuesTypeOK
  <2>3. /\ session[s].state = "open" /\ session'[s].state = "consumed"
        /\ \A x \in Sessions : x # s => session'[x].state = session[x].state
    BY <2>1, ConsumeFrame
  <2>4. \A q \in Existing : origin[q] # s
    BY <2>1, <2>3, Zenon DEF TokenSpentOnce
  <2>5. \A q, x \in Existing' :
          origin'[q] \in Sessions /\ origin'[q] = origin'[x] => q = x
    BY <2>1, <2>2, <2>4 DEF TokenSpentOnce
  <2>6. ASSUME NEW y \in Sessions
        PROVE  /\ session'[y].state = "consumed" => \E q \in Existing' : origin'[q] = y
               /\ (\E q \in Existing' : origin'[q] = y) => session'[y].state \in {"consumed", "deleted"}
    <3>1. CASE y = s
      BY <3>1, <2>2, <2>3, Zenon
    <3>2. CASE y # s
      BY <3>2, <2>1, <2>2, <2>3 DEF TokenSpentOnce
    <3> QED BY <3>1, <3>2, Zenon
  <2> QED BY <2>5, <2>6, Zenon DEF TokenSpentOnce
<1>6. ASSUME NEW r \in Revisions, NEW u \in Users, NEW v \in Nat, Undo(r, u, v)
      PROVE  TokenSpentOnce'
  BY <1>6 DEF Undo, Discard, Reject, Move, Unbind, TokenSpentOnce, Existing, Unborn, ValuesInv, ValuesTypeOK, revision, tasks
<1>7. ASSUME NEW r \in Revisions, NEW u \in Users, NEW v \in Nat, Submit(r, u, v)
      PROVE  TokenSpentOnce'
  BY <1>7 DEF Submit, Move, TokenSpentOnce, Existing, Unborn, ValuesInv, ValuesTypeOK, revision, tasks
<1>8. ASSUME NEW r \in Revisions, NEW u \in Users, NEW v \in Nat, Approve(r, u, v)
      PROVE  TokenSpentOnce'
  BY <1>8 DEF Approve, Supersede, Converge, TokenSpentOnce, Existing, Unborn, ValuesInv, ValuesTypeOK, revision, tasks
<1> QED BY StepKinds, <1>1, <1>2, <1>3, <1>4, <1>5, <1>6, <1>7, <1>8, Zenon

\* Appending r to the chain, as version h + 1.
LEMMA ChainInsert ==
  ASSUME ValuesInv, NEW r \in Revisions, NEW h \in Nat,
         NEW p \in Revisions \cup {NoRevision}, NEW o \in Sessions \cup {NoSession},
         status[r] = "none", status' = [status EXCEPT ![r] = "draft"],
         version' = [version EXCEPT ![r] = h + 1],
         origin' = [origin EXCEPT ![r] = o], parent' = [parent EXCEPT ![r] = p],
         IsHead(h),
         o \in Sessions => IF h = 0 THEN p = NoRevision ELSE p \in Existing /\ version[p] = h
  PROVE  VersionChain'
<1>1. Existing' = Existing \cup {r} /\ r \notin Existing
  BY Zenon DEF Existing, ValuesInv, ValuesTypeOK
<1>2. /\ \A q \in Existing : version'[q] = version[q] /\ version[q] \in Nat /\ version[q] <= h
      /\ version'[r] = h + 1
  BY <1>1, Zenon DEF IsHead, Existing, ValuesInv, ValuesTypeOK
<1>3. \A q \in Existing' : version'[q] >= 1
  BY <1>1, <1>2 DEF ValuesInv, VersionChain
<1>4. \A q, x \in Existing' : version'[q] = version'[x] => q = x
  BY <1>1, <1>2 DEF ValuesInv, VersionChain
<1>5. \A q \in Existing' : version'[q] > 1 =>
        \E x \in Existing' : version'[x] = version'[q] - 1
  <2>1. ASSUME NEW q \in Existing, version'[q] > 1
        PROVE  \E x \in Existing' : version'[x] = version'[q] - 1
    BY <2>1, <1>1, <1>2 DEF ValuesInv, VersionChain
  <2>2. version'[r] > 1 => \E x \in Existing' : version'[x] = version'[r] - 1
    BY <1>1, <1>2 DEF IsHead
  <2> QED BY <2>1, <2>2, <1>1, Zenon
<1>6. /\ \A q \in Existing : q # r /\ origin'[q] = origin[q] /\ parent'[q] = parent[q]
      /\ origin'[r] = o /\ parent'[r] = p
  BY <1>1, Zenon DEF Existing, ValuesInv, ValuesTypeOK
<1>7. \A q \in Existing' : origin'[q] \in Sessions =>
        IF version'[q] = 1 THEN parent'[q] = NoRevision
        ELSE parent'[q] \in Existing' /\ version'[parent'[q]] = version'[q] - 1
  <2>1. ASSUME NEW q \in Existing, origin'[q] \in Sessions
        PROVE  IF version'[q] = 1 THEN parent'[q] = NoRevision
               ELSE parent'[q] \in Existing' /\ version'[parent'[q]] = version'[q] - 1
    BY <2>1, <1>1, <1>2, <1>6 DEF ValuesInv, VersionChain
  <2>2. ASSUME o \in Sessions
        PROVE  IF version'[r] = 1 THEN parent'[r] = NoRevision
               ELSE parent'[r] \in Existing' /\ version'[parent'[r]] = version'[r] - 1
    BY <2>2, <1>1, <1>2, <1>6
  <2> QED BY <2>1, <2>2, <1>1, <1>6
<1> QED BY <1>3, <1>4, <1>5, <1>7, Zenon DEF VersionChain

\* The chain of versions.
LEMMA ChainStep ==
  ASSUME ValuesInv, Next PROVE VersionChain'
<1>1. ASSUME NEW t \in Tasks, OpenTask(t) \/ AbandonTask(t)
      PROVE  VersionChain'
  BY <1>1, RowsUntouched, Zenon DEF OpenTask, AbandonTask
<1>2. ASSUME NEW s \in Sessions, NEW u \in Users, NEW T \in SUBSET Tasks,
             NEW p \in Revisions \cup {NoRevision}, NEW v \in Nat, PrepareCheck(s, u, T, p, v)
      PROVE  VersionChain'
  BY <1>2, RowsUntouched, Zenon DEF PrepareCheck
<1>3. ASSUME NEW s \in Sessions, Sweep(s)
      PROVE  VersionChain'
  BY <1>3, SweepFrame, RowsUntouched, Zenon DEF ValuesInv
<1>4. ASSUME NEW r \in Revisions, NEW u \in Users, NEW p \in Revisions \cup {NoRevision},
             NEW v \in Nat, CreatePlain(r, u, p, v)
      PROVE  VersionChain'
  BY <1>4, ChainInsert, ValuesAssumption, Zenon DEF CreatePlain, InsertDraft, ValidParent
<1>5. ASSUME NEW r \in Revisions, NEW u \in Users, NEW s \in Sessions, NEW c \in BOOLEAN,
             CreateConverging(r, u, s, c)
      PROVE  VersionChain'
  <2>1. session[s].state # "none" /\ session[s] \in Session
    BY <1>5, Zenon DEF CreateConverging, Consume, ValuesInv, ValuesTypeOK
  <2>2. /\ session[s].parent \in Revisions \cup {NoRevision} /\ session[s].parentVersion \in Nat
        /\ IF session[s].parentVersion = 0 THEN session[s].parent = NoRevision
           ELSE session[s].parent \in Existing /\ version[session[s].parent] = session[s].parentVersion
    BY <2>1, Zenon DEF ValuesInv, SessionParent, Session
  <2> QED BY <1>5, <2>2, ChainInsert, Zenon DEF CreateConverging, InsertDraft, ValidParent
<1>6. ASSUME NEW r \in Revisions, NEW u \in Users, NEW v \in Nat, Undo(r, u, v)
      PROVE  VersionChain'
  <2>1. Existing' = Existing /\ UNCHANGED <<version, origin, parent>>
    BY <1>6 DEF Undo, Discard, Reject, Move, Existing, ValuesInv, ValuesTypeOK
  <2>2. VersionChain
    BY Zenon DEF ValuesInv
  <2> QED BY <2>1, <2>2 DEF VersionChain
<1>7. ASSUME NEW r \in Revisions, NEW u \in Users, NEW v \in Nat, Submit(r, u, v)
      PROVE  VersionChain'
  <2>1. Existing' = Existing /\ UNCHANGED <<version, origin, parent>>
    BY <1>7, Zenon DEF Submit, Move, Existing, ValuesInv, ValuesTypeOK
  <2>2. VersionChain
    BY Zenon DEF ValuesInv
  <2> QED BY <2>1, <2>2, Zenon DEF VersionChain
<1>8. ASSUME NEW r \in Revisions, NEW u \in Users, NEW v \in Nat, Approve(r, u, v)
      PROVE  VersionChain'
  <2>1. Existing' = Existing /\ UNCHANGED <<version, origin, parent>>
    BY <1>8, Zenon DEF Approve, Supersede, Existing, ValuesInv, ValuesTypeOK
  <2>2. VersionChain
    BY Zenon DEF ValuesInv
  <2> QED BY <2>1, <2>2, Zenon DEF VersionChain
<1> QED BY StepKinds, <1>1, <1>2, <1>3, <1>4, <1>5, <1>6, <1>7, <1>8, Zenon

\* A decision that moves r from one state to another, and may supersede others.
LEMMA DecisionStep ==
  ASSUME ValuesInv, NEW r \in Revisions, NEW u \in Users, NEW from \in Status, NEW to \in Status,
         status[r] = from, status'[r] = to, Record(r, to, u), UNCHANGED creator,
         \/ from = "draft" /\ to \in {"pending_approval", "discarded"} /\ creator[r] = u
         \/ from = "pending_approval" /\ to \in {"approved", "rejected"} /\ creator[r] # u,
         stateVersion'[r] = stateVersion[r] + 1,
         \A q \in Revisions : q # r =>
           \/ status'[q] = status[q] /\ stateVersion'[q] = stateVersion[q]
           \/ status[q] = "approved" /\ status'[q] = "superseded" /\ stateVersion'[q] = stateVersion[q] + 1
  PROVE  EvidenceMatches'
<1> DEFINE new == [rev |-> r, to |-> to, actor |-> u]
<1>1. decisions' = decisions \cup {new} /\ new.rev = r /\ new.to = to /\ new.actor = u
  BY Zenon DEF Record
<1>2. \A d \in decisions : d.rev \in Revisions /\ d.to \in Status
  BY Zenon DEF ValuesInv, ValuesTypeOK, Decision
<1>3. \A d \in decisions : ~(d.rev = r /\ d.to = to)
  <2>1. ~ Decided(status[r], to)
    BY Zenon DEF Decided
  <2>2. (\E d \in decisions : d.rev = r /\ d.to = to) => Decided(status[r], to)
    BY Zenon DEF ValuesInv, EvidenceMatches
  <2> QED BY <2>1, <2>2, Zenon
<1> HIDE DEF new
<1>4. \A d \in decisions' : (d.actor = creator'[d.rev]) <=> (d.to \in {"pending_approval", "discarded"})
  BY <1>1 DEF ValuesInv, EvidenceMatches
<1>5. \A d, e \in decisions' : d.rev = e.rev /\ d.to = e.to => d = e
  <2>1. \A d, e \in decisions : d.rev = e.rev /\ d.to = e.to => d = e
    BY Zenon DEF ValuesInv, EvidenceMatches
  <2>2. ASSUME NEW d \in decisions', NEW e \in decisions', d.rev = e.rev, d.to = e.to
        PROVE  d = e
    <3>1. CASE d = new
      BY <3>1, <2>2, <1>1, <1>3
    <3>2. CASE e = new
      BY <3>2, <2>2, <1>1, <1>3
    <3>3. CASE d # new /\ e # new
      BY <3>3, <2>1, <2>2, <1>1, Zenon
    <3> QED BY <3>1, <3>2, <3>3, Zenon
  <2> QED BY <2>2, Zenon
<1>6. ASSUME NEW q \in Revisions, NEW x \in Status
      PROVE  (\E d \in decisions' : d.rev = q /\ d.to = x) <=> Decided(status'[q], x)
  <2>1. (\E d \in decisions : d.rev = q /\ d.to = x) <=> Decided(status[q], x)
    BY Zenon DEF ValuesInv, EvidenceMatches
  <2>2. (\E d \in decisions' : d.rev = q /\ d.to = x)
          <=> ((\E d \in decisions : d.rev = q /\ d.to = x) \/ (q = r /\ x = to))
    BY <1>1
  <2>3. Decided(status'[q], x) <=> (Decided(status[q], x) \/ (q = r /\ x = to))
    BY Zenon DEF Decided
  <2> QED BY <2>1, <2>2, <2>3, Zenon
<1>7. ASSUME NEW q \in Revisions PROVE stateVersion'[q] = Writes(status'[q])
  <2>1. stateVersion[q] = Writes(status[q])
    BY Zenon DEF ValuesInv, EvidenceMatches
  <2> QED BY <2>1 DEF Writes
<1> QED BY <1>4, <1>5, <1>6, <1>7, Zenon DEF EvidenceMatches

\* Decisions.
LEMMA EvidenceStep ==
  ASSUME ValuesInv, Next PROVE EvidenceMatches'
<1>1. ASSUME NEW t \in Tasks, OpenTask(t) \/ AbandonTask(t)
      PROVE  EvidenceMatches'
  BY <1>1, RowsUntouched, Zenon DEF OpenTask, AbandonTask
<1>2. ASSUME NEW s \in Sessions, NEW u \in Users, NEW T \in SUBSET Tasks,
             NEW p \in Revisions \cup {NoRevision}, NEW v \in Nat, PrepareCheck(s, u, T, p, v)
      PROVE  EvidenceMatches'
  BY <1>2, RowsUntouched, Zenon DEF PrepareCheck
<1>3. ASSUME NEW s \in Sessions, Sweep(s)
      PROVE  EvidenceMatches'
  BY <1>3, SweepFrame, RowsUntouched, Zenon DEF ValuesInv
<1>4. ASSUME NEW r \in Revisions, NEW u \in Users, NEW p \in Revisions \cup {NoRevision},
             NEW v \in Nat, CreatePlain(r, u, p, v)
      PROVE  EvidenceMatches'
  <2>1. \A d \in decisions : d.rev \in Revisions /\ d.to \in Status /\ d.rev # r
    BY <1>4 DEF CreatePlain, InsertDraft, EvidenceMatches, Decided, Decision, ValuesInv, ValuesTypeOK, revision, tasks
  <2> QED BY <1>4, <2>1 DEF CreatePlain, InsertDraft, EvidenceMatches, Decided, Writes, ValuesInv, ValuesTypeOK, revision, tasks
<1>5. ASSUME NEW r \in Revisions, NEW u \in Users, NEW s \in Sessions, NEW c \in BOOLEAN,
             CreateConverging(r, u, s, c)
      PROVE  EvidenceMatches'
  <2>1. \A d \in decisions : d.rev \in Revisions /\ d.to \in Status /\ d.rev # r
    BY <1>5 DEF CreateConverging, InsertDraft, EvidenceMatches, Decided, Decision, ValuesInv, ValuesTypeOK, revision, tasks
  <2> QED BY <1>5, <2>1 DEF CreateConverging, InsertDraft, EvidenceMatches, Decided, Writes, ValuesInv, ValuesTypeOK, revision, tasks
<1>6. ASSUME NEW r \in Revisions, NEW u \in Users, NEW v \in Nat, Undo(r, u, v)
      PROVE  EvidenceMatches'
  <2>1. CASE Discard(r, u, v)
    BY <2>1, DecisionStep, Zenon DEF Discard, Move, Status, ValuesInv, ValuesTypeOK, revision, tasks
  <2>2. CASE Reject(r, u, v)
    BY <2>2, DecisionStep, Zenon DEF Reject, Move, Status, ValuesInv, ValuesTypeOK, revision, tasks
  <2> QED BY <1>6, <2>1, <2>2, Zenon DEF Undo
<1>7. ASSUME NEW r \in Revisions, NEW u \in Users, NEW v \in Nat, Submit(r, u, v)
      PROVE  EvidenceMatches'
  BY <1>7, DecisionStep, Zenon DEF Submit, Move, Status, ValuesInv, ValuesTypeOK, revision, tasks
<1>8. ASSUME NEW r \in Revisions, NEW u \in Users, NEW v \in Nat, Approve(r, u, v)
      PROVE  EvidenceMatches'
  BY <1>8, DecisionStep DEF Approve, Supersede, Status, ValuesInv, ValuesTypeOK, revision, tasks
<1> QED BY StepKinds, <1>1, <1>2, <1>3, <1>4, <1>5, <1>6, <1>7, <1>8, Zenon

-----------------------------------------------------------------------------
(* The invariant, and what it implies.                                     *)

LEMMA ValuesInit == Init => ValuesInv
<1> SUFFICES ASSUME Init PROVE ValuesInv
  BY Zenon
<1>1. /\ \A r \in Revisions : status[r] = "none" /\ origin[r] = NoSession /\ stateVersion[r] = 0
      /\ \A t \in Tasks : active[t] = NoRevision /\ task[t] = "none"
      /\ \A s \in Sessions : session[s] = Unused
      /\ decisions = {} /\ approved = NoRevision /\ Existing = {}
  BY Zenon DEF Init, Existing
<1>2. ValuesTypeOK
  BY UnusedType, Zenon DEF Init, ValuesTypeOK, Status, TaskStatus
<1>3. Unborn /\ SessionParent /\ SessionPaths
  BY <1>1, UnusedType, Zenon DEF Unborn, SessionParent, SessionPaths
<1>4. ApprovedPointer /\ OnePending /\ ConvergedIsCovered /\ PathOwnedOnce
  BY <1>1, ValuesAssumption, Zenon DEF ApprovedPointer, OnePending, ConvergedIsCovered, PathOwnedOnce
<1>5. TasksFollowRevision
  BY <1>1, ValuesAssumption, Zenon DEF TasksFollowRevision
<1>6. TokenSpentOnce /\ VersionChain
  BY <1>1, UnusedType, Zenon DEF TokenSpentOnce, VersionChain
<1>7. EvidenceMatches
  BY <1>1, Zenon DEF EvidenceMatches, Decided, Writes
<1> QED BY <1>2, <1>3, <1>4, <1>5, <1>6, <1>7, Zenon DEF ValuesInv

LEMMA ValuesStutter == ValuesInv /\ UNCHANGED vars => ValuesInv'
<1> SUFFICES ASSUME ValuesInv, UNCHANGED vars PROVE ValuesInv'
  BY Zenon
<1> USE DEF vars, revision, tasks
<1>1. ValuesTypeOK' /\ Unborn' /\ SessionParent' /\ SessionPaths'
  BY Zenon DEF ValuesInv, ValuesTypeOK, Unborn, SessionParent, SessionPaths, Existing
<1>2. ApprovedPointer' /\ OnePending' /\ ConvergedIsCovered' /\ PathOwnedOnce'
  BY Zenon DEF ValuesInv, ApprovedPointer, OnePending, ConvergedIsCovered, PathOwnedOnce
<1>3. TasksFollowRevision' /\ TokenSpentOnce'
  <2>1. Existing' = Existing
    BY Zenon DEF Existing
  <2>2. TasksFollowRevision /\ TokenSpentOnce
    BY Zenon DEF ValuesInv
  <2>3. TasksFollowRevision'
    BY <2>2, TasksFrame, Zenon
  <2>4. TokenSpentOnce'
    BY <2>1, <2>2, Zenon DEF TokenSpentOnce
  <2> QED BY <2>3, <2>4, Zenon
<1> QED BY <1>1, <1>2, <1>3, RowsUntouched, Zenon DEF ValuesInv

LEMMA ValuesNext == ValuesInv /\ [Next]_vars => ValuesInv'
<1>1. ASSUME ValuesInv, Next PROVE ValuesInv'
  BY <1>1, TypeStep, UnbornStep, SessionParentStep, SessionPathsStep, PointerStep, PendingStep,
     TasksStep, CoveredStep, PathStep, TokenStep, ChainStep, EvidenceStep, Zenon DEF ValuesInv
<1> QED BY <1>1, ValuesStutter, Zenon

\* The inductive invariant holds in every reachable state.
THEOREM ValuesInvariant == Spec => []ValuesInv
BY ValuesInit, ValuesNext, PTL DEF Spec

\* Whatever is created, submitted, approved, rejected and discarded, at most one
\* revision of the definition awaits a decision and the approved pointer names
\* the one approved revision.
THEOREM OneHeadOfApproval == Spec => [](OnePending /\ ApprovedPointer)
<1>1. ValuesInv => OnePending /\ ApprovedPointer
  BY Zenon DEF ValuesInv
<1> QED BY <1>1, ValuesInvariant, PTL

\* A convergence task stays bound to the one revision that carries it: pending
\* while the revision is undecided, converged once it is approved.
THEOREM BindingsFollow == Spec => []TasksFollowRevision
<1>1. ValuesInv => TasksFollowRevision
  BY Zenon DEF ValuesInv
<1> QED BY <1>1, ValuesInvariant, PTL

\* A task converges only into a revision whose document covers its paths.
THEOREM ConvergenceFollows == Spec => []ConvergedIsCovered
<1>1. ValuesInv => ConvergedIsCovered
  BY Zenon DEF ValuesInv
<1> QED BY <1>1, ValuesInvariant, PTL

\* No values path is owned by two undecided revisions.
THEOREM PathsDisjoint == Spec => []PathOwnedOnce
<1>1. ValuesInv => PathOwnedOnce
  BY Zenon DEF ValuesInv
<1> QED BY <1>1, ValuesInvariant, PTL

\* Prepare tokens are spent once, on a draft that extends the head they named,
\* and versions have neither gaps nor duplicates.
THEOREM ChainUnbroken == Spec => [](TokenSpentOnce /\ VersionChain)
<1>1. ValuesInv => TokenSpentOnce /\ VersionChain
  BY Zenon DEF ValuesInv
<1> QED BY <1>1, ValuesInvariant, PTL

\* Each state of a revision has exactly the decisions behind it that lead to it,
\* each by a user entitled to it.
THEOREM EvidenceComplete == Spec => []EvidenceMatches
<1>1. ValuesInv => EvidenceMatches
  BY Zenon DEF ValuesInv
<1> QED BY <1>1, ValuesInvariant, PTL
=============================================================================
