--------------------------- MODULE ValuesApproval ---------------------------
(***************************************************************************)
(* The values revisions of one release definition: drafts, their approval, *)
(* and the convergence of emergency changes into an approved revision.     *)
(*                                                                         *)
(* A committed emergency change leaves a convergence task that owns some   *)
(* values paths.  A user prepares a session for a selection of tasks,      *)
(* creates a draft from its token (which binds the tasks), submits it, and *)
(* a second user approves it (which converges the tasks) or rejects it.    *)
(*                                                                         *)
(* Every write transaction below begins and ends with                      *)
(* checkAuthorizationFence, an UPDATE of the single row of                 *)
(* authorization_source_version: the row lock serialises them, so each is  *)
(* one action.  What a handler reads before its transaction is immutable   *)
(* (creator, document, locked paths), is read again inside, or, for        *)
(* CreatePrepareSession, is a step of its own.  A stale fence, a refused   *)
(* request and an idempotent replay change none of this state; a call      *)
(* without a key, or after its record's 24 hours, is evaluated afresh, so  *)
(* here every call is.                                                     *)
(***************************************************************************)
EXTENDS Naturals, FiniteSets

CONSTANTS
  Users,        \* users allowed to write values of the definition
  Revisions,    \* identifiers of values revisions (a fresh UUID per create)
  Sessions,     \* prepare tokens
  Tasks,        \* convergence tasks of the definition
  Paths,        \* values paths
  PathsOf,      \* promotion paths of each task
  NoRevision, NoSession, NoUser

ASSUME ValuesAssumption ==
  /\ PathsOf \in [Tasks -> SUBSET Paths]
  /\ IsFiniteSet(Revisions)
  /\ NoRevision \notin Revisions
  /\ NoSession \notin Sessions
  /\ NoUser \notin Users

VARIABLES
  status,       \* values_revisions.status
  version,      \* values_revisions.version, 0 while the row does not exist
  stateVersion, \* values_revisions.state_version
  parent,       \* values_revisions.parent_revision_id
  creator,      \* values_revisions.created_by_user_id
  origin,       \* the session whose tasks and locked paths the row carries
  covers,       \* the document covers every locked path
  decisions,    \* values_revision_decisions
  approved,     \* release_definitions.approved_revision_id
  task,         \* convergence_tasks.status
  active,       \* convergence_tasks.active_revision_id
  session       \* convergence_prepare_sessions

revision == <<status, version, stateVersion, parent, creator, origin, covers>>
tasks == <<task, active>>
vars == <<revision, decisions, approved, tasks, session>>

Status == {"none", "draft", "pending_approval", "approved", "rejected",
           "superseded", "discarded"}
TaskStatus == {"none", "pending_promotion", "converged", "abandoned"}
SessionState == {"none", "checked", "refused", "open", "expired", "consumed",
                 "deleted"}

Decision == [rev : Revisions, to : Status, actor : Users]
Session == [state : SessionState, actor : Users \cup {NoUser},
            parent : Revisions \cup {NoRevision}, parentVersion : Nat,
            tasks : SUBSET Tasks]

Unused == [state |-> "none", actor |-> NoUser, parent |-> NoRevision,
           parentVersion |-> 0, tasks |-> {}]

Init ==
  /\ status = [r \in Revisions |-> "none"]
  /\ version = [r \in Revisions |-> 0]
  /\ stateVersion = [r \in Revisions |-> 0]
  /\ parent = [r \in Revisions |-> NoRevision]
  /\ creator = [r \in Revisions |-> NoUser]
  /\ origin = [r \in Revisions |-> NoSession]
  /\ covers = [r \in Revisions |-> TRUE]
  /\ decisions = {}
  /\ approved = NoRevision
  /\ task = [t \in Tasks |-> "none"]
  /\ active = [t \in Tasks |-> NoRevision]
  /\ session = [s \in Sessions |-> Unused]

Existing == {r \in Revisions : status[r] # "none"}

\* SELECT MAX(version): h is the newest version, 0 in an empty chain.
IsHead(h) ==
  \/ Existing = {} /\ h = 0
  \/ /\ \E r \in Existing : version[r] = h
     /\ \A r \in Existing : version[r] <= h


\* validateValuesParent: the parent must exist, it need not be the head.
ValidParent(p, expected) ==
  /\ IsHead(expected)
  /\ IF Existing = {} THEN p = NoRevision ELSE p \in Existing

\* A task that LockedPathsForTasks lets a session select.
Selectable(t) == task[t] = "pending_promotion" /\ active[t] = NoRevision

\* Mutant: paths owned by other bound tasks are not looked up.
PathConflictIgnored(T) == FALSE

\* HasActiveConvergencePathConflict: a task outside T that is bound to a
\* revision shares a path with T.
PathConflict(T) ==
  \E t \in T, u \in Tasks \ T :
    /\ task[u] = "pending_promotion" /\ active[u] # NoRevision
    /\ PathsOf[t] \cap PathsOf[u] # {}

-----------------------------------------------------------------------------
(* Convergence tasks: written by the emergency path.                       *)

\* A committed emergency change opens its task.  The gate on the path was read
\* before that transaction, so two tasks may own the same path.
OpenTask(t) ==
  /\ task[t] = "none"
  /\ task' = [task EXCEPT ![t] = "pending_promotion"]
  /\ UNCHANGED <<revision, decisions, approved, active, session>>

\* abandonConvergenceTaskTx: the change turned out NOT_APPLIED.  The DELETE is
\* not fenced and takes a bound task too.
AbandonTask(t) ==
  /\ task[t] = "pending_promotion"
  /\ task' = [task EXCEPT ![t] = "abandoned"]
  /\ active' = [active EXCEPT ![t] = NoRevision]
  /\ UNCHANGED <<revision, decisions, approved, session>>

-----------------------------------------------------------------------------
(* Prepare sessions.                                                       *)

\* The reads of CreatePrepareSession: the head of the chain, and that the
\* selected tasks are free and do not overlap.  Paths that other bound tasks
\* own are looked up too, but an error of that listing counts as no conflict,
\* so it guards nothing here.
PrepareCheck(s, u, T, p, v) ==
  /\ session[s].state = "none"
  /\ T # {}
  /\ \A t \in T : Selectable(t)
  /\ \A t, x \in T : t # x => PathsOf[t] \cap PathsOf[x] = {}
  /\ IsHead(v)
  /\ IF Existing = {} THEN p = NoRevision ELSE p \in Existing /\ version[p] = v
  /\ session' = [session EXCEPT ![s] =
       [state |-> "checked", actor |-> u, parent |-> p, parentVersion |-> v,
        tasks |-> T]]
  /\ UNCHANGED <<revision, decisions, approved, tasks>>

SetState(s, to) == session' = [session EXCEPT ![s].state = to]

\* The fenced insert: it repeats none of the checks.
PrepareInsert(s) ==
  /\ session[s].state = "checked"
  /\ SetState(s, "open") \/ SetState(s, "refused")
  /\ UNCHANGED <<revision, decisions, approved, tasks>>

ExpireSession(s) ==
  /\ session[s].state = "open"
  /\ SetState(s, "expired")
  /\ UNCHANGED <<revision, decisions, approved, tasks>>

\* runPrepareSessionGC deletes what has expired or was consumed.
DeleteSession(s) ==
  /\ session[s].state \in {"expired", "consumed"}
  /\ SetState(s, "deleted")
  /\ UNCHANGED <<revision, decisions, approved, tasks>>

-----------------------------------------------------------------------------
(* Drafts.                                                                 *)

\* insertValuesDraft: the row, with version head + 1 and state_version 1.
InsertDraft(r, u, p, head, s, c) ==
  /\ status[r] = "none"
  /\ status' = [status EXCEPT ![r] = "draft"]
  /\ version' = [version EXCEPT ![r] = head + 1]
  /\ stateVersion' = [stateVersion EXCEPT ![r] = 1]
  /\ parent' = [parent EXCEPT ![r] = p]
  /\ creator' = [creator EXCEPT ![r] = u]
  /\ origin' = [origin EXCEPT ![r] = s]
  /\ covers' = [covers EXCEPT ![r] = c]

\* CreateValuesRevision without a prepare token: no locked paths to cover.
CreatePlain(r, u, p, expected) ==
  /\ ValidParent(p, expected)
  /\ InsertDraft(r, u, p, expected, NoSession, TRUE)
  /\ UNCHANGED <<decisions, approved, tasks, session>>


\* consumePrepareSession.
Consume(s, u) ==
  /\ session[s].state = "open" /\ session[s].actor = u
  /\ SetState(s, "consumed")

\* bindPrepareTasks.
BindTasks(T, r) ==
  /\ \A t \in T : Selectable(t)
  /\ ~PathConflict(T)
  /\ active' = [t \in Tasks |-> IF t \in T THEN r ELSE active[t]]
  /\ UNCHANGED task

\* CreateValuesRevision with a token: the parent is the session's, and the
\* token, the draft and the bindings are written in one transaction.
CreateConverging(r, u, s, c) ==
  /\ Consume(s, u)
  /\ ValidParent(session[s].parent, session[s].parentVersion)
  /\ InsertDraft(r, u, session[s].parent, session[s].parentVersion, s, c)
  /\ BindTasks(session[s].tasks, r)
  /\ UNCHANGED <<decisions, approved>>

-----------------------------------------------------------------------------
(* Decisions.                                                              *)


Record(r, to, u) == decisions' = decisions \cup {[rev |-> r, to |-> to, actor |-> u]}

\* The CAS of updateValuesApprovalRevisionState and of Discard.
Move(r, from, to, expected) ==
  /\ status[r] = from /\ stateVersion[r] = expected
  /\ status' = [status EXCEPT ![r] = to]
  /\ stateVersion' = [stateVersion EXCEPT ![r] = expected + 1]
  /\ UNCHANGED <<version, parent, creator, origin, covers>>

\* Mutant: the bindings are left in place.
UnbindNothing(r) == UNCHANGED <<active, task>>

\* Every binding to r is cleared; the tasks stay pending_promotion.
Unbind(r) ==
  /\ active' = [t \in Tasks |-> IF active[t] = r THEN NoRevision ELSE active[t]]
  /\ UNCHANGED task

\* DiscardValuesRevision: the creator gives a draft up.
Discard(r, u, expected) ==
  /\ creator[r] = u
  /\ Move(r, "draft", "discarded", expected)
  /\ Record(r, "discarded", u)
  /\ Unbind(r)
  /\ UNCHANGED <<approved, session>>


\* ensureNoPendingValuesRevision, backed by a unique index.
NonePending == \A q \in Revisions : status[q] # "pending_approval"

Submit(r, u, expected) ==
  /\ creator[r] = u
  /\ NonePending
  /\ Move(r, "draft", "pending_approval", expected)
  /\ Record(r, "pending_approval", u)
  /\ UNCHANGED <<approved, tasks, session>>


Reject(r, u, expected) ==
  /\ creator[r] # u
  /\ Move(r, "pending_approval", "rejected", expected)
  /\ Record(r, "rejected", u)
  /\ Unbind(r)
  /\ UNCHANGED <<approved, session>>

\* Mutant: the earlier approved revision is not superseded.
SupersedeNothing(r, expected) == Move(r, "pending_approval", "approved", expected)

\* supersedeApprovedValuesRevisions and the CAS on r, in one transaction.
Supersede(r, expected) ==
  /\ status[r] = "pending_approval" /\ stateVersion[r] = expected
  /\ status' = [q \in Revisions |->
       IF q = r THEN "approved"
       ELSE IF status[q] = "approved" THEN "superseded" ELSE status[q]]
  /\ stateVersion' = [q \in Revisions |->
       IF q = r THEN expected + 1
       ELSE IF status[q] = "approved" THEN stateVersion[q] + 1 ELSE stateVersion[q]]
  /\ UNCHANGED <<version, parent, creator, origin, covers>>

\* The tasks bound to r converge with it.
Converge(r) ==
  /\ task' = [t \in Tasks |->
       IF active[t] = r /\ task[t] = "pending_promotion" THEN "converged"
       ELSE task[t]]
  /\ UNCHANGED active

\* Mutant: the coverage gate is skipped.
ApproveUncovered(r, u, expected) ==
  /\ creator[r] # u
  /\ Supersede(r, expected)
  /\ Converge(r)
  /\ approved' = r
  /\ Record(r, "approved", u)
  /\ UNCHANGED session

Approve(r, u, expected) ==
  /\ creator[r] # u
  /\ covers[r]
  /\ Supersede(r, expected)
  /\ Converge(r)
  /\ approved' = r
  /\ Record(r, "approved", u)
  /\ UNCHANGED session

-----------------------------------------------------------------------------
Versions == 0 .. Cardinality(Revisions)
StateVersions == 1 .. 4

Next ==
  \/ \E t \in Tasks : OpenTask(t) \/ AbandonTask(t)
  \/ \E s \in Sessions, u \in Users, T \in SUBSET Tasks,
        p \in Revisions \cup {NoRevision}, v \in Versions :
       PrepareCheck(s, u, T, p, v)
  \/ \E s \in Sessions : PrepareInsert(s) \/ ExpireSession(s) \/ DeleteSession(s)
  \/ \E r \in Revisions, u \in Users, p \in Revisions \cup {NoRevision},
        v \in Versions :
       CreatePlain(r, u, p, v)
  \/ \E r \in Revisions, u \in Users, s \in Sessions, c \in BOOLEAN :
       CreateConverging(r, u, s, c)
  \/ \E r \in Revisions, u \in Users, v \in StateVersions :
       Discard(r, u, v) \/ Submit(r, u, v) \/ Reject(r, u, v) \/ Approve(r, u, v)

Spec == Init /\ [][Next]_vars

-----------------------------------------------------------------------------
\* Every row and every pointer holds values of its column.
ValuesTypeOK ==
  /\ status \in [Revisions -> Status]
  /\ version \in [Revisions -> Nat]
  /\ stateVersion \in [Revisions -> Nat]
  /\ parent \in [Revisions -> Revisions \cup {NoRevision}]
  /\ creator \in [Revisions -> Users \cup {NoUser}]
  /\ origin \in [Revisions -> Sessions \cup {NoSession}]
  /\ covers \in [Revisions -> BOOLEAN]
  /\ decisions \subseteq Decision
  /\ approved \in Revisions \cup {NoRevision}
  /\ task \in [Tasks -> TaskStatus]
  /\ active \in [Tasks -> Revisions \cup {NoRevision}]
  /\ session \in [Sessions -> Session]

\* Across any order of submissions, approvals and discards, the approved
\* pointer of the definition names the one approved revision: the pointer, the
\* supersession and the approval of transition() never diverge.
ApprovedPointer ==
  \A r \in Revisions : status[r] = "approved" <=> approved = r

\* Two drafts submitted concurrently: at most one awaits a decision.
OnePending ==
  \A r, q \in Revisions :
    status[r] = "pending_approval" /\ status[q] = "pending_approval" => r = q

\* The row of r names t in convergence_task_ids.
Carries(r, t) == origin[r] \in Sessions /\ t \in session[origin[r]].tasks

\* What a revision took over stays with it: while it is undecided each of its
\* tasks is bound to it, once it is approved each is converged by it, and a
\* rejected or discarded revision holds none back, unless the emergency change
\* was NOT_APPLIED and its task deleted meanwhile.  No task is bound to a
\* revision that does not carry it.
TasksFollowRevision ==
  \A r \in Revisions, t \in Tasks :
    /\ active[t] = r =>
         /\ Carries(r, t)
         /\ \/ task[t] = "pending_promotion" /\ status[r] \in {"draft", "pending_approval"}
            \/ task[t] = "converged" /\ status[r] \in {"approved", "superseded"}
    /\ Carries(r, t) /\ task[t] # "abandoned" =>
         /\ status[r] \in {"draft", "pending_approval"} => active[t] = r
         /\ status[r] \in {"approved", "superseded"} =>
              active[t] = r /\ task[t] = "converged"

\* A task converges only into a revision whose document covers its paths.
ConvergedIsCovered ==
  \A t \in Tasks : task[t] = "converged" =>
    active[t] \in Revisions /\ covers[active[t]]

\* Two undecided revisions never own the same values path, although the tasks
\* were checked when the sessions were prepared and bound much later.
PathOwnedOnce ==
  \A t, u \in Tasks :
    /\ task[t] = "pending_promotion" /\ active[t] # NoRevision
    /\ task[u] = "pending_promotion" /\ active[u] # NoRevision
    /\ t # u
    => PathsOf[t] \cap PathsOf[u] = {}

\* A prepare token creates one draft, and it is consumed exactly when that draft
\* exists: no token is lost by a create that fails after consuming it.
TokenSpentOnce ==
  /\ \A r, q \in Existing :
       origin[r] \in Sessions /\ origin[r] = origin[q] => r = q
  /\ \A s \in Sessions :
       /\ session[s].state = "consumed" => \E r \in Existing : origin[r] = s
       /\ (\E r \in Existing : origin[r] = s) => session[s].state \in {"consumed", "deleted"}

\* The versions of a definition count from 1 without gap or duplicate, and a
\* revision that converges tasks was built on the version just before it: no
\* revision slipped in between its preparation and its creation.
VersionChain ==
  /\ \A r \in Existing : version[r] >= 1
  /\ \A r, q \in Existing : version[r] = version[q] => r = q
  /\ \A r \in Existing : version[r] > 1 =>
       \E q \in Existing : version[q] = version[r] - 1
  /\ \A r \in Existing : origin[r] \in Sessions =>
       IF version[r] = 1 THEN parent[r] = NoRevision
       ELSE parent[r] \in Existing /\ version[parent[r]] = version[r] - 1

\* The decisions a revision in state st has behind it, and how often its
\* state_version was written.
Decided(st, to) ==
  \/ to = "pending_approval" /\ st \in {"pending_approval", "approved", "rejected", "superseded"}
  \/ to = "approved" /\ st \in {"approved", "superseded"}
  \/ to = st /\ st \in {"rejected", "discarded"}
Writes(st) ==
  CASE st = "none" -> 0
    [] st = "draft" -> 1
    [] st \in {"discarded", "pending_approval"} -> 2
    [] st \in {"approved", "rejected"} -> 3
    [] OTHER -> 4

\* The decision table tells the story of each revision: each decision is
\* recorded once, in order and by someone entitled to it (the creator submits
\* and discards, another user approves or rejects), and state_version counts
\* them, whatever was retried.
EvidenceMatches ==
  /\ \A d \in decisions :
       (d.actor = creator[d.rev]) <=> (d.to \in {"pending_approval", "discarded"})
  /\ \A d, e \in decisions : d.rev = e.rev /\ d.to = e.to => d = e
  /\ \A r \in Revisions, to \in Status :
       (\E d \in decisions : d.rev = r /\ d.to = to) <=> Decided(status[r], to)
  /\ \A r \in Revisions : stateVersion[r] = Writes(status[r])
=============================================================================
