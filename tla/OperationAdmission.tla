------------------------- MODULE OperationAdmission -------------------------
(***************************************************************************)
(* How a request becomes an operation of ONE release definition.           *)
(*                                                                         *)
(* The authorization service keeps memberships and a source version that   *)
(* every membership change bumps, and compiles the memberships into policy *)
(* rules it caches in memory. The orchestrator pulls a snapshot for the    *)
(* actor, compares it with the checkpoint it persisted, decides, and hands *)
(* the source version it decided by to the creation transaction. There the *)
(* version is a fence: an UPDATE that changes nothing takes the lock of    *)
(* the version's only row, so creators and membership changes wait for one *)
(* another (PostgreSQL, read committed).                                   *)
(*                                                                         *)
(* Handlers are cut at every read or write another process can come        *)
(* between; between the fence and the commit the row lock is held.         *)
(***************************************************************************)
EXTENDS Integers, FiniteSets

CONSTANTS
    Requests,    \* requests to create an operation on the definition
    NoRequest,   \* nobody; and in a pull, the background refresh
    Actors,      \* who asks
    Actor,       \* Actor[r]: who makes request r
    Kind,        \* Kind[r]: "install" (also upgrade), "rollback" or "emergency"
    Key,         \* Key[r]: its idempotency key; a retry carries the same one
    Services,    \* processes with an enforcer over the same rules table
    AuthService, \* the one of them that serves authorization snapshots
    FirstRoles,  \* the memberships the system starts with
    Turns,       \* the roles a membership may change to (bound)
    MaxSource,   \* membership changes stop at this source version (bound)
    MaxPolicy,   \* explicit refreshes stop at this policy version (bound)
    Faults       \* whether calls fail and requests are abandoned

Roles == {"admin", "viewer", "gone"}

ASSUME AdmissionAssumption ==
    /\ NoRequest \notin Requests
    /\ Actor \in [Requests -> Actors]
    /\ Kind \in [Requests -> {"install", "rollback", "emergency"}]
    /\ FirstRoles \in [Actors -> Roles]
    /\ AuthService \in Services
    /\ Turns \subseteq Roles
    /\ MaxSource \in Nat /\ MaxPolicy \in Nat /\ Faults \in BOOLEAN

VARIABLES
    source, policy, \* authorization_source_version and policy_version
    role,           \* memberships and bindings: what each actor is
    rules,          \* casbin_rule: the memberships as last compiled
    enforcer,       \* the rules in each service's memory
    healthy,        \* policyHealthy
    reload,         \* program counter of its one policy reload (refreshMu)
    checkpoint,     \* authorization_checkpoints row of the scope
    entry,          \* the orchestrator's cached snapshot of each actor
    pull,           \* program counter of each actor's pull (pullMu)
    req,            \* program counter of each request
    fence,          \* the source version its decision was made by
    lock,           \* who holds the row lock of authorization_source_version
    op              \* op[r]: the operation request r created

authVars  == <<source, policy, role, rules, enforcer, healthy, reload>>
cacheVars == <<checkpoint, entry, pull>>
opVars    == <<req, fence, lock, op>>
vars == <<source, policy, role, rules, enforcer, healthy, reload, checkpoint, entry, pull,
          req, fence, lock, op>>

-----------------------------------------------------------------------------
(* Vocabulary. *)

NoRoles  == [a \in Actors |-> "gone"]
NoReload == [pc |-> "idle", source |-> 0, policy |-> 0, rules |-> NoRoles]
NoPull   == [pc |-> "idle", by |-> NoRequest, source |-> 0, policy |-> 0,
             role |-> "gone", cap |-> FALSE, last |-> [source |-> 0, policy |-> 0]]
NoEntry  == [known |-> FALSE, source |-> 0, role |-> "gone", cap |-> FALSE, fresh |-> FALSE]

\* release_admin and platform_admin: the roles that create operations, and whose
\* compiled rules allow emergency changes.
Permits(x) == x = "admin"

Before(v, w) == v.source < w.source \/ v.policy < w.policy

Init ==
    /\ source = 0 /\ policy = 0
    /\ role = FirstRoles
    /\ rules = NoRoles
    /\ enforcer = [s \in Services |-> NoRoles]
    /\ healthy = [s \in Services |-> FALSE]
    /\ reload = [s \in Services |-> NoReload]
    /\ checkpoint = [source |-> 0, policy |-> 0]
    /\ entry = [a \in Actors |-> NoEntry]
    /\ pull = [a \in Actors |-> NoPull]
    /\ req = [r \in Requests |-> "idle"]
    /\ fence = [r \in Requests |-> 0]
    /\ lock = NoRequest
    /\ op = [r \in Requests |-> "none"]

-----------------------------------------------------------------------------
(* The authorization service: memberships and policy. *)

\* A member is added, changed or removed, a user disabled, a binding made or
\* broken: the fact and bumpAuthorizationSourceVersion in one transaction, which
\* waits for the version's row lock.
ChangeMembership(a, x) ==
    /\ lock = NoRequest /\ source < MaxSource /\ role[a] # x
    /\ role' = [role EXCEPT ![a] = x]
    /\ source' = source + 1
    /\ UNCHANGED <<policy, rules, enforcer, healthy, reload, cacheVars, opVars>>

\* LoadPolicies at start and on the reloader's tick, or RefreshPolicies after a
\* membership call (served once the first load is done): the durable versions and
\* rules are loaded ...
ReloadBegin(s) ==
    /\ reload[s].pc = "idle"
    /\ \E pc \in {"load", "refresh"} :
          /\ pc = "refresh" => source > 0 /\ policy < MaxPolicy
          /\ reload' = [reload EXCEPT ![s] = [NoReload EXCEPT !.pc = pc, !.source = source,
                                                              !.policy = policy]]
    /\ UNCHANGED <<source, policy, role, rules, enforcer, healthy, cacheVars, opVars>>

\* A mutant of ReloadCompile: a tick takes the stored rules as they are.
ReloadCompileStored(s) ==
    /\ reload[s].pc \in {"load", "refresh"}
    /\ reload' = [reload EXCEPT ![s].rules = role,
                     ![s].pc = IF reload[s].pc = "refresh" THEN "reapply" ELSE "memory"]
    /\ UNCHANGED <<source, policy, role, rules, enforcer, healthy, cacheVars, opVars>>

\* ... the current memberships are compiled, and a reload that finds them in the
\* table already goes straight to memory ...
ReloadCompile(s) ==
    /\ reload[s].pc \in {"load", "refresh"}
    /\ reload' = [reload EXCEPT ![s].rules = role,
                     ![s].pc = CASE reload[s].pc = "refresh" -> "reapply"
                                 [] reload[s].pc = "load" /\ role # rules -> "apply"
                                 [] OTHER -> "memory"]
    /\ UNCHANGED <<source, policy, role, rules, enforcer, healthy, cacheVars, opVars>>

Applies(s) == source = reload[s].source /\ policy = reload[s].policy

\* ... authorizationStore.Apply replaces the rules if both versions still stand
\* (its UPDATE of the source version waits for the row lock); the first rules ever
\* count as a membership change. A reload that loses marks the policy unhealthy, a
\* refresh just returns the error.
ReloadApply(s) ==
    /\ reload[s].pc \in {"apply", "reapply"} /\ lock = NoRequest
    /\ IF Applies(s)
       THEN /\ rules' = reload[s].rules
            /\ policy' = policy + 1
            /\ source' = IF source = 0 THEN 1 ELSE source
            /\ reload' = [reload EXCEPT ![s] = IF @.pc = "apply" THEN [@ EXCEPT !.pc = "memory"]
                                               ELSE [NoReload EXCEPT !.pc = "again"]]
            /\ UNCHANGED healthy
       ELSE /\ healthy' = [healthy EXCEPT ![s] = @ /\ reload[s].pc = "reapply"]
            /\ reload' = [reload EXCEPT ![s] = NoReload]
            /\ UNCHANGED <<rules, policy, source>>
    /\ UNCHANGED <<role, enforcer, cacheVars, opVars>>

\* RefreshPolicies ends with a reload.
ReloadAgain(s) ==
    /\ reload[s].pc = "again"
    /\ reload' = [reload EXCEPT ![s] = [@ EXCEPT !.pc = "load", !.source = source,
                                                 !.policy = policy]]
    /\ UNCHANGED <<source, policy, role, rules, enforcer, healthy, cacheVars, opVars>>

\* ... and the enforcer takes the rules the table now holds.
ReloadMemory(s) ==
    /\ reload[s].pc = "memory"
    /\ enforcer' = [enforcer EXCEPT ![s] = rules]
    /\ healthy' = [healthy EXCEPT ![s] = TRUE]
    /\ reload' = [reload EXCEPT ![s] = NoReload]
    /\ UNCHANGED <<source, policy, role, rules, cacheVars, opVars>>

-----------------------------------------------------------------------------
(* The pull: GetAuthorizationSnapshot, then the comparison with the checkpoint. *)

\* A pull starts for a request, or for the background refresh of an actor that
\* has asked before; the service loads the source version first.
PullBegin(a, r) ==
    /\ pull[a].pc = "idle"
    /\ IF r = NoRequest
       THEN entry[a].known /\ UNCHANGED <<req, entry>>
       ELSE /\ Actor[r] = a /\ req[r] = "idle"
            /\ req' = [req EXCEPT ![r] = "pulling"]
            /\ entry' = [entry EXCEPT ![a].known = TRUE]
    /\ pull' = [pull EXCEPT ![a] = [NoPull EXCEPT !.pc = "facts", !.by = r, !.source = source]]
    /\ UNCHANGED <<authVars, checkpoint, fence, lock, op>>

\* What the pull's end is for the request that made it.
Resume(a, to) ==
    req' = IF pull[a].by = NoRequest THEN req ELSE [req EXCEPT ![pull[a].by] = to]

\* A pull that fails, for whatever reason, is a stale snapshot to the client.
PullEnds(a) ==
    /\ pull' = [pull EXCEPT ![a] = NoPull]
    /\ Resume(a, "stale")

\* The service reads the facts after the version: membership and binding, the
\* policy's health, the capability from memory. Without membership it refuses.
PullFacts(a) ==
    /\ pull[a].pc = "facts"
    /\ IF role[a] = "gone" \/ ~healthy[AuthService]
       THEN PullEnds(a)
       ELSE /\ pull' = [pull EXCEPT ![a] = [@ EXCEPT !.pc = "compare", !.policy = policy,
                            !.role = role[a], !.cap = Permits(enforcer[AuthService][a])]]
            /\ UNCHANGED req
    /\ UNCHANGED <<authVars, checkpoint, entry, fence, lock, op>>

\* The call times out, or the checkpoint cannot be read or written.
PullFails(a) ==
    /\ Faults /\ pull[a].pc # "idle"
    /\ PullEnds(a)
    /\ UNCHANGED <<authVars, checkpoint, entry, fence, lock, op>>

\* A mutant of PullCompare: the version reported is read after the facts.
PullCompareLate(a) ==
    /\ pull[a].pc = "compare"
    /\ pull' = [pull EXCEPT ![a] = [@ EXCEPT !.pc = "save", !.source = source, !.last = checkpoint]]
    /\ UNCHANGED <<authVars, checkpoint, entry, opVars>>

\* A mutant of PullCompare: a snapshot at the checkpoint counts as a regression.
PullCompareStrict(a) ==
    /\ pull[a].pc = "compare"
    /\ IF ~Before(checkpoint, pull[a])
       THEN PullEnds(a)
       ELSE /\ pull' = [pull EXCEPT ![a] = [@ EXCEPT !.pc = "save", !.last = checkpoint]]
            /\ UNCHANGED req
    /\ UNCHANGED <<authVars, checkpoint, entry, fence, lock, op>>

\* GetCheckpoint; a snapshot behind the checkpoint is a regression.
PullCompare(a) ==
    /\ pull[a].pc = "compare"
    /\ IF Before(pull[a], checkpoint)
       THEN PullEnds(a)
       ELSE /\ pull' = [pull EXCEPT ![a] = [@ EXCEPT !.pc = "save", !.last = checkpoint]]
            /\ UNCHANGED req
    /\ UNCHANGED <<authVars, checkpoint, entry, fence, lock, op>>

\* A change was skipped since the checkpoint.
Gap(p) == p.last.source > 0 /\ p.source > p.last.source + 1

\* The guarded upsert: never to an older pair.
SaveCheckpoint(p) ==
    IF p.source > checkpoint.source
       \/ (p.source = checkpoint.source /\ p.policy >= checkpoint.policy)
    THEN [source |-> p.source, policy |-> p.policy] ELSE checkpoint

\* The checkpoint is saved and the snapshot cached whatever the verdict; the pull
\* succeeds only when nothing changed since the checkpoint it was compared with.
PullSave(a) ==
    /\ pull[a].pc = "save"
    /\ LET p == pull[a]
           fresh == p.source > 0 /\ ~Gap(p)
           changed == p.last # [source |-> p.source, policy |-> p.policy]
       IN  /\ checkpoint' = SaveCheckpoint(p)
           /\ entry' = [entry EXCEPT ![a] = [known |-> TRUE, source |-> p.source,
                                              role |-> p.role, cap |-> p.cap, fresh |-> fresh]]
           /\ Resume(a, IF changed \/ ~fresh THEN "stale" ELSE "pulled")
    /\ pull' = [pull EXCEPT ![a] = NoPull]
    /\ UNCHANGED <<authVars, fence, lock, op>>

-----------------------------------------------------------------------------
(* The request. *)

\* A stale answer is retryable: the client asks again.
Retry(r) ==
    /\ req[r] = "stale"
    /\ req' = [req EXCEPT ![r] = "idle"]
    /\ UNCHANGED <<authVars, cacheVars, fence, lock, op>>

\* AuthorizeWrite decides by the cached snapshot, which a background refresh may
\* have replaced since the pull, and records the version it decided by.
Decide(r) ==
    /\ req[r] = "pulled"
    /\ LET e == entry[Actor[r]]
           allowed == IF Kind[r] = "emergency" THEN e.cap ELSE Permits(e.role)
       IN  /\ req' = [req EXCEPT ![r] = CASE ~e.fresh              -> "stale"
                                          [] e.fresh /\ ~allowed -> "denied"
                                          [] OTHER               -> "authorized"]
           /\ fence' = [fence EXCEPT ![r] = IF e.fresh /\ allowed THEN e.source ELSE @]
    /\ UNCHANGED <<authVars, cacheVars, lock, op>>

SameKey(r) == {s \in Requests : Key[s] = Key[r] /\ op[s] # "none"}
Live == {s \in Requests : op[s] = "live"}

\* Whether a lookup finds the key's idempotency record, which expires after a day.
Recorded(r) == {SameKey(r) # {}, FALSE}

\* The reads before the transaction: an operation with the key is the answer; a
\* live one makes the definition busy (an emergency leaves that to the transaction,
\* and looks for the record).
Gates(r) ==
    /\ req[r] = "authorized"
    /\ \E hit \in IF Kind[r] = "emergency" THEN Recorded(r) ELSE {SameKey(r) # {}} :
          req' = [req EXCEPT ![r] = CASE hit -> "replayed"
                                      [] ~hit /\ Live # {} /\ Kind[r] # "emergency" -> "busy"
                                      [] OTHER -> "gated"]
    /\ UNCHANGED <<authVars, cacheVars, fence, lock, op>>

\* checkAuthorizationFence opens the transaction: it waits for the row lock, and
\* a version that has moved on is stale. Version 0 would be no fence at all.
TxFence(r) ==
    /\ req[r] = "gated"
    /\ fence[r] = 0 \/ lock = NoRequest
    /\ req' = [req EXCEPT ![r] = IF fence[r] \in {0, source} THEN "fenced" ELSE "stale"]
    /\ lock' = IF fence[r] # 0 /\ fence[r] = source THEN r ELSE lock
    /\ UNCHANGED <<authVars, cacheVars, fence, op>>

\* The transaction ends, by commit or rollback.
Unlocked(r) == IF lock = r THEN NoRequest ELSE lock

\* A mutant of TxCount: emergency and standard operations do not see each other.
TxCountOwnKind(r) ==
    /\ req[r] = "fenced"
    /\ LET rivals == {s \in Live : (Kind[s] = "emergency") = (Kind[r] = "emergency")}
       IN  /\ req' = [req EXCEPT ![r] = IF rivals # {} THEN "busy" ELSE "counted"]
           /\ lock' = IF rivals # {} THEN Unlocked(r) ELSE lock
    /\ UNCHANGED <<authVars, cacheVars, fence, op>>

\* A rollback and an emergency look for their idempotency record; then all count
\* the live operations of the definition.
TxCount(r) ==
    /\ req[r] = "fenced"
    /\ \E replay \in IF Kind[r] = "install" THEN {FALSE} ELSE Recorded(r) :
           /\ req' = [req EXCEPT ![r] = CASE replay -> "replayed"
                                          [] ~replay /\ Live # {} -> "busy"
                                          [] OTHER -> "counted"]
           /\ lock' = IF replay \/ Live # {} THEN Unlocked(r) ELSE lock
    /\ UNCHANGED <<authVars, cacheVars, fence, op>>

\* A mutant of Rejected: the idempotency key is not unique.
RejectedByIndex(r) == Kind[r] # "emergency" /\ \E s \in Live : Kind[s] # "emergency"

\* The unique constraints on operations: the key, and one live standard operation
\* per definition.
Rejected(r) ==
    \/ SameKey(r) # {}
    \/ Kind[r] # "emergency" /\ \E s \in Live : Kind[s] # "emergency"

\* createOperation, the emergency's second fence, and the commit.
TxCommit(r) ==
    /\ req[r] = "counted"
    /\ LET moved == Kind[r] = "emergency" /\ fence[r] \notin {0, source}
       IN  IF Rejected(r) \/ moved
           THEN /\ req' = [req EXCEPT ![r] = IF Rejected(r) THEN "conflict" ELSE "stale"]
                /\ UNCHANGED op
           ELSE /\ req' = [req EXCEPT ![r] = "created"]
                /\ op' = [op EXCEPT ![r] = "live"]
    /\ lock' = Unlocked(r)
    /\ UNCHANGED <<authVars, cacheVars, fence>>

\* The client hangs up or the process dies: the connection's transaction is
\* rolled back.
Abandon(r) ==
    /\ Faults /\ req[r] \in {"pulled", "authorized", "gated", "fenced", "counted"}
    /\ req' = [req EXCEPT ![r] = "gone"]
    /\ lock' = Unlocked(r)
    /\ UNCHANGED <<authVars, cacheVars, fence, op>>

\* The operation reaches a terminal state (OperationLifecycle).
OperationEnds(r) ==
    /\ op[r] = "live"
    /\ op' = [op EXCEPT ![r] = "ended"]
    /\ UNCHANGED <<authVars, cacheVars, req, fence, lock>>

-----------------------------------------------------------------------------
Reload(s) == ReloadBegin(s) \/ ReloadCompile(s) \/ ReloadApply(s) \/ ReloadAgain(s) \/ ReloadMemory(s)

Pull(a) == PullFacts(a) \/ PullCompare(a) \/ PullSave(a)

Step(r) == Retry(r) \/ Decide(r) \/ Gates(r) \/ TxFence(r) \/ TxCount(r) \/ TxCommit(r)

Next ==
    \/ \E a \in Actors, x \in Turns : ChangeMembership(a, x)
    \/ \E s \in Services : Reload(s)
    \/ \E a \in Actors, r \in Requests \cup {NoRequest} : PullBegin(a, r)
    \/ \E a \in Actors : Pull(a) \/ PullFails(a)
    \/ \E r \in Requests : Step(r) \/ Abandon(r) \/ OperationEnds(r)

Spec == Init /\ [][Next]_vars

\* The reloader ticks; a pull that began goes on, and its mutex is handed over; the
\* client retries what it is told to retry.
Fairness ==
    /\ \A s \in Services : WF_vars(Reload(s))
    /\ \A a \in Actors : WF_vars(Pull(a))
    /\ \A r \in Requests : SF_vars(PullBegin(Actor[r], r)) /\ WF_vars(Step(r))

FairSpec == Spec /\ Fairness

-----------------------------------------------------------------------------
(* Properties. *)

Version == [source : Nat, policy : Nat]
ReloadRecord == [pc : {"idle", "load", "refresh", "apply", "reapply", "again", "memory"},
                 source : Nat, policy : Nat, rules : [Actors -> Roles]]
EntryRecord == [known : BOOLEAN, source : Nat, role : Roles, cap : BOOLEAN, fresh : BOOLEAN]
PullRecord == [pc : {"idle", "facts", "compare", "save"}, by : Requests \cup {NoRequest},
               source : Nat, policy : Nat, role : Roles, cap : BOOLEAN, last : Version]
Answers == {"stale", "denied", "replayed", "busy", "conflict", "created", "gone"}
Progress == {"idle", "pulling", "pulled", "authorized", "gated", "fenced", "counted"}

\* Versions, program counters and answers stay in their sets, and the row lock is
\* only held by a request inside its transaction.
AdmissionTypeOK ==
    /\ source \in Nat /\ policy \in Nat
    /\ role \in [Actors -> Roles] /\ rules \in [Actors -> Roles]
    /\ enforcer \in [Services -> [Actors -> Roles]] /\ healthy \in [Services -> BOOLEAN]
    /\ reload \in [Services -> ReloadRecord]
    /\ checkpoint \in Version
    /\ entry \in [Actors -> EntryRecord]
    /\ pull \in [Actors -> PullRecord]
    /\ req \in [Requests -> Answers \cup Progress]
    /\ fence \in [Requests -> Nat]
    /\ op \in [Requests -> {"none", "live", "ended"}]
    /\ lock \in Requests \cup {NoRequest}
    /\ lock # NoRequest => req[lock] \in {"fenced", "counted"}

\* A definition never has two live operations, of whatever kinds: the unique index
\* covers standard operations among themselves, and every other pair is kept apart
\* only by counting while the fence's row lock is held.
ExclusiveOperation == \A r, s \in Live : r = s

\* One idempotency key makes one operation, whatever became of the first one and
\* whether or not its record has expired.
OneOperationPerKey ==
    \A r, s \in Requests : Key[r] = Key[s] /\ op[r] # "none" /\ op[s] # "none" => r = s

\* A standard operation is created only at an instant at which its actor holds the
\* role for it: the snapshot's version is older than its facts, and the fence keeps
\* memberships still from the comparison to the commit.
CreatedByAdmin ==
    [][\A r \in Requests : op[r] = "none" /\ op'[r] = "live" /\ Kind[r] # "emergency"
          => Permits(role[Actor[r]])]_vars

\* Pulls of several actors share the checkpoint and may finish in any order; the
\* checkpoint never goes back.
CheckpointAdvances ==
    [][\/ checkpoint'.source > checkpoint.source
       \/ checkpoint'.source = checkpoint.source /\ checkpoint'.policy >= checkpoint.policy]_vars

\* Rules are only ever replaced by the compilation of the memberships that hold at
\* that instant, though they were read earlier and two processes compile.
RulesAreCurrent == [][rules' # rules => rules' = role]_vars

\* Once memberships stay as they are, every enforcer's memory follows them for good,
\* and is healthy.
PolicyConverges ==
    \A s \in Services : <>[](enforcer[s] = role /\ healthy[s])

\* A client with a membership that retries is not told to retry for ever: warm-up,
\* gap and regression each pass by themselves.
RequestsAnswered ==
    \A r \in Requests :
        <>[](role[Actor[r]] # "gone")
           => <>(req[r] \in Answers \ {"stale"})
=============================================================================
