---------------------- MODULE OperationAdmissionProofs ----------------------
(***************************************************************************)
(* Proofs about OperationAdmission, for any number of requests, actors and *)
(* services and without the bounds of the model-checked instances.         *)
(*                                                                         *)
(* The argument: a source version, once read, tells what was read after it *)
(* apart from what has changed since. Whatever carries a version (a reload,*)
(* a pull, a cached snapshot, a decision) is right about the memberships   *)
(* for as long as the version it carries is the current one; versions only *)
(* grow, and memberships only change together with the version. The fence  *)
(* makes the decision's version the current one and keeps it so, because   *)
(* its row lock is held to the commit; and because the lock has one holder *)
(* the count of live operations is still true at the insert.               *)
(***************************************************************************)
EXTENDS OperationAdmission, TLAPS

InTransaction == {"fenced", "counted"}
Decided == {"authorized", "gated", "fenced", "counted"}

\* The request that made a pull waits for it, and makes it as its own actor.
PullOwned ==
    \A a \in Actors : pull[a].pc # "idle" /\ pull[a].by # NoRequest =>
        Actor[pull[a].by] = a /\ req[pull[a].by] = "pulling"

\* Rules compiled under the current source version are the memberships.
ReloadFaithful ==
    \A s \in Services :
        /\ reload[s].source <= source
        /\ reload[s].pc \in {"apply", "reapply"} /\ reload[s].source = source
              => reload[s].rules = role

\* Facts pulled under the current source version are the memberships.
PullFaithful ==
    \A a \in Actors :
        /\ pull[a].source <= source
        /\ pull[a].pc \in {"compare", "save"} /\ pull[a].source = source
              => pull[a].role = role[a]

\* So are cached ones; and a fresh snapshot has a version to fence by.
EntryFaithful ==
    \A a \in Actors :
        /\ entry[a].source <= source
        /\ entry[a].fresh => entry[a].source > 0
        /\ entry[a].fresh /\ entry[a].source = source => entry[a].role = role[a]

\* A decision whose version is the current one is still right.
DecisionFaithful ==
    \A r \in Requests : req[r] \in Decided =>
        /\ fence[r] > 0 /\ fence[r] <= source
        /\ fence[r] = source /\ Kind[r] # "emergency" => Permits(role[Actor[r]])

\* Inside a transaction the lock is held and the decision's version is current.
FenceHeld ==
    \A r \in Requests : req[r] \in InTransaction => lock = r /\ fence[r] = source

\* What the transaction counted is still so.
CountHolds == \A r \in Requests : req[r] = "counted" => \A s \in Requests : op[s] # "live"

AdmissionInv ==
    /\ AdmissionTypeOK /\ PullOwned
    /\ ReloadFaithful /\ PullFaithful /\ EntryFaithful
    /\ DecisionFaithful /\ FenceHeld /\ CountHolds
    /\ ExclusiveOperation /\ OneOperationPerKey

-----------------------------------------------------------------------------
(* Types. *)

LEMMA NoReloadType ==
    /\ NoReload \in ReloadRecord
    /\ NoReload.pc = "idle" /\ NoReload.source = 0
BY Zenon DEF NoReload, ReloadRecord, NoRoles, Roles

LEMMA NoPullType ==
    /\ NoPull \in PullRecord
    /\ NoPull.pc = "idle" /\ NoPull.by = NoRequest /\ NoPull.source = 0
BY Zenon DEF NoPull, PullRecord, Version, Roles

LEMMA ReloadUpdates ==
    ASSUME NEW f \in ReloadRecord,
           NEW pc \in {"idle", "load", "refresh", "apply", "reapply", "again", "memory"},
           NEW m \in [Actors -> Roles], NEW v \in Nat, NEW w \in Nat
    PROVE  /\ [f EXCEPT !.pc = pc] \in ReloadRecord
           /\ [f EXCEPT !.rules = m, !.pc = pc] \in ReloadRecord
           /\ [f EXCEPT !.pc = pc, !.source = v, !.policy = w] \in ReloadRecord
BY Zenon DEF ReloadRecord

LEMMA PullStarts ==
    ASSUME NEW r \in Requests \cup {NoRequest}, NEW v \in Nat
    PROVE  [NoPull EXCEPT !.pc = "facts", !.by = r, !.source = v] \in PullRecord
BY NoPullType, Zenon DEF PullRecord

LEMMA EntryKnown ==
    ASSUME NEW f \in [Actors -> EntryRecord], NEW a \in Actors
    PROVE  [f EXCEPT ![a].known = TRUE] \in [Actors -> EntryRecord]
<1>1. [f[a] EXCEPT !.known = TRUE] \in EntryRecord
    BY Zenon DEF EntryRecord
<1> QED
    BY <1>1, Zenon

LEMMA PullUpdates ==
    ASSUME NEW f \in PullRecord, NEW x \in Roles, NEW c \in BOOLEAN, NEW w \in Nat
    PROVE  [f EXCEPT !.pc = "compare", !.policy = w, !.role = x, !.cap = c] \in PullRecord
BY Zenon DEF PullRecord

LEMMA PullSaves ==
    ASSUME NEW f \in PullRecord, NEW v \in Version
    PROVE  [f EXCEPT !.pc = "save", !.last = v] \in PullRecord
BY Zenon DEF PullRecord

LEMMA TypeInit == Init => AdmissionTypeOK
BY AdmissionAssumption, NoReloadType, NoPullType
DEF Init, AdmissionTypeOK, NoRoles, NoEntry, EntryRecord, Version, Answers, Progress, Roles

\* What an action of the authorization service has to establish.
LEMMA TypeReload ==
    ASSUME AdmissionTypeOK, NEW s \in Services, NEW f \in ReloadRecord,
           reload' = [reload EXCEPT ![s] = f],
           source' \in Nat, policy' \in Nat, rules' \in [Actors -> Roles],
           enforcer' \in [Services -> [Actors -> Roles]], healthy' \in [Services -> BOOLEAN],
           UNCHANGED <<role, cacheVars, opVars>>
    PROVE  AdmissionTypeOK'
BY Zenon DEF AdmissionTypeOK, cacheVars, opVars

\* What a step of a pull has to establish.
LEMMA TypePull ==
    ASSUME AdmissionTypeOK, NEW a \in Actors, NEW f \in PullRecord,
           pull' = [pull EXCEPT ![a] = f],
           req' = req \/ \E r \in Requests, x \in Answers \cup Progress :
                            req[r] \in {"idle", "pulling"} /\ req' = [req EXCEPT ![r] = x],
           checkpoint' \in Version, entry' \in [Actors -> EntryRecord],
           UNCHANGED <<authVars, fence, lock, op>>
    PROVE  AdmissionTypeOK'
BY Zenon DEF AdmissionTypeOK, authVars

\* What a step of a request has to establish.
LEMMA TypeRequest ==
    ASSUME AdmissionTypeOK, NEW r \in Requests, NEW x \in Answers \cup Progress,
           req' = [req EXCEPT ![r] = x],
           \/ lock' = lock /\ (lock = r => x \in {"fenced", "counted"})
           \/ lock' = r /\ x \in {"fenced", "counted"}
           \/ lock' = Unlocked(r),
           fence' \in [Requests -> Nat], op' \in [Requests -> {"none", "live", "ended"}],
           UNCHANGED <<authVars, cacheVars>>
    PROVE  AdmissionTypeOK'
<1>1. req' \in [Requests -> Answers \cup Progress]
    BY Zenon DEF AdmissionTypeOK
<1>2. req'[r] = x /\ \A q \in Requests \ {r} : req'[q] = req[q]
    BY Zenon DEF AdmissionTypeOK
<1>3. lock' \in Requests \cup {NoRequest}
    BY Zenon DEF AdmissionTypeOK, Unlocked
<1>4. lock' = r => x \in {"fenced", "counted"}
    BY AdmissionAssumption, Zenon DEF Unlocked
<1>5. lock' # NoRequest /\ lock' # r => lock' = lock
    BY Zenon DEF Unlocked
<1>6. lock' # NoRequest => req'[lock'] \in {"fenced", "counted"}
    BY <1>2, <1>3, <1>4, <1>5, Zenon DEF AdmissionTypeOK
<1>7. UNCHANGED <<source, policy, role, rules, enforcer, healthy, reload, checkpoint, entry, pull>>
    BY Zenon DEF authVars, cacheVars
<1> QED
    BY <1>1, <1>3, <1>6, <1>7, Zenon DEF AdmissionTypeOK

\* Every step preserves the types, and that a pull has an owner that waits.
LEMMA TypeStep == AdmissionTypeOK /\ PullOwned /\ [Next]_vars => AdmissionTypeOK'
<1> SUFFICES ASSUME AdmissionTypeOK, PullOwned, [Next]_vars PROVE AdmissionTypeOK'
    BY Zenon
<1> USE AdmissionAssumption
<1>1. ASSUME NEW a \in Actors, NEW x \in Turns, ChangeMembership(a, x) PROVE AdmissionTypeOK'
    BY <1>1 DEF AdmissionTypeOK, ChangeMembership, cacheVars, opVars
<1>2. ASSUME NEW s \in Services, ReloadBegin(s) PROVE AdmissionTypeOK'
  <2>1. PICK pc \in {"load", "refresh"} :
            reload' = [reload EXCEPT ![s] = [NoReload EXCEPT !.pc = pc, !.source = source,
                                                            !.policy = policy]]
      BY <1>2, Zenon DEF ReloadBegin
  <2>2. [NoReload EXCEPT !.pc = pc, !.source = source, !.policy = policy] \in ReloadRecord
      BY NoReloadType, Zenon DEF AdmissionTypeOK, ReloadRecord
  <2>3. QED  BY <1>2, <2>1, <2>2, TypeReload, Zenon DEF ReloadBegin, AdmissionTypeOK
<1>3. ASSUME NEW s \in Services, ReloadCompile(s) PROVE AdmissionTypeOK'
  <2> DEFINE pc == CASE reload[s].pc = "refresh" -> "reapply"
                     [] reload[s].pc = "load" /\ role # rules -> "apply"
                     [] OTHER -> "memory"
             f == [reload[s] EXCEPT !.rules = role, !.pc = pc]
  <2>1. pc \in {"apply", "reapply", "memory"}
      BY Zenon
  <2>2. f \in ReloadRecord
    <3>1. reload[s] \in ReloadRecord /\ role \in [Actors -> Roles]
        BY Zenon DEF AdmissionTypeOK
    <3> HIDE DEF pc
    <3>2. QED  BY <2>1, <3>1, ReloadUpdates, Zenon
  <2>3. reload' = [reload EXCEPT ![s] = f]
      BY <1>3, Zenon DEF ReloadCompile, AdmissionTypeOK
  <2> HIDE DEF f
  <2>4. QED  BY <1>3, <2>2, <2>3, TypeReload, Zenon DEF ReloadCompile, AdmissionTypeOK
<1>4. ASSUME NEW s \in Services, ReloadApply(s) PROVE AdmissionTypeOK'
  <2>1. [NoReload EXCEPT !.pc = "again"] \in ReloadRecord
      BY NoReloadType, Zenon DEF ReloadRecord
  <2>2. [reload[s] EXCEPT !.pc = "memory"] \in ReloadRecord
    <3>1. reload[s] \in ReloadRecord
        BY Zenon DEF AdmissionTypeOK
    <3>2. QED  BY <3>1, Zenon DEF ReloadRecord
  <2>3. reload[s].rules \in [Actors -> Roles]
      BY Zenon DEF AdmissionTypeOK, ReloadRecord
  <2>4. PICK f \in ReloadRecord : reload' = [reload EXCEPT ![s] = f]
      BY <1>4, <2>1, <2>2, NoReloadType, Zenon DEF ReloadApply, AdmissionTypeOK
  <2>5. QED
    <3>1. /\ source' \in Nat /\ policy' \in Nat /\ rules' \in [Actors -> Roles]
          /\ enforcer' \in [Services -> [Actors -> Roles]]
        BY <1>4, <2>3 DEF ReloadApply, AdmissionTypeOK
    <3>2. healthy' \in [Services -> BOOLEAN]
        BY <1>4, Zenon DEF ReloadApply, AdmissionTypeOK
    <3>3. UNCHANGED <<role, cacheVars, opVars>>
        BY <1>4, Zenon DEF ReloadApply
    <3>4. QED  BY <2>4, <3>1, <3>2, <3>3, TypeReload, Zenon
<1>5. ASSUME NEW s \in Services, ReloadAgain(s) PROVE AdmissionTypeOK'
  <2>1. [reload[s] EXCEPT !.pc = "load", !.source = source, !.policy = policy] \in ReloadRecord
      BY ReloadUpdates, Zenon DEF AdmissionTypeOK
  <2>2. QED  BY <1>5, <2>1, TypeReload, Zenon DEF ReloadAgain, AdmissionTypeOK
<1>6. ASSUME NEW s \in Services, ReloadMemory(s) PROVE AdmissionTypeOK'
    BY <1>6, NoReloadType, TypeReload, Zenon DEF ReloadMemory, AdmissionTypeOK
<1>7. ASSUME NEW a \in Actors, NEW r \in Requests \cup {NoRequest}, PullBegin(a, r)
      PROVE AdmissionTypeOK'
  <2>1. [NoPull EXCEPT !.pc = "facts", !.by = r, !.source = source] \in PullRecord
      BY PullStarts, Zenon DEF AdmissionTypeOK
  <2>2. [entry EXCEPT ![a].known = TRUE] \in [Actors -> EntryRecord]
      BY EntryKnown, Zenon DEF AdmissionTypeOK
  <2>3. "pulling" \in Answers \cup Progress
      BY Zenon DEF Progress
  <2>4. entry' \in [Actors -> EntryRecord]
      BY <1>7, <2>2, Zenon DEF PullBegin, AdmissionTypeOK
  <2>5. req' = req \/ (r \in Requests /\ req[r] = "idle" /\ req' = [req EXCEPT ![r] = "pulling"])
      BY <1>7, Zenon DEF PullBegin
  <2>6. /\ pull' = [pull EXCEPT ![a] = [NoPull EXCEPT !.pc = "facts", !.by = r, !.source = source]]
        /\ UNCHANGED <<authVars, checkpoint, fence, lock, op>>
      BY <1>7, Zenon DEF PullBegin
  <2>7. checkpoint' \in Version
      BY <2>6, Zenon DEF AdmissionTypeOK
  <2>8. QED  BY <2>1, <2>3, <2>4, <2>5, <2>6, <2>7, TypePull, Zenon
<1>8. ASSUME NEW a \in Actors, PullEnds(a), pull[a].pc # "idle",
             UNCHANGED <<authVars, checkpoint, entry, fence, lock, op>>
      PROVE AdmissionTypeOK'
  <2>1. pull[a].by \in Requests \cup {NoRequest}
      BY Zenon DEF AdmissionTypeOK, PullRecord
  <2>2. "stale" \in Answers \cup Progress
      BY Zenon DEF Answers
  <2>3. QED
      BY <1>8, <2>1, <2>2, NoPullType, TypePull, Zenon DEF PullEnds, Resume, PullOwned, AdmissionTypeOK
<1>9. ASSUME NEW a \in Actors, PullFacts(a) PROVE AdmissionTypeOK'
  <2> DEFINE f == [pull[a] EXCEPT !.pc = "compare", !.policy = policy,
                                  !.role = role[a], !.cap = Permits(enforcer[AuthService][a])]
  <2>1. f \in PullRecord
    <3>1. /\ pull[a] \in PullRecord /\ role[a] \in Roles /\ policy \in Nat
          /\ Permits(enforcer[AuthService][a]) \in BOOLEAN
        BY Zenon DEF AdmissionTypeOK, Permits
    <3>2. QED  BY <3>1, PullUpdates, Zenon
  <2>2. CASE PullEnds(a)
      BY <1>8, <1>9, <2>2, Zenon DEF PullFacts
  <2>3. CASE pull' = [pull EXCEPT ![a] = f] /\ req' = req
    <3> HIDE DEF f
    <3>1. QED  BY <1>9, <2>1, <2>3, TypePull, Zenon DEF PullFacts, AdmissionTypeOK
  <2>4. QED  BY <1>9, <2>2, <2>3, Zenon DEF PullFacts
<1>10. ASSUME NEW a \in Actors, PullFails(a) PROVE AdmissionTypeOK'
    BY <1>8, <1>10, Zenon DEF PullFails
<1>11. ASSUME NEW a \in Actors, PullCompare(a) PROVE AdmissionTypeOK'
  <2>1. [pull[a] EXCEPT !.pc = "save", !.last = checkpoint] \in PullRecord
    <3>1. pull[a] \in PullRecord /\ checkpoint \in Version
        BY Zenon DEF AdmissionTypeOK
    <3>2. QED  BY <3>1, PullSaves, Zenon
  <2>2. CASE PullEnds(a)
      BY <1>8, <1>11, <2>2, Zenon DEF PullCompare
  <2>3. CASE /\ pull' = [pull EXCEPT ![a] = [@ EXCEPT !.pc = "save", !.last = checkpoint]]
             /\ req' = req
      BY <1>11, <2>1, <2>3, TypePull, Zenon DEF PullCompare, AdmissionTypeOK
  <2>4. QED  BY <1>11, <2>2, <2>3, Zenon DEF PullCompare
<1>12. ASSUME NEW a \in Actors, PullSave(a) PROVE AdmissionTypeOK'
  <2> DEFINE p == pull[a]
             fresh == p.source > 0 /\ ~Gap(p)
             e == [known |-> TRUE, source |-> p.source, role |-> p.role, cap |-> p.cap,
                   fresh |-> fresh]
  <2>1. p \in PullRecord
      BY Zenon DEF AdmissionTypeOK
  <2>2. e \in EntryRecord
      BY <2>1, Zenon DEF PullRecord, EntryRecord
  <2>3. SaveCheckpoint(p) \in Version
      BY <2>1, Zenon DEF SaveCheckpoint, AdmissionTypeOK, PullRecord, Version
  <2>4. entry' = [entry EXCEPT ![a] = e] /\ checkpoint' = SaveCheckpoint(p)
      BY <1>12, Zenon DEF PullSave
  <2>5. req' = req \/ \E r \in Requests, x \in Answers \cup Progress :
                         req[r] \in {"idle", "pulling"} /\ req' = [req EXCEPT ![r] = x]
      BY <1>12, <2>1, Zenon DEF PullSave, Resume, PullOwned, PullRecord, Answers, Progress
  <2> HIDE DEF e
  <2>6. entry' \in [Actors -> EntryRecord]
      BY <2>2, <2>4, Zenon DEF AdmissionTypeOK
  <2>7. /\ pull' = [pull EXCEPT ![a] = NoPull]
        /\ UNCHANGED <<authVars, fence, lock, op>>
      BY <1>12, Zenon DEF PullSave
  <2>8. checkpoint' \in Version
      BY <2>3, <2>4, Zenon
  <2>9. QED
      BY <2>5, <2>6, <2>7, <2>8, NoPullType, TypePull, Zenon
<1>13. ASSUME NEW r \in Requests, Step(r) \/ Abandon(r) PROVE AdmissionTypeOK'
  <2>1. CASE Retry(r)
      BY <2>1, TypeRequest, Zenon DEF Retry, AdmissionTypeOK, Progress
  <2>2. CASE Decide(r)
    <3>1. PICK x \in {"stale", "denied", "authorized"} : req' = [req EXCEPT ![r] = x]
        BY <2>2, Zenon DEF Decide
    <3>2. fence' \in [Requests -> Nat]
        BY <2>2 DEF Decide, AdmissionTypeOK, EntryRecord
    <3>3. x \in Answers \cup Progress /\ lock # r
        BY <2>2 DEF Decide, AdmissionTypeOK, Answers, Progress
    <3>4. QED  BY <2>2, <3>1, <3>2, <3>3, TypeRequest, Zenon DEF Decide, AdmissionTypeOK
  <2>3. CASE Gates(r)
    <3>1. PICK x \in {"replayed", "busy", "gated"} : req' = [req EXCEPT ![r] = x]
        BY <2>3, Zenon DEF Gates
    <3>2. x \in Answers \cup Progress /\ lock # r
        BY <2>3 DEF Gates, AdmissionTypeOK, Answers, Progress
    <3>3. QED  BY <2>3, <3>1, <3>2, TypeRequest DEF Gates, AdmissionTypeOK
  <2>4. CASE TxFence(r)
    <3>1. PICK x \in {"fenced", "stale"} :
              req' = [req EXCEPT ![r] = x] /\ (x = "stale" => lock' = lock)
        BY <2>4, Zenon DEF TxFence
    <3>2. x \in Answers \cup Progress /\ lock # r
        BY <2>4 DEF TxFence, AdmissionTypeOK, Answers, Progress
    <3>3. QED  BY <2>4, <3>1, <3>2, TypeRequest, Zenon DEF TxFence, AdmissionTypeOK
  <2>5. CASE TxCount(r)
    <3>1. PICK x \in {"replayed", "busy", "counted"} :
              /\ req' = [req EXCEPT ![r] = x]
              /\ lock' = Unlocked(r) \/ (lock' = lock /\ x = "counted")
        BY <2>5, Zenon DEF TxCount
    <3>2. x \in Answers \cup Progress
        BY Zenon DEF Answers, Progress
    <3>3. QED  BY <2>5, <3>1, <3>2, TypeRequest, Zenon DEF TxCount, AdmissionTypeOK
  <2>6. CASE TxCommit(r)
    <3>1. PICK x \in {"conflict", "stale", "created"} : req' = [req EXCEPT ![r] = x]
        BY <2>6, Zenon DEF TxCommit
    <3>2. x \in Answers \cup Progress
        BY Zenon DEF Answers
    <3>3. op' \in [Requests -> {"none", "live", "ended"}]
        BY <2>6 DEF TxCommit, AdmissionTypeOK
    <3>4. QED  BY <2>6, <3>1, <3>2, <3>3, TypeRequest, Zenon DEF TxCommit, AdmissionTypeOK
  <2>7. CASE Abandon(r)
      BY <2>7, TypeRequest, Zenon DEF Abandon, AdmissionTypeOK, Answers
  <2>8. QED  BY <1>13, <2>1, <2>2, <2>3, <2>4, <2>5, <2>6, <2>7 DEF Step
<1>14. ASSUME NEW r \in Requests, OperationEnds(r) PROVE AdmissionTypeOK'
    BY <1>14, Zenon DEF AdmissionTypeOK, OperationEnds, authVars, cacheVars
<1>15. CASE UNCHANGED vars
    BY <1>15, Zenon DEF AdmissionTypeOK, vars
<1>16. QED
    BY <1>1, <1>2, <1>3, <1>4, <1>5, <1>6, <1>7, <1>9, <1>10, <1>11, <1>12, <1>13, <1>14, <1>15, Zenon
    DEF Next, Reload, Pull

-----------------------------------------------------------------------------
(* What the other actions leave alone. *)

LEMMA Untouched ==
    ASSUME [Next]_vars
    PROVE  /\ (\E s \in Services : Reload(s)) \/ UNCHANGED <<rules, enforcer, healthy, reload>>
           /\ \/ \E a \in Actors, r \in Requests \cup {NoRequest} : PullBegin(a, r)
              \/ \E a \in Actors : Pull(a) \/ PullFails(a)
              \/ UNCHANGED <<checkpoint, entry, pull>>
           /\ \/ \E r \in Requests : Step(r) \/ Abandon(r)
              \/ UNCHANGED <<fence, lock>>
           /\ (\E r \in Requests : TxCommit(r) \/ OperationEnds(r)) \/ UNCHANGED op
<1>1. ASSUME NEW a \in Actors, NEW x \in Turns, ChangeMembership(a, x)
      PROVE UNCHANGED <<rules, enforcer, healthy, reload, checkpoint, entry, pull, fence, lock, op>>
    BY <1>1, Zenon DEF ChangeMembership, cacheVars, opVars
<1>2. ASSUME NEW s \in Services, Reload(s)
      PROVE UNCHANGED <<checkpoint, entry, pull, fence, lock, op>>
    BY <1>2, Zenon DEF Reload, ReloadBegin, ReloadCompile, ReloadApply, ReloadAgain, ReloadMemory,
                cacheVars, opVars
<1>3. ASSUME NEW a \in Actors, NEW r \in Requests \cup {NoRequest}, PullBegin(a, r)
      PROVE UNCHANGED <<rules, enforcer, healthy, reload, fence, lock, op>>
    BY <1>3, Zenon DEF PullBegin, authVars
<1>4. ASSUME NEW a \in Actors, Pull(a) \/ PullFails(a)
      PROVE UNCHANGED <<rules, enforcer, healthy, reload, fence, lock, op>>
    BY <1>4, Zenon DEF Pull, PullFacts, PullFails, PullCompare, PullSave, authVars
<1>5. ASSUME NEW r \in Requests, Step(r) \/ Abandon(r)
      PROVE /\ UNCHANGED <<rules, enforcer, healthy, reload, checkpoint, entry, pull>>
            /\ TxCommit(r) \/ UNCHANGED op
    BY <1>5, Zenon DEF Step, Retry, Decide, Gates, TxFence, TxCount, Abandon, TxCommit,
                authVars, cacheVars
<1>6. ASSUME NEW r \in Requests, OperationEnds(r)
      PROVE UNCHANGED <<rules, enforcer, healthy, reload, checkpoint, entry, pull, fence, lock>>
    BY <1>6, Zenon DEF OperationEnds, authVars, cacheVars
<1>7. CASE UNCHANGED vars
    BY <1>7, Zenon DEF vars
<1>8. QED
    BY <1>1, <1>2, <1>3, <1>4, <1>5, <1>6, <1>7 DEF Next

\* The source version only grows, and memberships change only together with it,
\* while nobody holds its row lock.
LEMMA VersionsTell ==
    ASSUME AdmissionTypeOK, [Next]_vars
    PROVE  /\ source' >= source
           /\ source' = source => role' = role
           /\ source' # source => lock = NoRequest
<1>1. ASSUME NEW a \in Actors, NEW x \in Turns, ChangeMembership(a, x)
      PROVE source' = source + 1 /\ lock = NoRequest
    BY <1>1, Zenon DEF ChangeMembership
<1>2. ASSUME NEW s \in Services, Reload(s)
      PROVE role' = role /\ (source' = source \/ (source = 0 /\ source' = 1 /\ lock = NoRequest))
    BY <1>2, Zenon DEF Reload, ReloadBegin, ReloadCompile, ReloadApply, ReloadAgain, ReloadMemory
<1>3. ASSUME NEW a \in Actors, NEW r \in Requests \cup {NoRequest}, PullBegin(a, r)
      PROVE UNCHANGED <<source, role>>
    BY <1>3, Zenon DEF PullBegin, authVars
<1>4. ASSUME NEW a \in Actors, Pull(a) \/ PullFails(a) PROVE UNCHANGED <<source, role>>
    BY <1>4, Zenon DEF Pull, PullFacts, PullFails, PullCompare, PullSave, authVars
<1>5. ASSUME NEW r \in Requests, Step(r) \/ Abandon(r) \/ OperationEnds(r)
      PROVE UNCHANGED <<source, role>>
    BY <1>5, Zenon DEF Step, Retry, Decide, Gates, TxFence, TxCount, Abandon, TxCommit, OperationEnds,
                authVars
<1>6. CASE UNCHANGED vars
    BY <1>6 DEF vars, AdmissionTypeOK
<1>7. source \in Nat
    BY Zenon DEF AdmissionTypeOK
<1>8. CASE source' = source /\ role' = role
    BY <1>7, <1>8
<1>9. CASE source' = source + 1 /\ lock = NoRequest
    BY <1>7, <1>9
<1>10. QED
    BY <1>1, <1>2, <1>3, <1>4, <1>5, <1>6, <1>7, <1>8, <1>9 DEF Next, vars

-----------------------------------------------------------------------------
(* The faithful carriers of a version. *)

LEMMA ReloadFaithfulStep ==
    ASSUME AdmissionTypeOK, AdmissionTypeOK', ReloadFaithful, [Next]_vars
    PROVE  ReloadFaithful'
<1> SUFFICES ASSUME NEW t \in Services
             PROVE  /\ reload'[t].source <= source'
                    /\ reload'[t].pc \in {"apply", "reapply"} /\ reload'[t].source = source'
                          => reload'[t].rules = role'
    BY Zenon DEF ReloadFaithful
<1>0. /\ source \in Nat /\ source' \in Nat /\ reload[t].source \in Nat
      /\ reload[t].source <= source
      /\ reload[t].pc \in {"apply", "reapply"} /\ reload[t].source = source => reload[t].rules = role
    BY Zenon DEF AdmissionTypeOK, ReloadRecord, ReloadFaithful
<1>1. /\ source' >= source
      /\ source' = source => role' = role
    BY VersionsTell, Zenon
<1>2. CASE reload'[t] = reload[t]
    BY <1>0, <1>1, <1>2
<1>3. ASSUME NEW s \in Services, Reload(s), t = s, reload'[t] # reload[t]
      PROVE  \/ reload'[t].source = 0 /\ reload'[t].pc \notin {"apply", "reapply"}
             \/ reload'[t].source = source /\ source' = source
                /\ reload'[t].pc \notin {"apply", "reapply"}
             \/ /\ source' = source /\ reload'[t].source = reload[t].source
                /\ reload'[t].rules = role
             \/ reload'[t].source = reload[t].source /\ reload'[t].pc = "memory"
  <2>0. reload \in [Services -> ReloadRecord] /\ reload[s] \in ReloadRecord
      BY Zenon DEF AdmissionTypeOK
  <2>1. CASE ReloadBegin(s)
    <3>1. PICK pc \in {"load", "refresh"} :
              reload' = [reload EXCEPT ![s] = [NoReload EXCEPT !.pc = pc, !.source = source,
                                                              !.policy = policy]]
        BY <2>1, Zenon DEF ReloadBegin
    <3>2. reload'[t] = [NoReload EXCEPT !.pc = pc, !.source = source, !.policy = policy]
        BY <1>3, <2>0, <3>1, Zenon
    <3>3. reload'[t].pc = pc /\ reload'[t].source = source
        BY <3>2, NoReloadType, Zenon DEF ReloadRecord
    <3>4. QED  BY <2>1, <3>3, Zenon DEF ReloadBegin
  <2>2. CASE ReloadCompile(s)
    <3>1. reload'[t].source = reload[t].source /\ reload'[t].rules = role
        BY <1>3, <2>0, <2>2, Zenon DEF ReloadCompile, ReloadRecord
    <3>2. QED  BY <2>2, <3>1, Zenon DEF ReloadCompile
  <2>3. CASE ReloadApply(s)
    <3>1. \/ reload'[t] = [reload[t] EXCEPT !.pc = "memory"]
          \/ reload'[t] = [NoReload EXCEPT !.pc = "again"]
          \/ reload'[t] = NoReload
        BY <1>3, <2>0, <2>3, Zenon DEF ReloadApply
    <3>2. reload'[t] = [reload[t] EXCEPT !.pc = "memory"]
             => reload'[t].source = reload[t].source /\ reload'[t].pc = "memory"
        BY <1>3, <2>0, Zenon DEF ReloadRecord
    <3>3. reload'[t] = [NoReload EXCEPT !.pc = "again"]
             => reload'[t].source = 0 /\ reload'[t].pc = "again"
        BY NoReloadType, Zenon DEF ReloadRecord
    <3>4. QED  BY <3>1, <3>2, <3>3, NoReloadType, Zenon
  <2>4. CASE ReloadAgain(s)
    <3>1. reload'[t] = [reload[s] EXCEPT !.pc = "load", !.source = source, !.policy = policy]
        BY <1>3, <2>0, <2>4, Zenon DEF ReloadAgain
    <3>2. reload'[t].source = source /\ reload'[t].pc = "load"
        BY <2>0, <3>1, Zenon DEF ReloadRecord
    <3>3. QED  BY <2>4, <3>2, Zenon DEF ReloadAgain
  <2>5. CASE ReloadMemory(s)
      BY <1>3, <2>0, <2>5, NoReloadType, Zenon DEF ReloadMemory
  <2>6. QED  BY <1>3, <2>1, <2>2, <2>3, <2>4, <2>5 DEF Reload
<1>4. ASSUME NEW s \in Services, Reload(s), t # s PROVE reload'[t] = reload[t]
    BY <1>4 DEF Reload, ReloadBegin, ReloadCompile, ReloadApply, ReloadAgain, ReloadMemory,
                AdmissionTypeOK
<1>5. CASE reload'[t] # reload[t]
  <2>1. PICK s \in Services : Reload(s) /\ t = s
      BY <1>4, <1>5, Untouched, Zenon
  <2>2. QED  BY <1>0, <1>1, <1>3, <1>5, <2>1
<1>6. QED  BY <1>2, <1>5, Zenon

\* The steps of a pull.
LEMMA PullForms ==
    ASSUME AdmissionTypeOK, [Next]_vars, NEW b \in Actors
    PROVE  \/ pull'[b] = pull[b]
           \/ pull'[b] = NoPull
           \/ pull'[b].pc = "facts" /\ pull'[b].source = source
           \/ /\ pull'[b].pc = "compare" /\ pull'[b].source = pull[b].source
              /\ pull'[b].by = pull[b].by /\ pull[b].pc = "facts"
              /\ pull'[b].role = role[b] /\ UNCHANGED <<source, role>>
           \/ /\ pull'[b].pc = "save" /\ pull[b].pc = "compare"
              /\ pull'[b].by = pull[b].by
              /\ pull'[b].source = pull[b].source /\ pull'[b].role = pull[b].role
<1>0. pull \in [Actors -> PullRecord] /\ pull[b] \in PullRecord
    BY Zenon DEF AdmissionTypeOK
<1>1. ASSUME NEW a \in Actors, NEW r \in Requests \cup {NoRequest}, PullBegin(a, r)
      PROVE  pull'[b] = pull[b] \/ (pull'[b].pc = "facts" /\ pull'[b].source = source)
  <2>1. pull'[b] = pull[b] \/ pull'[b] = [NoPull EXCEPT !.pc = "facts", !.by = r, !.source = source]
      BY <1>0, <1>1, Zenon DEF PullBegin
  <2>2. LET f == [NoPull EXCEPT !.pc = "facts", !.by = r, !.source = source]
        IN  f.pc = "facts" /\ f.source = source
      BY NoPullType, Zenon DEF PullRecord
  <2>3. QED  BY <2>1, <2>2, Zenon
<1>2. ASSUME NEW a \in Actors, PullEnds(a) PROVE pull'[b] = pull[b] \/ pull'[b] = NoPull
    BY <1>0, <1>2, Zenon DEF PullEnds
<1>3. ASSUME NEW a \in Actors, PullFacts(a), ~PullEnds(a)
      PROVE  \/ pull'[b] = pull[b]
             \/ /\ pull'[b].pc = "compare" /\ pull'[b].source = pull[b].source
                /\ pull'[b].by = pull[b].by /\ pull[b].pc = "facts"
                /\ pull'[b].role = role[b] /\ UNCHANGED <<source, role>>
  <2> DEFINE f == [pull[b] EXCEPT !.pc = "compare", !.policy = policy, !.role = role[b],
                                  !.cap = Permits(enforcer[AuthService][b])]
  <2>1. pull'[b] = pull[b] \/ (a = b /\ pull'[b] = f)
      BY <1>0, <1>3, Zenon DEF PullFacts
  <2>2. f.pc = "compare" /\ f.source = pull[b].source /\ f.by = pull[b].by /\ f.role = role[b]
      BY <1>0, Zenon DEF PullRecord
  <2> HIDE DEF f
  <2>3. QED  BY <1>3, <2>1, <2>2, Zenon DEF PullFacts, authVars
<1>4. ASSUME NEW a \in Actors, PullCompare(a), ~PullEnds(a)
      PROVE  \/ pull'[b] = pull[b]
             \/ /\ pull'[b].pc = "save" /\ pull[b].pc = "compare"
                /\ pull'[b].by = pull[b].by
                /\ pull'[b].source = pull[b].source /\ pull'[b].role = pull[b].role
  <2> DEFINE f == [pull[b] EXCEPT !.pc = "save", !.last = checkpoint]
  <2>1. pull'[b] = pull[b] \/ (a = b /\ pull'[b] = f)
      BY <1>0, <1>4, Zenon DEF PullCompare
  <2>2. /\ f.pc = "save" /\ f.source = pull[b].source /\ f.by = pull[b].by
        /\ f.role = pull[b].role
      BY <1>0, Zenon DEF PullRecord
  <2> HIDE DEF f
  <2>3. QED  BY <1>4, <2>1, <2>2, Zenon DEF PullCompare
<1>5. ASSUME NEW a \in Actors, PullSave(a) PROVE pull'[b] = pull[b] \/ pull'[b] = NoPull
    BY <1>0, <1>5, Zenon DEF PullSave
<1>6. ASSUME NEW a \in Actors, PullFails(a) PROVE PullEnds(a)
    BY <1>6, Zenon DEF PullFails
<1>7. QED
    BY <1>1, <1>2, <1>3, <1>4, <1>5, <1>6, Untouched, Zenon DEF Pull

LEMMA PullFaithfulStep ==
    ASSUME AdmissionTypeOK, AdmissionTypeOK', PullFaithful, [Next]_vars
    PROVE  PullFaithful'
<1> SUFFICES ASSUME NEW b \in Actors
             PROVE  /\ pull'[b].source <= source'
                    /\ pull'[b].pc \in {"compare", "save"} /\ pull'[b].source = source'
                          => pull'[b].role = role'[b]
    BY Zenon DEF PullFaithful
<1>0. /\ source \in Nat /\ source' \in Nat /\ pull[b].source \in Nat
      /\ pull[b].source <= source
      /\ pull[b].pc \in {"compare", "save"} /\ pull[b].source = source => pull[b].role = role[b]
    BY Zenon DEF AdmissionTypeOK, PullRecord, PullFaithful
<1>1. source' >= source /\ (source' = source => role' = role)
    BY VersionsTell, Zenon
<1>2. CASE pull'[b] = pull[b]
    BY <1>0, <1>1, <1>2
<1>3. CASE pull'[b] = NoPull
    BY <1>0, <1>3, NoPullType
<1>4. CASE pull'[b].pc = "facts" /\ pull'[b].source = source
    BY <1>0, <1>1, <1>4, Zenon
<1>5. CASE /\ pull'[b].pc = "compare" /\ pull'[b].source = pull[b].source
           /\ pull'[b].role = role[b] /\ UNCHANGED <<source, role>>
    BY <1>0, <1>5, Zenon
<1>6. CASE /\ pull'[b].pc = "save" /\ pull[b].pc = "compare"
           /\ pull'[b].source = pull[b].source /\ pull'[b].role = pull[b].role
    BY <1>0, <1>1, <1>6
<1>7. QED
    BY <1>2, <1>3, <1>4, <1>5, <1>6, PullForms, Zenon

LEMMA EntryFaithfulStep ==
    ASSUME AdmissionTypeOK, AdmissionTypeOK', PullFaithful, EntryFaithful, [Next]_vars
    PROVE  EntryFaithful'
<1> SUFFICES ASSUME NEW b \in Actors
             PROVE  /\ entry'[b].source <= source'
                    /\ entry'[b].fresh => entry'[b].source > 0
                    /\ entry'[b].fresh /\ entry'[b].source = source' => entry'[b].role = role'[b]
    BY Zenon DEF EntryFaithful
<1>0. /\ source \in Nat /\ source' \in Nat /\ entry[b].source \in Nat /\ pull[b].source \in Nat
      /\ entry[b].source <= source
      /\ entry[b].fresh => entry[b].source > 0
      /\ entry[b].fresh /\ entry[b].source = source => entry[b].role = role[b]
      /\ pull[b].source <= source
      /\ pull[b].pc \in {"compare", "save"} /\ pull[b].source = source => pull[b].role = role[b]
    BY Zenon DEF AdmissionTypeOK, PullRecord, EntryRecord, PullFaithful, EntryFaithful
<1>1. source' >= source /\ (source' = source => role' = role)
    BY VersionsTell, Zenon
<1>2. CASE /\ entry'[b].source = entry[b].source /\ entry'[b].fresh = entry[b].fresh
           /\ entry'[b].role = entry[b].role
    BY <1>0, <1>1, <1>2
<1>3. CASE /\ pull[b].pc = "save" /\ entry'[b].source = pull[b].source
           /\ entry'[b].role = pull[b].role /\ (entry'[b].fresh => pull[b].source > 0)
    BY <1>0, <1>1, <1>3
<1>4. \/ /\ entry'[b].source = entry[b].source /\ entry'[b].fresh = entry[b].fresh
         /\ entry'[b].role = entry[b].role
      \/ /\ pull[b].pc = "save" /\ entry'[b].source = pull[b].source
         /\ entry'[b].role = pull[b].role /\ (entry'[b].fresh => pull[b].source > 0)
  <2>0. entry \in [Actors -> EntryRecord] /\ entry[b] \in EntryRecord
      BY Zenon DEF AdmissionTypeOK
  <2>1. ASSUME NEW a \in Actors, NEW r \in Requests \cup {NoRequest}, PullBegin(a, r)
        PROVE  /\ entry'[b].source = entry[b].source /\ entry'[b].fresh = entry[b].fresh
               /\ entry'[b].role = entry[b].role
      BY <2>0, <2>1 DEF PullBegin, EntryRecord
  <2>2. ASSUME NEW a \in Actors, PullFacts(a) \/ PullCompare(a) \/ PullFails(a)
        PROVE  entry' = entry
      BY <2>2, Zenon DEF PullFacts, PullCompare, PullFails
  <2>3. ASSUME NEW a \in Actors, PullSave(a)
        PROVE  \/ entry'[b] = entry[b]
               \/ /\ pull[b].pc = "save" /\ entry'[b].source = pull[b].source
                  /\ entry'[b].role = pull[b].role /\ (entry'[b].fresh => pull[b].source > 0)
      BY <2>0, <2>3, Zenon DEF PullSave
  <2>4. QED  BY <2>1, <2>2, <2>3, Untouched, Zenon DEF Pull
<1>5. QED
    BY <1>2, <1>3, <1>4, Zenon

\* The steps of a request: where it may come from and go to.
LEMMA RequestForms ==
    ASSUME AdmissionTypeOK, NEW r \in Requests, Step(r) \/ Abandon(r)
    PROVE  /\ \E x \in Answers \cup Progress : req' = [req EXCEPT ![r] = x]
           /\ req[r] # "pulling"
           /\ req'[r] \in Decided /\ ~(req[r] \in Decided) => Decide(r)
           /\ req[r] \in Decided => fence'[r] = fence[r]
           /\ \A t \in Requests \ {r} : req'[t] = req[t] /\ fence'[t] = fence[t]
<1>0. req \in [Requests -> Answers \cup Progress] /\ fence \in [Requests -> Nat]
    BY Zenon DEF AdmissionTypeOK
<1>1. CASE Retry(r)
    BY <1>0, <1>1, Zenon DEF Retry, Decided, Progress
<1>2. CASE Decide(r)
    BY <1>0, <1>2, Zenon DEF Decide, Decided, Progress, Answers
<1>3. CASE Gates(r)
    BY <1>0, <1>3, Zenon DEF Gates, Decided, Progress, Answers
<1>4. CASE TxFence(r)
    BY <1>0, <1>4, Zenon DEF TxFence, Decided, Progress, Answers
<1>5. CASE TxCount(r)
    BY <1>0, <1>5, Zenon DEF TxCount, Decided, Progress, Answers
<1>6. CASE TxCommit(r)
    BY <1>0, <1>6, Zenon DEF TxCommit, Decided, Progress, Answers
<1>7. CASE Abandon(r)
    BY <1>0, <1>7, Zenon DEF Abandon, Decided, Answers
<1>8. QED
    BY <1>1, <1>2, <1>3, <1>4, <1>5, <1>6, <1>7, Zenon DEF Step

\* A pull only moves a request that waits for it, and only to "stale" or "pulled".
LEMMA PullResumes ==
    ASSUME AdmissionTypeOK, PullOwned, NEW a \in Actors, Pull(a) \/ PullFails(a)
    PROVE  \/ req' = req
           \/ \E r \in Requests : /\ req[r] = "pulling" /\ Actor[r] = a /\ pull[a].by = r
                                  /\ \E x \in {"stale", "pulled"} : req' = [req EXCEPT ![r] = x]
<1>0. pull[a].by \in Requests \cup {NoRequest}
    BY Zenon DEF AdmissionTypeOK, PullRecord
<1>1. ASSUME NEW x, Resume(a, x), x \in {"stale", "pulled"}, pull[a].pc # "idle"
      PROVE  \/ req' = req
             \/ \E r \in Requests : /\ req[r] = "pulling" /\ Actor[r] = a /\ pull[a].by = r
                                    /\ \E y \in {"stale", "pulled"} : req' = [req EXCEPT ![r] = y]
    BY <1>0, <1>1, Zenon DEF Resume, PullOwned
<1>2. CASE PullEnds(a) /\ pull[a].pc # "idle"
    BY <1>1, <1>2 DEF PullEnds
<1>3. CASE PullFacts(a)
    BY <1>2, <1>3, Zenon DEF PullFacts
<1>4. CASE PullCompare(a)
    BY <1>2, <1>4, Zenon DEF PullCompare
<1>5. CASE PullFails(a)
    BY <1>2, <1>5, Zenon DEF PullFails
<1>6. CASE PullSave(a)
  <2>1. PICK x \in {"stale", "pulled"} : Resume(a, x)
      BY <1>6, Zenon DEF PullSave
  <2>2. pull[a].pc # "idle"
      BY <1>6, Zenon DEF PullSave
  <2>3. QED  BY <1>1, <2>1, <2>2, Zenon
<1>7. QED
    BY <1>3, <1>4, <1>5, <1>6, Zenon DEF Pull

\* Steps that are neither a request's nor a pull's leave the requests alone.
LEMMA RequestsUntouched ==
    ASSUME [Next]_vars
    PROVE  \/ \E a \in Actors, r \in Requests \cup {NoRequest} : PullBegin(a, r)
           \/ \E a \in Actors : Pull(a) \/ PullFails(a)
           \/ \E r \in Requests : Step(r) \/ Abandon(r)
           \/ UNCHANGED <<req, fence, lock, pull>>
<1>1. ASSUME NEW a \in Actors, NEW x \in Turns, ChangeMembership(a, x)
      PROVE UNCHANGED <<req, fence, lock, pull>>
    BY <1>1, Zenon DEF ChangeMembership, opVars, cacheVars
<1>2. ASSUME NEW s \in Services, Reload(s) PROVE UNCHANGED <<req, fence, lock, pull>>
    BY <1>2, Zenon DEF Reload, ReloadBegin, ReloadCompile, ReloadApply, ReloadAgain, ReloadMemory,
                opVars, cacheVars
<1>3. ASSUME NEW r \in Requests, OperationEnds(r) PROVE UNCHANGED <<req, fence, lock, pull>>
    BY <1>3, Zenon DEF OperationEnds, cacheVars
<1>4. QED
    BY <1>1, <1>2, <1>3, Zenon DEF Next, vars

LEMMA PullOwnedStep ==
    ASSUME AdmissionTypeOK, PullOwned, [Next]_vars
    PROVE  PullOwned'
<1> USE AdmissionAssumption
<1> SUFFICES ASSUME NEW b \in Actors, pull'[b].pc # "idle", pull'[b].by # NoRequest
             PROVE  Actor[pull'[b].by] = b /\ req'[pull'[b].by] = "pulling"
    BY Zenon DEF PullOwned
<1>0. /\ pull \in [Actors -> PullRecord] /\ pull[b].by \in Requests \cup {NoRequest}
      /\ req \in [Requests -> Answers \cup Progress]
    BY Zenon DEF AdmissionTypeOK, PullRecord
<1>1. CASE UNCHANGED <<req, fence, lock, pull>>
    BY <1>1, Zenon DEF PullOwned
<1>2. ASSUME NEW r \in Requests, Step(r) \/ Abandon(r)
      PROVE  Actor[pull'[b].by] = b /\ req'[pull'[b].by] = "pulling"
  <2>1. pull' = pull
      BY <1>2, Zenon DEF Step, Retry, Decide, Gates, TxFence, TxCount, TxCommit, Abandon, cacheVars
  <2>2. Actor[pull[b].by] = b /\ req[pull[b].by] = "pulling" /\ pull[b].by \in Requests
      BY <1>0, <2>1, Zenon DEF PullOwned
  <2>3. QED  BY <1>2, <2>1, <2>2, RequestForms
<1>3. ASSUME NEW a \in Actors, NEW r \in Requests \cup {NoRequest}, PullBegin(a, r)
      PROVE  Actor[pull'[b].by] = b /\ req'[pull'[b].by] = "pulling"
  <2>1. CASE a = b
    <3>1. pull'[b] = [NoPull EXCEPT !.pc = "facts", !.by = r, !.source = source]
        BY <1>0, <1>3, <2>1, Zenon DEF PullBegin
    <3>2. pull'[b].by = r
        BY <3>1, NoPullType, Zenon DEF PullRecord
    <3>3. QED  BY <1>0, <1>3, <2>1, <3>2 DEF PullBegin
  <2>2. CASE a # b
    <3>1. pull'[b] = pull[b]
        BY <1>0, <1>3, <2>2, Zenon DEF PullBegin
    <3>2. Actor[pull[b].by] = b /\ req[pull[b].by] = "pulling" /\ pull[b].by \in Requests
        BY <1>0, <3>1, Zenon DEF PullOwned
    <3>3. QED  BY <1>0, <1>3, <3>1, <3>2 DEF PullBegin
  <2>3. QED  BY <2>1, <2>2, Zenon
<1>4. ASSUME NEW a \in Actors, Pull(a) \/ PullFails(a)
      PROVE  Actor[pull'[b].by] = b /\ req'[pull'[b].by] = "pulling"
  <2>1. CASE a # b
    <3>1. pull'[b] = pull[b]
        BY <1>0, <1>4, <2>1, Zenon DEF Pull, PullFacts, PullCompare, PullSave, PullFails, PullEnds
    <3>2. Actor[pull[b].by] = b /\ req[pull[b].by] = "pulling" /\ pull[b].by \in Requests
        BY <1>0, <3>1, Zenon DEF PullOwned
    <3>3. QED  BY <1>0, <1>4, <2>1, <3>1, <3>2, PullResumes
  <2>2. CASE a = b
    <3>1. pull'[b] # NoPull
        BY NoPullType, Zenon
    <3>2. req' = req
        BY <1>0, <1>4, <2>2, <3>1 DEF Pull, PullFacts, PullCompare, PullSave, PullFails, PullEnds
    <3>3. pull'[b].by = pull[b].by /\ pull[b].pc # "idle"
      <4>1. pull[b].pc # "idle"
          BY <1>4, <2>2, Zenon DEF Pull, PullFacts, PullCompare, PullSave, PullFails
      <4>2. pull'[b].pc # "facts" \/ pull'[b] = pull[b]
        <5>1. CASE PullFacts(b)
          <6>1. pull'[b] = [pull[b] EXCEPT !.pc = "compare", !.policy = policy,
                              !.role = role[b], !.cap = Permits(enforcer[AuthService][b])]
              BY <1>0, <3>1, <5>1 DEF PullFacts, PullEnds
          <6>2. pull'[b].pc = "compare"
              BY <1>0, <6>1 DEF PullRecord
          <6>3. QED  BY <6>2, Zenon
        <5>2. CASE PullCompare(b)
          <6>1. pull'[b] = [pull[b] EXCEPT !.pc = "save", !.last = checkpoint]
              BY <1>0, <3>1, <5>2 DEF PullCompare, PullEnds
          <6>2. pull'[b].pc = "save"
              BY <1>0, <6>1 DEF PullRecord
          <6>3. QED  BY <6>2, Zenon
        <5>3. QED
            BY <1>0, <1>4, <2>2, <3>1, <5>1, <5>2 DEF Pull, PullSave, PullFails, PullEnds
      <4>3. QED  BY <3>1, <4>1, <4>2, PullForms
    <3>4. QED  BY <1>0, <3>2, <3>3, Zenon DEF PullOwned
  <2>3. QED  BY <2>1, <2>2, Zenon
<1>5. QED
    BY <1>1, <1>2, <1>3, <1>4, RequestsUntouched

\* A pull puts nobody among the decided, and takes nobody from there.
LEMMA PullsDecideNothing ==
    ASSUME AdmissionTypeOK, PullOwned, [Next]_vars, NEW t \in Requests,
           ~ \E r \in Requests : Step(r) \/ Abandon(r)
    PROVE  /\ fence'[t] = fence[t] /\ lock' = lock
           /\ req'[t] \in Decided \/ req[t] \in Decided => req'[t] = req[t]
<1>0. req \in [Requests -> Answers \cup Progress]
    BY Zenon DEF AdmissionTypeOK
<1>1. fence' = fence /\ lock' = lock
    BY Untouched, Zenon
<1>2. ASSUME NEW a \in Actors, NEW r \in Requests \cup {NoRequest}, PullBegin(a, r)
      PROVE  req'[t] \in Decided \/ req[t] \in Decided => req'[t] = req[t]
    BY <1>0, <1>2, Zenon DEF PullBegin, Decided
<1>3. ASSUME NEW a \in Actors, Pull(a) \/ PullFails(a)
      PROVE  req'[t] \in Decided \/ req[t] \in Decided => req'[t] = req[t]
    BY <1>0, <1>3, PullResumes DEF Decided
<1>4. QED
    BY <1>1, <1>2, <1>3, RequestsUntouched, Zenon

LEMMA DecisionFaithfulStep ==
    ASSUME AdmissionTypeOK, AdmissionTypeOK', PullOwned, EntryFaithful, DecisionFaithful, [Next]_vars
    PROVE  DecisionFaithful'
<1> USE AdmissionAssumption
<1> SUFFICES ASSUME NEW t \in Requests, req'[t] \in Decided
             PROVE  /\ fence'[t] > 0 /\ fence'[t] <= source'
                    /\ fence'[t] = source' /\ Kind[t] # "emergency" => Permits(role'[Actor[t]])
    BY Zenon DEF DecisionFaithful
<1>0. source \in Nat /\ source' \in Nat /\ fence[t] \in Nat
    BY Zenon DEF AdmissionTypeOK
<1>1. source' >= source /\ (source' = source => role' = role)
    BY VersionsTell, Zenon
<1>2. CASE req[t] \in Decided /\ fence'[t] = fence[t]
  <2>1. /\ fence[t] > 0 /\ fence[t] <= source
        /\ fence[t] = source /\ Kind[t] # "emergency" => Permits(role[Actor[t]])
      BY <1>2, Zenon DEF DecisionFaithful
  <2>2. fence[t] = source' => source' = source
      BY <1>0, <1>1, <2>1
  <2>3. fence[t] <= source'
      BY <1>0, <1>1, <2>1
  <2>4. QED  BY <1>1, <1>2, <2>1, <2>2, <2>3, Zenon
<1>3. CASE Decide(t)
  <2> DEFINE e == entry[Actor[t]]
  <2>1. /\ e.source \in Nat /\ e.source <= source
        /\ e.fresh => e.source > 0
        /\ e.fresh /\ e.source = source => e.role = role[Actor[t]]
      BY DEF EntryFaithful, AdmissionTypeOK, EntryRecord
  <2>2. req'[t] = "authorized"
      BY <1>3 DEF Decide, Decided, AdmissionTypeOK
  <2>3. e.fresh /\ (IF Kind[t] = "emergency" THEN e.cap ELSE Permits(e.role))
      BY <1>3, <2>2, Zenon DEF Decide, AdmissionTypeOK
  <2>4. fence'[t] = e.source
      BY <1>3, <2>3 DEF Decide, AdmissionTypeOK
  <2>5. source' = source /\ role' = role
      BY <1>3, Zenon DEF Decide, authVars
  <2>6. QED  BY <1>0, <2>1, <2>3, <2>4, <2>5, Zenon
<1>4. CASE \E r \in Requests : Step(r) \/ Abandon(r)
  <2>1. PICK r \in Requests : Step(r) \/ Abandon(r)
      BY <1>4, Zenon
  <2>2. CASE r = t
      BY <1>2, <1>3, <2>1, <2>2, RequestForms, Zenon
  <2>3. CASE r # t
      BY <1>2, <2>1, <2>3, RequestForms, Zenon
  <2>4. QED  BY <2>2, <2>3, Zenon
<1>5. CASE ~ \E r \in Requests : Step(r) \/ Abandon(r)
    BY <1>2, <1>5, PullsDecideNothing, Zenon
<1>6. QED  BY <1>4, <1>5, Zenon

LEMMA FenceHeldStep ==
    ASSUME AdmissionTypeOK, AdmissionTypeOK', PullOwned, DecisionFaithful, FenceHeld, [Next]_vars
    PROVE  FenceHeld'
<1> USE AdmissionAssumption
<1> SUFFICES ASSUME NEW t \in Requests, req'[t] \in InTransaction
             PROVE  lock' = t /\ fence'[t] = source'
    BY Zenon DEF FenceHeld
<1>0. /\ source \in Nat /\ req \in [Requests -> Answers \cup Progress]
      /\ InTransaction \subseteq Decided
    BY Zenon DEF AdmissionTypeOK, InTransaction, Decided
<1>1. source' # source => lock = NoRequest
    BY VersionsTell, Zenon
<1>2. CASE \E r \in Requests : Step(r) \/ Abandon(r)
  <2>1. PICK r \in Requests : Step(r) \/ Abandon(r)
      BY <1>2, Zenon
  <2>2. source' = source
      BY <2>1, Zenon DEF Step, Retry, Decide, Gates, TxFence, TxCount, TxCommit, Abandon, authVars
  <2>3. CASE r # t
    <3>1. req[t] \in InTransaction /\ fence'[t] = fence[t]
        BY <2>1, <2>3, RequestForms, Zenon
    <3>2. lock = t /\ fence[t] = source
        BY <3>1, Zenon DEF FenceHeld
    <3>3. lock' = lock
      <4>1. lock # r /\ lock # NoRequest
          BY <2>3, <3>2, Zenon
      <4>2. QED
          BY <1>0, <2>1, <3>2, <4>1, Zenon
          DEF Step, Retry, Decide, Gates, TxFence, TxCount, TxCommit, Abandon, Unlocked,
              DecisionFaithful, Decided
    <3>4. QED  BY <2>2, <3>1, <3>2, <3>3, Zenon
  <2>4. CASE r = t
    <3>1. CASE TxFence(t)
      <4>1. fence[t] > 0 /\ fence[t] \in Nat
          BY <3>1, Zenon DEF TxFence, DecisionFaithful, Decided, AdmissionTypeOK
      <4>2. fence[t] \in {0, source}
          BY <1>0, <3>1, Zenon DEF TxFence, InTransaction
      <4>3. QED  BY <2>2, <3>1, <4>1, <4>2 DEF TxFence
    <3>2. CASE TxCount(t)
      <4>1. req'[t] = "counted" /\ lock' = lock /\ req[t] = "fenced"
          BY <1>0, <3>2, Zenon DEF TxCount, InTransaction
      <4>2. QED  BY <2>2, <3>2, <4>1, Zenon DEF TxCount, FenceHeld, InTransaction
    <3>3. CASE Retry(t) \/ Decide(t) \/ Gates(t) \/ TxCommit(t) \/ Abandon(t)
        BY <1>0, <3>3 DEF Retry, Decide, Gates, TxCommit, Abandon, InTransaction
    <3>4. QED  BY <2>1, <2>4, <3>1, <3>2, <3>3, Zenon DEF Step
  <2>5. QED  BY <2>3, <2>4, Zenon
<1>3. CASE ~ \E r \in Requests : Step(r) \/ Abandon(r)
  <2>1. req[t] \in InTransaction /\ fence'[t] = fence[t] /\ lock' = lock
      BY <1>0, <1>3, PullsDecideNothing, Zenon
  <2>2. lock = t /\ fence[t] = source
      BY <2>1, Zenon DEF FenceHeld
  <2>3. QED  BY <1>1, <2>1, <2>2, Zenon
<1>4. QED  BY <1>2, <1>3, Zenon

\* What the creation of an operation is.
LEMMA Creation ==
    ASSUME AdmissionTypeOK, [Next]_vars, NEW t \in Requests, op'[t] # op[t]
    PROVE  \/ op[t] = "live" /\ op'[t] = "ended"
           \/ TxCommit(t) /\ ~Rejected(t) /\ op'[t] = "live"
<1>1. PICK r \in Requests : TxCommit(r) \/ OperationEnds(r)
    BY Untouched, Zenon
<1>2. CASE TxCommit(r)
    BY <1>2, Zenon DEF TxCommit, AdmissionTypeOK
<1>3. CASE OperationEnds(r)
    BY <1>3, Zenon DEF OperationEnds, AdmissionTypeOK
<1>4. QED  BY <1>1, <1>2, <1>3, Zenon

LEMMA CountHoldsStep ==
    ASSUME AdmissionTypeOK, PullOwned, FenceHeld, CountHolds, [Next]_vars
    PROVE  CountHolds'
<1> USE AdmissionAssumption
<1> SUFFICES ASSUME NEW t \in Requests, req'[t] = "counted", NEW u \in Requests
             PROVE  op'[u] # "live"
    BY Zenon DEF CountHolds
<1>0. req \in [Requests -> Answers \cup Progress]
    BY Zenon DEF AdmissionTypeOK
<1>1. req[t] = "counted" \/ TxCount(t)
  <2>1. CASE \E r \in Requests : Step(r) \/ Abandon(r)
    <3>1. PICK r \in Requests : Step(r) \/ Abandon(r)
        BY <2>1, Zenon
    <3>2. CASE r # t
        BY <3>1, <3>2, RequestForms
    <3>3. CASE r = t
        BY <1>0, <3>1, <3>3 DEF Step, Retry, Decide, Gates, TxFence, TxCommit, Abandon
    <3>4. QED  BY <3>2, <3>3, Zenon
  <2>2. CASE ~ \E r \in Requests : Step(r) \/ Abandon(r)
      BY <2>2, PullsDecideNothing, Zenon DEF Decided
  <2>3. QED  BY <2>1, <2>2, Zenon
<1>2. CASE TxCount(t)
  <2>1. Live = {}
      BY <1>0, <1>2, Zenon DEF TxCount
  <2>2. QED  BY <1>2, <2>1, Zenon DEF TxCount, Live
<1>3. CASE req[t] = "counted"
  <2>1. op[u] # "live" /\ lock = t
      BY <1>3, Zenon DEF CountHolds, FenceHeld, InTransaction
  <2>2. SUFFICES ASSUME op'[u] = "live" PROVE FALSE
      BY Zenon
  <2>3. TxCommit(u)
      BY <2>1, <2>2, Creation, Zenon
  <2>4. lock = u /\ u = t
      BY <2>1, <2>3, Zenon DEF TxCommit, FenceHeld, InTransaction
  <2>5. req'[t] # "counted"
      BY <1>0, <2>3, <2>4, Zenon DEF TxCommit
  <2>6. QED  BY <2>5, Zenon
<1>4. QED  BY <1>1, <1>2, <1>3, Zenon

LEMMA ExclusiveStep ==
    ASSUME AdmissionTypeOK, CountHolds, ExclusiveOperation, [Next]_vars
    PROVE  ExclusiveOperation'
<1> SUFFICES ASSUME NEW t \in Requests, NEW u \in Requests, op'[t] = "live", op'[u] = "live"
             PROVE  t = u
    BY Zenon DEF ExclusiveOperation, Live
<1>1. ASSUME NEW x \in Requests, op[x] # "live", op'[x] = "live" PROVE TxCommit(x)
    BY <1>1, Creation, Zenon
<1>2. ASSUME NEW x \in Requests, TxCommit(x), NEW y \in Requests, op'[y] = "live" PROVE x = y
  <2>1. op[y] # "live"
      BY <1>2, Zenon DEF TxCommit, CountHolds
  <2>2. QED  BY <1>2, <2>1, Zenon DEF TxCommit, AdmissionTypeOK
<1>3. CASE op[t] = "live" /\ op[u] = "live"
    BY <1>3, Zenon DEF ExclusiveOperation, Live
<1>4. QED  BY <1>1, <1>2, <1>3, Zenon

LEMMA PerKeyStep ==
    ASSUME AdmissionTypeOK, OneOperationPerKey, [Next]_vars
    PROVE  OneOperationPerKey'
<1> SUFFICES ASSUME NEW t \in Requests, NEW u \in Requests, Key[t] = Key[u],
                    op'[t] # "none", op'[u] # "none"
             PROVE  t = u
    BY Zenon DEF OneOperationPerKey
<1>1. ASSUME NEW x \in Requests, op[x] = "none", op'[x] # "none", NEW y \in Requests,
             Key[x] = Key[y], op'[y] # "none"
      PROVE  x = y
  <2>1. TxCommit(x) /\ ~Rejected(x)
      BY <1>1, Creation, Zenon
  <2>2. op[y] = "none"
      BY <1>1, <2>1, Zenon DEF Rejected, SameKey
  <2>3. QED  BY <1>1, <2>1, <2>2, Zenon DEF TxCommit, AdmissionTypeOK
<1>2. CASE op[t] # "none" /\ op[u] # "none"
    BY <1>2, Zenon DEF OneOperationPerKey
<1>3. QED  BY <1>1, <1>2, Zenon

-----------------------------------------------------------------------------
(* The theorems. *)

LEMMA InvInit == Init => AdmissionInv
<1> SUFFICES ASSUME Init PROVE AdmissionInv
    BY Zenon
<1>1. AdmissionTypeOK
    BY TypeInit, Zenon
<1>2. PullOwned /\ PullFaithful
  <2>1. \A a \in Actors : pull[a] = NoPull
      BY Zenon DEF Init
  <2>2. source = 0
      BY Zenon DEF Init
  <2>3. QED  BY <2>1, <2>2, NoPullType DEF PullOwned, PullFaithful
<1>3. ReloadFaithful
    BY NoReloadType DEF Init, ReloadFaithful
<1>4. EntryFaithful
    BY DEF Init, EntryFaithful, NoEntry
<1>5. DecisionFaithful /\ FenceHeld /\ CountHolds
    BY Zenon DEF Init, DecisionFaithful, FenceHeld, CountHolds, Decided, InTransaction
<1>6. ExclusiveOperation /\ OneOperationPerKey
    BY Zenon DEF Init, ExclusiveOperation, OneOperationPerKey, Live
<1>7. QED
    BY <1>1, <1>2, <1>3, <1>4, <1>5, <1>6, Zenon DEF AdmissionInv

LEMMA InvStep == AdmissionInv /\ [Next]_vars => AdmissionInv'
<1> SUFFICES ASSUME AdmissionInv, [Next]_vars PROVE AdmissionInv'
    BY Zenon
<1> USE DEF AdmissionInv
<1>1. AdmissionTypeOK'
    BY TypeStep, Zenon
<1>2. PullOwned' /\ PullFaithful' /\ ReloadFaithful'
    BY <1>1, PullOwnedStep, PullFaithfulStep, ReloadFaithfulStep, Zenon
<1>3. EntryFaithful' /\ DecisionFaithful' /\ FenceHeld'
    BY <1>1, EntryFaithfulStep, DecisionFaithfulStep, FenceHeldStep, Zenon
<1>4. CountHolds' /\ ExclusiveOperation' /\ OneOperationPerKey'
    BY CountHoldsStep, ExclusiveStep, PerKeyStep, Zenon
<1>5. QED
    BY <1>1, <1>2, <1>3, <1>4, Zenon

LEMMA InvAlways == Spec => []AdmissionInv
BY InvInit, InvStep, PTL DEF Spec

\* Program counters, versions and answers stay in their sets, and the row lock has
\* a holder inside its transaction, for every behaviour of the admission.
THEOREM AdmissionTypes == Spec => []AdmissionTypeOK
<1>1. AdmissionInv => AdmissionTypeOK
    BY Zenon DEF AdmissionInv
<1>2. QED  BY <1>1, InvAlways, PTL

\* However creators of whatever kinds interleave, a definition has at most one live
\* operation: the count inside the creation transaction is made under the fence's lock.
THEOREM AdmissionExclusive == Spec => []ExclusiveOperation
<1>1. AdmissionInv => ExclusiveOperation
    BY Zenon DEF AdmissionInv
<1>2. QED  BY <1>1, InvAlways, PTL

\* An idempotency key makes at most one operation, even after its record expired.
THEOREM AdmissionIdempotent == Spec => []OneOperationPerKey
<1>1. AdmissionInv => OneOperationPerKey
    BY Zenon DEF AdmissionInv
<1>2. QED  BY <1>1, InvAlways, PTL

\* A standard operation is committed only while its actor holds the role for it:
\* what AuthorizeWrite decided by is still so when checkAuthorizationFence passed.
THEOREM AdmissionAuthorized == Spec => CreatedByAdmin
<1>1. ASSUME AdmissionInv, [Next]_vars, NEW r \in Requests,
             op[r] = "none", op'[r] = "live", Kind[r] # "emergency"
      PROVE  Permits(role[Actor[r]])
  <2>1. req[r] = "counted"
      BY <1>1, Creation, Zenon DEF AdmissionInv, TxCommit
  <2>2. QED
      BY <1>1, <2>1, Zenon DEF AdmissionInv, DecisionFaithful, FenceHeld, Decided, InTransaction
<1>2. AdmissionInv /\ [Next]_vars
        => [\A r \in Requests : op[r] = "none" /\ op'[r] = "live" /\ Kind[r] # "emergency"
               => Permits(role[Actor[r]])]_vars
    BY <1>1, Zenon
<1>3. QED  BY <1>2, InvAlways, PTL DEF Spec, CreatedByAdmin

\* The shared checkpoint never goes back, in whatever order pulls of several actors
\* save theirs: SaveCheckpoint's upsert is guarded.
THEOREM CheckpointMonotonic == Spec => CheckpointAdvances
<1> DEFINE Advances == \/ checkpoint'.source > checkpoint.source
                       \/ /\ checkpoint'.source = checkpoint.source
                          /\ checkpoint'.policy >= checkpoint.policy
<1>1. ASSUME AdmissionInv, [Next]_vars PROVE Advances
  <2>1. checkpoint.source \in Nat /\ checkpoint.policy \in Nat
      BY <1>1, Zenon DEF AdmissionInv, AdmissionTypeOK, Version
  <2>2. CASE checkpoint' = checkpoint
      BY <2>1, <2>2
  <2>3. ASSUME NEW a \in Actors, PullSave(a) PROVE Advances
    <3>1. checkpoint' = SaveCheckpoint(pull[a])
        BY <2>3, Zenon DEF PullSave
    <3>2. pull[a].source \in Nat /\ pull[a].policy \in Nat
        BY <1>1, Zenon DEF AdmissionInv, AdmissionTypeOK, PullRecord
    <3>3. QED  BY <2>1, <3>1, <3>2 DEF SaveCheckpoint
  <2>4. (\E a \in Actors : PullSave(a)) \/ checkpoint' = checkpoint
      BY <1>1, Untouched, Zenon DEF Pull, PullBegin, PullFacts, PullCompare, PullFails
  <2>5. QED  BY <2>2, <2>3, <2>4, Zenon
<1>2. AdmissionInv /\ [Next]_vars => [Advances]_vars
    BY <1>1, Zenon
<1>3. QED  BY <1>2, InvAlways, PTL DEF Spec, CheckpointAdvances

\* Whichever service compiles, and whatever changed meanwhile, the rules table only
\* receives the memberships of that instant: Apply compares the source version.
THEOREM RulesCurrent == Spec => RulesAreCurrent
<1>1. ASSUME AdmissionInv, [Next]_vars, rules' # rules PROVE rules' = role
  <2>1. PICK s \in Services : Reload(s)
      BY <1>1, Untouched, Zenon
  <2>2. ReloadApply(s) /\ Applies(s) /\ rules' = reload[s].rules
      BY <1>1, <2>1, Zenon DEF Reload, ReloadBegin, ReloadCompile, ReloadApply, ReloadAgain, ReloadMemory
  <2>3. QED
      BY <1>1, <2>2, Zenon DEF AdmissionInv, ReloadFaithful, ReloadApply, Applies
<1>2. AdmissionInv /\ [Next]_vars => [rules' # rules => rules' = role]_vars
    BY <1>1, Zenon
<1>3. QED  BY <1>2, InvAlways, PTL DEF Spec, RulesAreCurrent
=============================================================================
