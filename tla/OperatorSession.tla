---------------------------- MODULE OperatorSession ----------------------------
(* The command streams of one cluster's operators and the sessions that stand  *)
(* for them: identity check, Establish, the stream registry that keeps one     *)
(* stream for each operator, heartbeats, and the session registry that turns   *)
(* a silent agent's session suspect and then offline. It runs against the      *)
(* identities of OperatorIdentity, which revoke sessions and close streams.    *)
(*                                                                             *)
(*   internal/operator/service.go              CommandStream                   *)
(*   internal/operator/session_registry.go, stream_registry.go                 *)
(*   internal/store/postgres/operators.go      sessionStore                    *)
(*                                                                             *)
(* The mTLS gateway path is modelled. The agent leaves InstanceId empty in its *)
(* Hello, so Establish never refuses a second instance.                        *)
EXTENDS OperatorIdentity

CONSTANTS
    NoStream,      \* no stream registered for an operator
    MaxFaults      \* lost writes, failed sends and restarts in one behaviour

ASSUME SessionAssumption ==
    /\ NoStream \notin Streams
    /\ MaxFaults \in Nat

VARIABLES
    stream,        \* how far a CommandStream handler is
    cancelled,     \* streams whose context has been cancelled
    streams,       \* StreamRegistry: the stream of an operator
    entry,         \* SessionRegistry: how old the last heartbeat of a session is
    verdict,       \* transitions evaluate has collected and not applied
    faults

connection == <<stream, cancelled, streams>>
registry == <<entry, verdict>>
identityVars == <<admin, tokens, identity, sessions, closing>>
vars == <<identityVars, connection, registry, faults>>

StreamStates == {"idle", "checked", "established", "registered", "open", "closed"}
Ages == {"none", "fresh", "late", "dead"}
Verdicts == {"none", "suspect", "offline"}

SessionInit ==
    /\ OperatorInit
    /\ stream = [t \in Streams |-> "idle"]
    /\ cancelled = {}
    /\ streams = [o \in Operators |-> NoStream]
    /\ entry = [t \in Streams |-> "none"]
    /\ verdict = [t \in Streams |-> "none"]
    /\ faults = 0

Fault ==
    /\ faults < MaxFaults
    /\ faults' = faults + 1

-------------------------------------------------------------------------------
(* Opening a stream                                                            *)

(* CommandStream reads the active operator of the cluster and compares its     *)
(* certificate; nothing holds the row afterwards.                              *)
StreamCheck(t, o) ==
    /\ stream[t] = "idle"
    /\ op[o] = "active"
    /\ stream' = [stream EXCEPT ![t] = "checked"]
    /\ owner' = [owner EXCEPT ![t] = o]
    /\ UNCHANGED <<admin, tokens, identity, session, closing, cancelled, streams, registry, faults>>

(* Establish: close the operator's live sessions, insert the new one.          *)
StreamEstablish(t) ==
    /\ stream[t] = "checked"
    /\ stream' = [stream EXCEPT ![t] = "established"]
    /\ session' = [s \in Sessions |-> IF s = t THEN "online"
                                      ELSE IF owner[s] = owner[t] /\ session[s] \in Live THEN "offline"
                                      ELSE session[s]]
    /\ UNCHANGED <<admin, tokens, identity, owner, closing, cancelled, streams, registry, faults>>

(* StreamRegistry.Register: the stream registered before is cancelled.         *)
StreamRegister(t) ==
    /\ stream[t] = "established"
    /\ stream' = [stream EXCEPT ![t] = "registered"]
    /\ streams' = [streams EXCEPT ![owner[t]] = t]
    /\ cancelled' = cancelled \union ({streams[owner[t]]} \ {NoStream})
    /\ UNCHANGED <<identityVars, registry, faults>>

(* SessionEstablished is sent, then SessionRegistry.Register.                  *)
StreamOpen(t) ==
    /\ stream[t] = "registered"
    /\ stream' = [stream EXCEPT ![t] = "open"]
    /\ entry' = [entry EXCEPT ![t] = "fresh"]
    /\ UNCHANGED <<identityVars, cancelled, streams, verdict, faults>>

(* The handler returns: the deferred unregister drops only its own stream.     *)
Close(t) ==
    /\ stream' = [stream EXCEPT ![t] = "closed"]
    /\ streams' = [o \in Operators |-> IF streams[o] = t THEN NoStream ELSE streams[o]]
    /\ UNCHANGED <<identityVars, cancelled>>

(* The send fails and the handler returns before the session registry knows    *)
(* the session.                                                                *)
StreamSendFails(t) ==
    /\ stream[t] = "registered"
    /\ Fault
    /\ Close(t)
    /\ UNCHANGED registry

(* The agent goes away, a delivery fails or the context is cancelled.          *)
StreamEnd(t) ==
    /\ stream[t] = "open"
    /\ Close(t)
    /\ UNCHANGED <<registry, faults>>

(* The handler of a committed enrolment or revocation calls                    *)
(* StreamRegistry.Revoke.                                                      *)
StreamRevoke(o) ==
    /\ o \in closing
    /\ closing' = closing \ {o}
    /\ cancelled' = cancelled \union ({streams[o]} \ {NoStream})
    /\ streams' = [streams EXCEPT ![o] = NoStream]
    /\ UNCHANGED <<admin, tokens, identity, sessions, stream, registry, faults>>

-------------------------------------------------------------------------------
(* Heartbeats and expiry                                                       *)

Beat(t) ==
    /\ stream[t] = "open"
    /\ entry' = [entry EXCEPT ![t] = IF @ = "none" THEN @ ELSE "fresh"]
    /\ UNCHANGED <<admin, tokens, identity, owner, closing, connection, verdict>>

(* A heartbeat refreshes the registry, then the row; a cancelled context fails *)
(* the second write, and a row that is not live is left alone.                 *)
Heartbeat(t) ==
    /\ Beat(t)
    /\ session' = IF t \notin cancelled /\ session[t] \in Live
                  THEN [session EXCEPT ![t] = "online"] ELSE session
    /\ UNCHANGED faults

HeartbeatLost(t) ==
    /\ Beat(t)
    /\ Fault
    /\ UNCHANGED session

(* Time passes without a heartbeat: suspectAfter, then offlineAfter.           *)
Older(age) == IF age = "fresh" THEN "late" ELSE "dead"

Age(t) ==
    /\ entry[t] \in {"fresh", "late"}
    /\ entry' = [entry EXCEPT ![t] = Older(@)]
    /\ UNCHANGED <<identityVars, connection, verdict, faults>>

Judge(age) == CASE age = "dead" -> "offline" [] age = "late" -> "suspect" [] OTHER -> "none"

(* evaluate collects under the lock and writes after releasing it.             *)
SweepCollect ==
    /\ \A t \in Streams : verdict[t] = "none"
    /\ \E t \in Streams : Judge(entry[t]) # "none"
    /\ verdict' = [t \in Streams |-> Judge(entry[t])]
    /\ UNCHANGED <<identityVars, connection, entry, faults>>

(* sessions_one_active: the row may become live only if no other live row      *)
(* belongs to its operator.                                                    *)
OneLiveUnchecked(t) == TRUE
OneLive(t) == \A s \in Sessions \ {t} : owner[s] = owner[t] => session[s] \notin Live

WritableAlways(t) == TRUE
Writable(t) == session[t] # "revoked"

(* UpdateStatus.                                                               *)
SetStatus(t, status) ==
    IF Writable(t) /\ (status \in Live => OneLive(t))
    THEN session' = [session EXCEPT ![t] = status]
    ELSE UNCHANGED session

(* One collected transition is taken off the list; an offline session leaves   *)
(* the registry before its row is written.                                     *)
Take(t) ==
    /\ verdict[t] # "none"
    /\ verdict' = [verdict EXCEPT ![t] = "none"]
    /\ entry' = IF verdict[t] = "offline" THEN [entry EXCEPT ![t] = "none"] ELSE entry
    /\ UNCHANGED <<admin, tokens, identity, owner, closing, connection>>

(* A sweep that only ever marks sessions suspect.                              *)
SweepApplySuspect(t) ==
    /\ Take(t)
    /\ SetStatus(t, "suspect")
    /\ UNCHANGED faults

SweepApply(t) ==
    /\ Take(t)
    /\ SetStatus(t, verdict[t])
    /\ UNCHANGED faults

(* The write fails: the transition is logged and dropped.                      *)
SweepLost(t) ==
    /\ Take(t)
    /\ Fault
    /\ UNCHANGED session

(* The orchestrator restarts: both registries, every stream and every request  *)
(* in flight are gone; the database stays.                                     *)
Restart ==
    /\ Fault
    /\ stream' = [t \in Streams |-> IF stream[t] = "idle" THEN "idle" ELSE "closed"]
    /\ cancelled' = {}
    /\ streams' = [o \in Operators |-> NoStream]
    /\ entry' = [t \in Streams |-> "none"]
    /\ verdict' = [t \in Streams |-> "none"]
    /\ closing' = {}
    /\ cascade' = NothingListed
    /\ token' = [k \in Tokens |-> IF token[k] = "checked" THEN "none" ELSE token[k]]
    /\ op' = [o \in Operators |-> IF op[o] = "checked" THEN "refused" ELSE op[o]]
    /\ renewing' = [o \in Operators |-> {}]
    /\ UNCHANGED <<scope, settled, lapsed, grant, serial, sessions>>

-------------------------------------------------------------------------------
StreamsIdle == UNCHANGED <<connection, registry, faults>>
IdentityStep == IdentityNext /\ StreamsIdle

SessionNext ==
    \/ IdentityStep
    \/ \E o \in Operators : StreamRevoke(o)
    \/ \E t \in Streams :
        \/ \E o \in Operators : StreamCheck(t, o)
        \/ StreamEstablish(t)
        \/ StreamRegister(t)
        \/ StreamOpen(t)
        \/ StreamSendFails(t)
        \/ StreamEnd(t)
        \/ Heartbeat(t)
        \/ HeartbeatLost(t)
        \/ Age(t)
        \/ SweepApply(t)
        \/ SweepLost(t)
    \/ SweepCollect
    \/ Restart

SessionSpec == SessionInit /\ [][SessionNext]_vars

(* Time passes, the registry's ticker fires and its loop goes on, and a        *)
(* handler whose context is cancelled returns. Agents and callers owe nothing. *)
SessionFairness ==
    /\ WF_vars(SweepCollect)
    /\ \A t \in Streams :
        /\ WF_vars(Age(t))
        /\ WF_vars(SweepApply(t))
        /\ WF_vars(t \in cancelled /\ StreamEnd(t))

FairSpec == SessionSpec /\ SessionFairness

-------------------------------------------------------------------------------
(* Properties                                                                  *)

(* The columns of the three tables and both registries (StreamRegistry,        *)
(* SessionRegistry) hold values the code writes there.                         *)
OperatorTypeOK ==
    /\ scope \in ScopeStates
    /\ settled \in BOOLEAN
    /\ token \in [Tokens -> TokenStates]
    /\ lapsed \subseteq Tokens
    /\ grant \in [Operators -> Tokens \union {NoToken}]
    /\ op \in [Operators -> OperatorStates]
    /\ serial \in [Operators -> 0..MaxSerial]
    /\ renewing \in [Operators -> SUBSET (0..(MaxSerial - 1))]
    /\ session \in [Sessions -> SessionStates]
    /\ owner \in [Sessions -> Operators \union {NoOperator}]
    /\ cascade \in [tokens : BOOLEAN, operators : SUBSET Operators, sessions : BOOLEAN,
                    quiet : BOOLEAN, open : BOOLEAN]
    /\ closing \subseteq Operators
    /\ stream \in [Streams -> StreamStates]
    /\ cancelled \subseteq Streams
    /\ streams \in [Operators -> Streams \union {NoStream}]
    /\ entry \in [Streams -> Ages]
    /\ verdict \in [Streams -> Verdicts]
    /\ faults \in 0..MaxFaults

(* A cluster has at most one active operator and at most one pending token,    *)
(* whatever enrolments, replacements and revocations overlap.                  *)
OneIdentity ==
    /\ \A o, p \in ActiveOperators : o = p
    /\ \A j, k \in Pending : j = k

(* A token enrols at most one operator: two Enroll calls that both found it    *)
(* pending do not both commit.                                                 *)
TokenEnrolsOnce ==
    \A o \in Operators : Enrolled(o) =>
        /\ token[grant[o]] = "used"
        /\ \A p \in Operators \ {o} : Enrolled(p) => grant[p] # grant[o]

(* An operator has at most one live session: neither overlapping Establish     *)
(* calls nor the expiry of a session that was already replaced gives it two.   *)
OneLiveSession ==
    \A s, r \in Sessions :
        session[s] \in Live /\ session[r] \in Live /\ owner[s] = owner[r] => s = r

(* Retrying the cascade once no request is left in flight leaves the disabled  *)
(* scope without an active operator and without a pending token, for good.     *)
RetryConverges == settled => ActiveOperators = {} /\ Pending = {}

(* A stream the registry would close is one that was opened for that operator  *)
(* and has not returned.                                                       *)
RegistryPointsToOpen ==
    \A o \in Operators : streams[o] # NoStream =>
        /\ owner[streams[o]] = o
        /\ stream[streams[o]] \in {"registered", "open"}
        /\ streams[o] \notin cancelled

(* Revocation is final: no renewal, heartbeat, expiry or enrolment in flight   *)
(* brings back a revoked operator or session, or a spent token, and a          *)
(* certificate changes only while its operator is active.                      *)
Final ==
    /\ \A o \in Operators :
        /\ op[o] = "revoked" => op'[o] = "revoked"
        /\ op[o] = "superseded" => op'[o] \in {"superseded", "revoked"}
        /\ op[o] \in {"superseded", "revoked"} => serial'[o] = serial[o]
    /\ \A s \in Sessions : session[s] = "revoked" => session'[s] = "revoked"
    /\ \A k \in Tokens : token[k] \in {"used", "revoked", "expired"} => token'[k] = token[k]
RevokedStays == [][Final]_vars

(* A cluster loses its active operator only by revocation or to a successor    *)
(* that is active in the same step, whose token it consumed.                   *)
Succeeded ==
    \A o \in ActiveOperators : op'[o] = "superseded" =>
        \E p \in Operators : op'[p] = "active" /\ op[p] # "active" /\ token'[grant[p]] = "used"
HandOver == [][Succeeded]_vars

(* The session of a stream that has returned ends for good, as long as no      *)
(* write, send or process has failed.                                          *)
SilentSessionEnds ==
    \A t \in Streams : stream[t] = "closed" ~> (faults > 0 \/ [](session[t] \notin Live))

-------------------------------------------------------------------------------
(* What the comments of the code promise and it does not keep.                 *)

(* "a customer that is disabled must never leave active operators/sessions     *)
(* behind": once a cascade has committed, none is left (customer.go:191).      *)
DisabledLeavesNone ==
    [][CascadeApply => \A o \in Operators : op'[o] # "active"]_vars

(* "a dead agent becomes suspect and then offline instead of looking online    *)
(* forever": a live session without a stream ends (service.go:569).            *)
DeadAgentGoesOffline ==
    \A s \in Sessions :
        (session[s] \in Live /\ (s \in Streams => stream[s] = "closed")) ~> session[s] \notin Live
===============================================================================
