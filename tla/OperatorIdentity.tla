--------------------------- MODULE OperatorIdentity ---------------------------
(* The identity of the operator of one cluster: enrollment tokens, enrolment,  *)
(* certificate renewal, revocation and the cascade of a disabled customer or   *)
(* cluster.                                                                    *)
(*                                                                             *)
(*   internal/orchestrator/enrollment.go, operator.go, customer.go, cluster.go *)
(*   internal/operator/service.go                  Enroll, RenewCertificate    *)
(*   internal/store/postgres/operator_management.go, operator_lifecycle.go     *)
(*                                                                             *)
(* A handler reads before it opens its transaction, so every request has a     *)
(* check step and a commit step that may be far apart. A transaction is one    *)
(* step, but for the cascade: it lists the rows of the scope first and updates *)
(* afterwards, and under READ COMMITTED another commit fits in between.        *)
(* The customer and the cluster are one scope: both are read by the same       *)
(* checks and both cascades are revokeScope.                                   *)
EXTENDS Naturals

CONSTANTS
    Tokens,        \* rows of enrollment_tokens
    Operators,     \* operator ids: one for each enrolment request
    Streams,       \* command streams, each with the session it establishes
    NameOf,        \* the operator_name a token is bound to
    NoToken,       \* no token presented yet
    NoOperator,    \* a session that does not exist yet
    MaxSerial      \* certificates issued to one operator

ASSUME IdentityAssumption ==
    /\ Operators \intersect Streams = {}
    /\ NoToken \notin Tokens
    /\ NoOperator \notin Operators
    /\ NameOf \in [Tokens -> STRING]
    /\ MaxSerial \in Nat \ {0}

VARIABLES
    scope,         \* customers.status and clusters.status
    settled,       \* a cascade that listed with no request in flight has committed
    token,         \* enrollment_tokens.state
    lapsed,        \* tokens whose expires_at has passed
    grant,         \* the token an enrolment presented
    op,            \* operators.status
    serial,        \* operators.cert_serial, as the number of certificates issued
    renewing,      \* serials validated by a renewal that has not committed
    session,       \* sessions.status
    owner,         \* sessions.operator_id
    cascade,       \* what revokeScope listed
    closing        \* operators whose stream is still to be closed

tokens == <<token, lapsed>>
admin == <<scope, settled, cascade>>
identity == <<grant, op, serial, renewing>>
sessions == <<session, owner>>

-------------------------------------------------------------------------------
(* A session row is named by the stream that establishes it; the placeholder   *)
(* session an enrolment inserts is named by its operator.                      *)
Sessions == Operators \union Streams

TokenStates == {"none", "checked", "pending", "used", "revoked", "expired"}
OperatorStates == {"none", "checked", "refused", "active", "superseded", "revoked"}
SessionStates == {"none", "online", "suspect", "offline", "revoked"}

Live == {"online", "suspect"}
Enrolled(o) == op[o] \in {"active", "superseded", "revoked"}
SessionsOf(p) == {s \in Sessions : owner[s] \in p /\ session[s] # "none"}

(* revokeScope before it has listed, and what it listed: whether tokens,       *)
(* which operators, whether sessions, and whether any request was in flight.   *)
NothingListed == [tokens |-> FALSE, operators |-> {}, sessions |-> FALSE, quiet |-> FALSE, open |-> FALSE]

ScopeStates == {"active", "disabled"}

OperatorInit ==
    /\ scope = "active"
    /\ settled = FALSE
    /\ token = [k \in Tokens |-> "none"]
    /\ lapsed = {}
    /\ grant = [o \in Operators |-> NoToken]
    /\ op = [o \in Operators |-> "none"]
    /\ serial = [o \in Operators |-> 0]
    /\ renewing = [o \in Operators |-> {}]
    /\ session = [s \in Sessions |-> "none"]
    /\ owner = [s \in Sessions |-> NoOperator]
    /\ cascade = NothingListed
    /\ closing = {}

-------------------------------------------------------------------------------
(* Enrollment tokens                                                           *)

ActiveOperators == {o \in Operators : op[o] = "active"}
Pending == {k \in Tokens : token[k] = "pending"}

(* GetActiveByName: the name a token is bound to is in use.                    *)
NameTaken(k) == \E o \in ActiveOperators : NameOf[grant[o]] = NameOf[k]

ScopeOpenIgnored == TRUE
ScopeOpen == scope = "active"

(* CreateEnrollmentToken's reads: the scope is active, the name is free.       *)
TokenCheck(k) ==
    /\ token[k] = "none"
    /\ ScopeOpen
    /\ ~NameTaken(k)
    /\ token' = [token EXCEPT ![k] = "checked"]
    /\ UNCHANGED <<admin, lapsed, identity, sessions, closing>>

(* What becomes of the pending tokens in front of a new one or of a            *)
(* revocation: an overdue one is marked expired, the others revoked.           *)
Retire(k) == IF k \in lapsed THEN "expired" ELSE "revoked"

(* createEnrollmentToken: a live pending token is replaced only on request.    *)
TokenInsert(k, replace) ==
    /\ token[k] = "checked"
    /\ token' = IF replace \/ Pending \subseteq lapsed
                THEN [j \in Tokens |-> IF j = k THEN "pending"
                                       ELSE IF j \in Pending THEN Retire(j) ELSE token[j]]
                ELSE [token EXCEPT ![k] = "none"]
    /\ UNCHANGED <<admin, lapsed, identity, sessions, closing>>

(* expires_at passes.                                                          *)
TokenLapse(k) ==
    /\ token[k] = "pending"
    /\ k \notin lapsed
    /\ lapsed' = lapsed \union {k}
    /\ UNCHANGED <<admin, token, identity, sessions, closing>>

(* RevokePendingEnrollmentToken.                                               *)
RevokePendingToken(k) ==
    /\ token[k] = "pending"
    /\ ScopeOpen
    /\ token' = [token EXCEPT ![k] = Retire(k)]
    /\ UNCHANGED <<admin, lapsed, identity, sessions, closing>>

-------------------------------------------------------------------------------
(* Enrolment                                                                   *)

UsableUncounted(k) == token[k] \in {"pending", "used"} /\ k \notin lapsed
Usable(k) == token[k] = "pending" /\ k \notin lapsed

(* Enroll's reads: a usable token, an active scope, a free name.               *)
EnrollCheck(o, k) ==
    /\ op[o] = "none"
    /\ token[k] = "pending"
    /\ k \notin lapsed
    /\ ScopeOpen
    /\ ~NameTaken(k)
    /\ grant' = [grant EXCEPT ![o] = k]
    /\ op' = [op EXCEPT ![o] = "checked"]
    /\ UNCHANGED <<admin, tokens, serial, renewing, sessions, closing>>

(* The operator an enrolment replaces.                                         *)
SupersededNever(p) == FALSE
Superseded(p) == op[p] = "active"

(* EnrollOperator: consume the token, supersede the active operator and revoke *)
(* its sessions, insert the operator and its placeholder session. The handler  *)
(* then closes the stream of the operator it replaced.                         *)
EnrollCommit(o) ==
    /\ op[o] = "checked"
    /\ \/ /\ ~Usable(grant[o])
          /\ op' = [op EXCEPT ![o] = "refused"]
          /\ UNCHANGED <<token, serial, sessions, closing>>
       \/ /\ Usable(grant[o])
          /\ token' = [token EXCEPT ![grant[o]] = "used"]
          /\ op' = [p \in Operators |-> IF p = o THEN "active"
                                        ELSE IF Superseded(p) THEN "superseded" ELSE op[p]]
          /\ serial' = [serial EXCEPT ![o] = 1]
          /\ session' = [s \in Sessions |-> IF s = o THEN "online"
                                            ELSE IF s \in SessionsOf({p \in Operators : Superseded(p)}) THEN "revoked"
                                            ELSE session[s]]
          /\ owner' = [owner EXCEPT ![o] = o]
          /\ closing' = closing \union {p \in Operators : Superseded(p)}
    /\ UNCHANGED <<admin, lapsed, grant, renewing>>

-------------------------------------------------------------------------------
(* Renewal and revocation                                                      *)

(* RenewCertificate's reads: the operator is active and the certificate        *)
(* presented is its current one.                                               *)
RenewCheck(o) ==
    /\ op[o] = "active"
    /\ serial[o] < MaxSerial
    /\ serial[o] \notin renewing[o]
    /\ renewing' = [renewing EXCEPT ![o] = @ \union {serial[o]}]
    /\ UNCHANGED <<admin, tokens, grant, op, serial, sessions, closing>>

Renewable(o, n) == op[o] = "active" /\ serial[o] = n

(* UpdateCertificate: a compare-and-set on the serial that was validated.      *)
RenewCommit(o, n) ==
    /\ n \in renewing[o]
    /\ renewing' = [renewing EXCEPT ![o] = @ \ {n}]
    /\ serial' = IF Renewable(o, n) THEN [serial EXCEPT ![o] = @ + 1] ELSE serial
    /\ UNCHANGED <<admin, tokens, grant, op, sessions, closing>>

(* RevokeOperator: the operator and all its sessions, then its stream. A       *)
(* repeated call changes no row and closes the stream again.                   *)
RevokeOperator(o) ==
    /\ Enrolled(o)
    /\ ScopeOpen
    /\ op' = [op EXCEPT ![o] = "revoked"]
    /\ session' = IF op[o] = "revoked" THEN session
                  ELSE [s \in Sessions |-> IF s \in SessionsOf({o}) THEN "revoked" ELSE session[s]]
    /\ closing' = closing \union {o}
    /\ UNCHANGED <<admin, tokens, grant, serial, renewing, owner>>

-------------------------------------------------------------------------------
(* Disabling the customer or the cluster                                       *)

(* The status commits before the cascade starts.                               *)
Disable ==
    /\ scope = "active"
    /\ scope' = "disabled"
    /\ UNCHANGED <<settled, tokens, identity, sessions, cascade, closing>>

NothingInFlight ==
    /\ \A k \in Tokens : token[k] # "checked"
    /\ \A o \in Operators : op[o] # "checked"

(* revokeScope's SELECTs, for the first call or an idempotent retry.           *)
CascadeList ==
    /\ scope = "disabled"
    /\ ~cascade.open
    /\ LET listed == {o \in Operators : op[o] \in {"active", "superseded"}}
       IN cascade' = [tokens |-> Pending # {},
                      operators |-> listed,
                      sessions |-> \E s \in SessionsOf(listed) : session[s] \in Live,
                      quiet |-> NothingInFlight,
                      open |-> TRUE]
    /\ UNCHANGED <<scope, settled, tokens, identity, sessions, closing>>

(* revokeScope's UPDATEs: tokens and operators of the whole scope, sessions of *)
(* the operators listed, each only if its list was not empty.                  *)
CascadeApply ==
    /\ cascade.open
    /\ token' = [k \in Tokens |-> IF cascade.tokens /\ k \in Pending THEN "revoked" ELSE token[k]]
    /\ op' = [o \in Operators |-> IF cascade.operators # {} /\ op[o] \in {"active", "superseded"}
                                  THEN "revoked" ELSE op[o]]
    /\ session' = [s \in Sessions |-> IF /\ cascade.sessions
                                         /\ s \in SessionsOf(cascade.operators)
                                         /\ session[s] \in Live
                                      THEN "revoked" ELSE session[s]]
    /\ settled' = (settled \/ cascade.quiet)
    /\ cascade' = NothingListed
    /\ UNCHANGED <<scope, lapsed, grant, serial, renewing, owner, closing>>

IdentityNext ==
    \/ \E k \in Tokens :
        \/ TokenCheck(k)
        \/ \E replace \in BOOLEAN : TokenInsert(k, replace)
        \/ TokenLapse(k)
        \/ RevokePendingToken(k)
        \/ \E o \in Operators : EnrollCheck(o, k)
    \/ \E o \in Operators :
        \/ EnrollCommit(o)
        \/ RenewCheck(o)
        \/ \E n \in 1..MaxSerial : RenewCommit(o, n)
        \/ RevokeOperator(o)
    \/ Disable
    \/ CascadeList
    \/ CascadeApply
===============================================================================
