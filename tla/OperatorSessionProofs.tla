------------------------- MODULE OperatorSessionProofs -------------------------
(* The safety properties of OperatorSession, for every set of tokens, operators *)
(* and streams. The inductive invariant adds to them what ties the rows of an   *)
(* operator to its enrolment, the phases of a stream to its session, and what a *)
(* cascade listed to what is still true when it applies its updates.            *)
EXTENDS OperatorSession, TLAPS

(* An enrolment presents a token; a row belongs to an enrolled operator, and    *)
(* the placeholder to its own; an operator not enrolled has no placeholder.     *)
RowsEnrolled ==
    /\ \A o \in Operators : op[o] = "checked" \/ Enrolled(o) => grant[o] \in Tokens
    /\ \A s \in Sessions : owner[s] # NoOperator => Enrolled(owner[s])
    /\ \A o \in Operators : owner[o] \in {o, NoOperator}
    /\ \A o \in Operators : ~Enrolled(o) => session[o] = "none"

(* A stream has no row before Establish, has an operator once it is checked, is *)
(* cancelled only after it was registered and judged only after it was open.    *)
StreamPhases ==
    \A t \in Streams :
        /\ stream[t] \in {"idle", "checked"} => session[t] = "none"
        /\ stream[t] # "idle" => owner[t] \in Operators
        /\ t \in cancelled => stream[t] \in {"registered", "open", "closed"}
        /\ entry[t] # "none" \/ verdict[t] # "none" => stream[t] \in {"open", "closed"}

(* What a listing taken with nothing in flight says is still true when it is    *)
(* applied, because a disabled scope admits no new request.                     *)
CascadeListed ==
    /\ cascade.open \/ settled => scope = "disabled"
    /\ settled \/ (cascade.open /\ cascade.quiet) => NothingInFlight
    /\ cascade.open /\ cascade.quiet =>
        /\ ~cascade.tokens => Pending = {}
        /\ cascade.operators = {} => ActiveOperators = {}

SessionInv ==
    /\ OperatorTypeOK
    /\ OneIdentity
    /\ TokenEnrolsOnce
    /\ RowsEnrolled
    /\ StreamPhases
    /\ OneLiveSession
    /\ RegistryPointsToOpen
    /\ CascadeListed
    /\ RetryConverges

-------------------------------------------------------------------------------
(* The initial state satisfies the invariant: there is no row, no stream and no *)
(* cascade.                                                                     *)
LEMMA InitInv == SessionInit => SessionInv
<1> SUFFICES ASSUME SessionInit PROVE SessionInv
    BY Zenon
<1> USE IdentityAssumption, SessionAssumption DEF SessionInit, OperatorInit
<1>a. cascade \in [tokens : BOOLEAN, operators : SUBSET Operators, sessions : BOOLEAN,
                   quiet : BOOLEAN, open : BOOLEAN]
    BY Zenon DEF NothingListed
<1>b. renewing \in [Operators -> SUBSET (0..(MaxSerial - 1))] /\ serial \in [Operators -> 0..MaxSerial] /\ faults \in 0..MaxFaults
    OBVIOUS
<1>1. OperatorTypeOK
    BY <1>a, <1>b, Zenon DEF OperatorTypeOK, ScopeStates, TokenStates, OperatorStates, SessionStates, StreamStates, Ages, Verdicts
<1>2. OneIdentity /\ TokenEnrolsOnce /\ OneLiveSession
    BY Zenon DEF OneIdentity, ActiveOperators, Pending, TokenEnrolsOnce, Enrolled, OneLiveSession, Live
<1>3. RowsEnrolled /\ StreamPhases
    BY Zenon DEF RowsEnrolled, StreamPhases, Enrolled, Sessions
<1>4. RegistryPointsToOpen /\ CascadeListed /\ RetryConverges
    BY Zenon DEF RegistryPointsToOpen, CascadeListed, RetryConverges, NothingListed, NothingInFlight
<1> QED
    BY <1>1, <1>2, <1>3, <1>4, Zenon DEF SessionInv

(* Every step keeps the types.                                                  *)
LEMMA TypesStep == SessionInv /\ [SessionNext]_vars => OperatorTypeOK'
<1> SUFFICES ASSUME SessionInv, [SessionNext]_vars PROVE OperatorTypeOK'
    BY Zenon
<1> USE IdentityAssumption, SessionAssumption
    DEF SessionInv, OperatorTypeOK, ScopeStates, TokenStates, OperatorStates, SessionStates,
        StreamStates, Ages, Verdicts, StreamsIdle, admin, tokens, identity, sessions,
        connection, registry, identityVars
<1>same. ASSUME UNCHANGED <<scope, settled, token, lapsed, grant, op, serial, renewing, session, owner, cascade, closing, stream, cancelled, streams, entry, verdict, faults>> PROVE OperatorTypeOK'
    BY <1>same, Zenon
<1>1. ASSUME NEW k \in Tokens, TokenCheck(k), StreamsIdle
      PROVE  OperatorTypeOK'
    BY <1>1, Zenon DEF TokenCheck
<1>2. ASSUME NEW k \in Tokens, NEW r \in BOOLEAN, TokenInsert(k, r), StreamsIdle
      PROVE  OperatorTypeOK'
    BY <1>2, Zenon DEF TokenInsert, Retire
<1>3. ASSUME NEW k \in Tokens, TokenLapse(k), StreamsIdle
      PROVE  OperatorTypeOK'
    <2>1. lapsed' \subseteq Tokens
        BY <1>3, Zenon DEF TokenLapse
    <2>2. UNCHANGED <<admin, token, identity, sessions, closing, connection, registry, faults>>
        BY <1>3, Zenon DEF TokenLapse
    <2> QED
        BY <2>1, <2>2, Zenon
<1>4. ASSUME NEW k \in Tokens, RevokePendingToken(k), StreamsIdle
      PROVE  OperatorTypeOK'
    BY <1>4, Zenon DEF RevokePendingToken, Retire
<1>5. ASSUME NEW o \in Operators, NEW k \in Tokens, EnrollCheck(o, k), StreamsIdle
      PROVE  OperatorTypeOK'
    BY <1>5, Zenon DEF EnrollCheck
<1>6. ASSUME NEW o \in Operators, EnrollCommit(o), StreamsIdle
      PROVE  OperatorTypeOK'
    <2>1. serial' \in [Operators -> 0..MaxSerial]
        BY <1>6, 1 \in 0..MaxSerial DEF EnrollCommit
    <2>2. token' \in [Tokens -> TokenStates] /\ op' \in [Operators -> OperatorStates]
        BY <1>6 DEF EnrollCommit
    <2>3. session' \in [Sessions -> SessionStates]
        <3>1. session \in [Sessions -> SessionStates] /\ "online" \in SessionStates /\ "revoked" \in SessionStates
            BY Zenon
        <3> HIDE DEF OperatorTypeOK, SessionInv, SessionStates
        <3> QED
            BY <1>6, <3>1, Zenon DEF EnrollCommit
    <2>5. owner' \in [Sessions -> Operators \union {NoOperator}]
        BY <1>6 DEF EnrollCommit
    <2>4. closing' \subseteq Operators
        BY <1>6 DEF EnrollCommit
    <2> QED
        BY <1>6, <2>1, <2>2, <2>3, <2>4, <2>5, Zenon DEF EnrollCommit
<1>7. ASSUME NEW o \in Operators, RenewCheck(o), StreamsIdle
      PROVE  OperatorTypeOK'
    <2>1. serial[o] \in 0..(MaxSerial - 1)
        BY <1>7 DEF RenewCheck
    <2> QED
        BY <1>7, <2>1 DEF RenewCheck
<1>8. ASSUME NEW o \in Operators, NEW n \in (1..MaxSerial), RenewCommit(o, n), StreamsIdle
      PROVE  OperatorTypeOK'
    <2>1. serial' \in [Operators -> 0..MaxSerial]
        <3>1. n + 1 \in 0..MaxSerial
            BY <1>8 DEF RenewCommit
        <3> QED
            BY <1>8, <3>1, Zenon DEF RenewCommit, Renewable
    <2>2. renewing' \in [Operators -> SUBSET (0..(MaxSerial - 1))]
        BY <1>8, Zenon DEF RenewCommit
    <2> QED
        BY <1>8, <2>1, <2>2, Zenon DEF RenewCommit
<1>9. ASSUME NEW o \in Operators, RevokeOperator(o), StreamsIdle
      PROVE  OperatorTypeOK'
    BY <1>9 DEF RevokeOperator
<1>10. ASSUME Disable, StreamsIdle
      PROVE  OperatorTypeOK'
    BY <1>10, Zenon DEF Disable
<1>11. ASSUME CascadeList, StreamsIdle
      PROVE  OperatorTypeOK'
    <2>1. cascade' \in [tokens : BOOLEAN, operators : SUBSET Operators, sessions : BOOLEAN,
                        quiet : BOOLEAN, open : BOOLEAN]
        BY <1>11, Zenon DEF CascadeList, NothingInFlight
    <2> QED
        BY <1>11, <2>1, Zenon DEF CascadeList
<1>12. ASSUME CascadeApply, StreamsIdle
      PROVE  OperatorTypeOK'
    BY <1>12, Zenon DEF CascadeApply, NothingListed
<1>13. ASSUME NEW o \in Operators, StreamRevoke(o)
      PROVE  OperatorTypeOK'
    BY <1>13 DEF StreamRevoke
<1>14. ASSUME NEW t \in Streams, NEW o \in Operators, StreamCheck(t, o)
      PROVE  OperatorTypeOK'
    BY <1>14, Zenon DEF StreamCheck
<1>15. ASSUME NEW t \in Streams, StreamEstablish(t)
      PROVE  OperatorTypeOK'
    BY <1>15, Zenon DEF StreamEstablish
<1>16. ASSUME NEW t \in Streams, StreamRegister(t)
      PROVE  OperatorTypeOK'
    BY <1>16 DEF StreamRegister, StreamPhases
<1>17. ASSUME NEW t \in Streams, StreamOpen(t)
      PROVE  OperatorTypeOK'
    BY <1>17, Zenon DEF StreamOpen
<1>18. ASSUME NEW t \in Streams, StreamSendFails(t)
      PROVE  OperatorTypeOK'
    BY <1>18 DEF StreamSendFails, Close, Fault
<1>19. ASSUME NEW t \in Streams, StreamEnd(t)
      PROVE  OperatorTypeOK'
    BY <1>19, Zenon DEF StreamEnd, Close
<1>20. ASSUME NEW t \in Streams, Heartbeat(t)
      PROVE  OperatorTypeOK'
    BY <1>20, Zenon DEF Heartbeat, Beat
<1>21. ASSUME NEW t \in Streams, HeartbeatLost(t)
      PROVE  OperatorTypeOK'
    BY <1>21 DEF HeartbeatLost, Beat, Fault
<1>22. ASSUME NEW t \in Streams, Age(t)
      PROVE  OperatorTypeOK'
    BY <1>22, Zenon DEF Age, Older
<1>23. ASSUME SweepCollect
      PROVE  OperatorTypeOK'
    BY <1>23, Zenon DEF SweepCollect, Judge
<1>24. ASSUME NEW t \in Streams, SweepApply(t)
      PROVE  OperatorTypeOK'
    BY <1>24 DEF SweepApply, Take, SetStatus
<1>25. ASSUME NEW t \in Streams, SweepLost(t)
      PROVE  OperatorTypeOK'
    BY <1>25 DEF SweepLost, Take, Fault
<1>26. ASSUME Restart
      PROVE  OperatorTypeOK'
    BY <1>26 DEF Restart, Fault, NothingListed
<1> HIDE DEF SessionInv, OperatorTypeOK, ScopeStates, TokenStates, OperatorStates, SessionStates, StreamStates, Ages, Verdicts, StreamsIdle, admin, tokens, identity, sessions, connection, registry, identityVars
<1>a. ASSUME IdentityStep PROVE OperatorTypeOK'
    BY <1>a, <1>1, <1>2, <1>3, <1>4, <1>5, <1>6, <1>7, <1>8, <1>9, <1>10, <1>11, <1>12, Zenon DEF IdentityStep, IdentityNext
<1>b. ASSUME SessionNext, ~IdentityStep PROVE OperatorTypeOK'
    BY <1>b, <1>13, <1>14, <1>15, <1>16, <1>17, <1>18, <1>19, <1>20, <1>21, <1>22, <1>23,
             <1>24, <1>25, <1>26, Zenon DEF SessionNext
<1>c. CASE UNCHANGED vars
    BY <1>c, <1>same, Zenon DEF vars, StreamsIdle, admin, tokens, identity, sessions, connection, registry, identityVars
<1> QED
    BY <1>a, <1>b, <1>c, Zenon

(* The steps that write scope, settled, cascade, token, op or grant: a lapse, a *)
(* renewal and every step of a stream leave all six alone.                      *)
LEMMA RowWriters ==
    ASSUME [SessionNext]_vars
    PROVE  \/ UNCHANGED <<scope, settled, cascade, token, op, grant>>
           \/ \E k \in Tokens : TokenCheck(k) /\ StreamsIdle
           \/ \E k \in Tokens : \E r \in BOOLEAN : TokenInsert(k, r) /\ StreamsIdle
           \/ \E k \in Tokens : RevokePendingToken(k) /\ StreamsIdle
           \/ \E o \in Operators : \E k \in Tokens : EnrollCheck(o, k) /\ StreamsIdle
           \/ \E o \in Operators : EnrollCommit(o) /\ StreamsIdle
           \/ \E o \in Operators : RevokeOperator(o) /\ StreamsIdle
           \/ Disable /\ StreamsIdle
           \/ CascadeList /\ StreamsIdle
           \/ CascadeApply /\ StreamsIdle
           \/ Restart
<1>1. CASE IdentityStep
    <2>1. ASSUME NEW k \in Tokens, TokenLapse(k)
          PROVE  UNCHANGED <<scope, settled, cascade, token, op, grant>>
        BY <2>1, Zenon DEF TokenLapse, admin, identity
    <2>2. ASSUME NEW o \in Operators, RenewCheck(o)
          PROVE  UNCHANGED <<scope, settled, cascade, token, op, grant>>
        BY <2>2, Zenon DEF RenewCheck, admin, tokens
    <2>3. ASSUME NEW o \in Operators, NEW n \in 1..MaxSerial, RenewCommit(o, n)
          PROVE  UNCHANGED <<scope, settled, cascade, token, op, grant>>
        BY <2>3, Zenon DEF RenewCommit, admin, tokens
    <2> QED
        BY <1>1, <2>1, <2>2, <2>3, Zenon DEF IdentityStep, IdentityNext
<1>2. ASSUME UNCHANGED <<admin, tokens, identity>>
      PROVE  UNCHANGED <<scope, settled, cascade, token, op, grant>>
    BY <1>2, Zenon DEF admin, tokens, identity
<1>3. CASE UNCHANGED vars
    BY <1>2, <1>3, Zenon DEF vars, identityVars
<1>4. CASE SessionNext /\ ~ IdentityStep /\ ~ Restart
    <2>1. ASSUME NEW o \in Operators, StreamRevoke(o)
          PROVE  UNCHANGED <<admin, tokens, identity>>
        BY <2>1, Zenon DEF StreamRevoke
    <2>2. ASSUME NEW t \in Streams, NEW o \in Operators, StreamCheck(t, o)
          PROVE  UNCHANGED <<admin, tokens, identity>>
        BY <2>2, Zenon DEF StreamCheck
    <2>3. ASSUME NEW t \in Streams, StreamEstablish(t) \/ StreamRegister(t) \/ StreamOpen(t)
          PROVE  UNCHANGED <<admin, tokens, identity>>
        BY <2>3, Zenon DEF StreamEstablish, StreamRegister, StreamOpen, identityVars
    <2>4. ASSUME NEW t \in Streams, StreamSendFails(t) \/ StreamEnd(t)
          PROVE  UNCHANGED <<admin, tokens, identity>>
        BY <2>4, Zenon DEF StreamSendFails, StreamEnd, Close, identityVars
    <2>5. ASSUME NEW t \in Streams, Heartbeat(t) \/ HeartbeatLost(t) \/ Age(t)
          PROVE  UNCHANGED <<admin, tokens, identity>>
        BY <2>5, Zenon DEF Heartbeat, HeartbeatLost, Beat, Age, identityVars
    <2>6. ASSUME NEW t \in Streams, SweepApply(t) \/ SweepLost(t)
          PROVE  UNCHANGED <<admin, tokens, identity>>
        BY <2>6, Zenon DEF SweepApply, SweepLost, Take
    <2>7. ASSUME SweepCollect
          PROVE  UNCHANGED <<admin, tokens, identity>>
        BY <2>7, Zenon DEF SweepCollect, identityVars
    <2>8. UNCHANGED <<admin, tokens, identity>>
        BY <1>4, <2>1, <2>2, <2>3, <2>4, <2>5, <2>6, <2>7, Zenon DEF SessionNext
    <2> QED
        BY <1>2, <2>8, Zenon
<1> QED
    BY <1>1, <1>3, <1>4, Zenon

(* The steps that write token, op, grant or settled: the disable and the        *)
(* listing of a cascade write none of the four.                                 *)
LEMMA TokenWriters ==
    ASSUME [SessionNext]_vars
    PROVE  \/ UNCHANGED <<settled, token, op, grant>>
           \/ \E k \in Tokens : TokenCheck(k) /\ StreamsIdle
           \/ \E k \in Tokens : \E r \in BOOLEAN : TokenInsert(k, r) /\ StreamsIdle
           \/ \E k \in Tokens : RevokePendingToken(k) /\ StreamsIdle
           \/ \E o \in Operators : \E k \in Tokens : EnrollCheck(o, k) /\ StreamsIdle
           \/ \E o \in Operators : EnrollCommit(o) /\ StreamsIdle
           \/ \E o \in Operators : RevokeOperator(o) /\ StreamsIdle
           \/ CascadeApply /\ StreamsIdle
           \/ Restart
<1>1. ASSUME Disable PROVE UNCHANGED <<settled, token, op, grant>>
    BY <1>1, Zenon DEF Disable, tokens, identity
<1>2. ASSUME CascadeList PROVE UNCHANGED <<settled, token, op, grant>>
    BY <1>2, Zenon DEF CascadeList, tokens, identity
<1> QED
    BY <1>1, <1>2, RowWriters, Zenon

(* Enrolment supersedes every other active operator, and a new token retires    *)
(* every other pending one, in the transaction that inserts it.                 *)
LEMMA OneIdentityStep == SessionInv /\ [SessionNext]_vars => OneIdentity'
<1> SUFFICES ASSUME SessionInv, [SessionNext]_vars PROVE OneIdentity'
    BY Zenon
<1>cases. \/ UNCHANGED <<op, token>>
          \/ \E k \in Tokens : TokenCheck(k) /\ StreamsIdle
          \/ \E k \in Tokens : \E r \in BOOLEAN : TokenInsert(k, r) /\ StreamsIdle
          \/ \E k \in Tokens : RevokePendingToken(k) /\ StreamsIdle
          \/ \E o \in Operators : \E k \in Tokens : EnrollCheck(o, k) /\ StreamsIdle
          \/ \E o \in Operators : EnrollCommit(o) /\ StreamsIdle
          \/ \E o \in Operators : RevokeOperator(o) /\ StreamsIdle
          \/ CascadeApply /\ StreamsIdle
          \/ Restart
    BY TokenWriters, Zenon
<1> USE DEF SessionInv, OneIdentity, OperatorTypeOK, ActiveOperators, Pending, StreamsIdle,
            admin, tokens, identity, sessions, connection, registry, identityVars
<1>same. ASSUME UNCHANGED <<op, token>> PROVE OneIdentity'
    BY <1>same, Zenon
<1>1. ASSUME NEW k \in Tokens, TokenCheck(k), StreamsIdle
      PROVE  OneIdentity'
    BY <1>1, Zenon DEF TokenCheck
<1>2. ASSUME NEW k \in Tokens, NEW r \in BOOLEAN, TokenInsert(k, r), StreamsIdle
      PROVE  OneIdentity'
    BY <1>2, Zenon DEF TokenInsert, Retire
<1>3. ASSUME NEW k \in Tokens, RevokePendingToken(k), StreamsIdle
      PROVE  OneIdentity'
    BY <1>3, Zenon DEF RevokePendingToken, Retire
<1>4. ASSUME NEW o \in Operators, NEW k \in Tokens, EnrollCheck(o, k), StreamsIdle
      PROVE  OneIdentity'
    BY <1>4 DEF EnrollCheck
<1>5. ASSUME NEW o \in Operators, EnrollCommit(o), StreamsIdle
      PROVE  OneIdentity'
    BY <1>5 DEF EnrollCommit, Superseded
<1>6. ASSUME NEW o \in Operators, RevokeOperator(o), StreamsIdle
      PROVE  OneIdentity'
    BY <1>6, Zenon DEF RevokeOperator
<1>7. ASSUME CascadeApply, StreamsIdle
      PROVE  OneIdentity'
    BY <1>7, Zenon DEF CascadeApply
<1>8. ASSUME Restart
      PROVE  OneIdentity'
    BY <1>8, Zenon DEF Restart, Fault
<1> HIDE DEF SessionInv, OneIdentity, OperatorTypeOK, ActiveOperators, Pending, StreamsIdle, admin, tokens, identity, sessions, connection, registry, identityVars
<1> QED
    BY <1>cases, <1>same, <1>1, <1>2, <1>3, <1>4, <1>5, <1>6, <1>7, <1>8, Zenon

(* The token an enrolment consumes is pending, so no operator enrolled with it; *)
(* no step takes a used token back.                                             *)
LEMMA TokenStep == SessionInv /\ [SessionNext]_vars => TokenEnrolsOnce'
<1> SUFFICES ASSUME SessionInv, [SessionNext]_vars PROVE TokenEnrolsOnce'
    BY Zenon
<1>cases. \/ UNCHANGED <<op, token, grant>>
          \/ \E k \in Tokens : TokenCheck(k) /\ StreamsIdle
          \/ \E k \in Tokens : \E r \in BOOLEAN : TokenInsert(k, r) /\ StreamsIdle
          \/ \E k \in Tokens : RevokePendingToken(k) /\ StreamsIdle
          \/ \E o \in Operators : \E k \in Tokens : EnrollCheck(o, k) /\ StreamsIdle
          \/ \E o \in Operators : EnrollCommit(o) /\ StreamsIdle
          \/ \E o \in Operators : RevokeOperator(o) /\ StreamsIdle
          \/ CascadeApply /\ StreamsIdle
          \/ Restart
    BY TokenWriters, Zenon
<1> USE DEF SessionInv, TokenEnrolsOnce, RowsEnrolled, Enrolled, OperatorTypeOK, Pending,
            StreamsIdle, admin, tokens, identity, sessions, connection, registry, identityVars
<1>same. ASSUME UNCHANGED <<op, token, grant>> PROVE TokenEnrolsOnce'
    BY <1>same
<1>1. ASSUME NEW k \in Tokens, TokenCheck(k), StreamsIdle
      PROVE  TokenEnrolsOnce'
    BY <1>1 DEF TokenCheck
<1>2. ASSUME NEW k \in Tokens, NEW r \in BOOLEAN, TokenInsert(k, r), StreamsIdle
      PROVE  TokenEnrolsOnce'
    BY <1>2 DEF TokenInsert, Retire
<1>3. ASSUME NEW k \in Tokens, RevokePendingToken(k), StreamsIdle
      PROVE  TokenEnrolsOnce'
    BY <1>3 DEF RevokePendingToken, Retire
<1>4. ASSUME NEW o \in Operators, NEW k \in Tokens, EnrollCheck(o, k), StreamsIdle
      PROVE  TokenEnrolsOnce'
    BY <1>4 DEF EnrollCheck
<1>5. ASSUME NEW o \in Operators, EnrollCommit(o), StreamsIdle
      PROVE  TokenEnrolsOnce'
    BY <1>5 DEF EnrollCommit, Superseded, Usable
<1>6. ASSUME NEW o \in Operators, RevokeOperator(o), StreamsIdle
      PROVE  TokenEnrolsOnce'
    BY <1>6 DEF RevokeOperator
<1>7. ASSUME CascadeApply, StreamsIdle
      PROVE  TokenEnrolsOnce'
    BY <1>7 DEF CascadeApply
<1>8. ASSUME Restart
      PROVE  TokenEnrolsOnce'
    BY <1>8 DEF Restart, Fault
<1> HIDE DEF SessionInv, TokenEnrolsOnce, RowsEnrolled, Enrolled, OperatorTypeOK, Pending, StreamsIdle, admin, tokens, identity, sessions, connection, registry, identityVars
<1> QED
    BY <1>cases, <1>same, <1>1, <1>2, <1>3, <1>4, <1>5, <1>6, <1>7, <1>8, Zenon

(* Rows are written for enrolled operators only, and enrolment is never undone. *)
LEMMA RowsStep == SessionInv /\ [SessionNext]_vars => RowsEnrolled'
<1> SUFFICES ASSUME SessionInv, [SessionNext]_vars PROVE RowsEnrolled'
    BY Zenon
<1>cases. \/ UNCHANGED <<op, grant, owner, session>>
          \/ \E o \in Operators : \E k \in Tokens : EnrollCheck(o, k) /\ StreamsIdle
          \/ \E o \in Operators : EnrollCommit(o) /\ StreamsIdle
          \/ \E o \in Operators : RevokeOperator(o) /\ StreamsIdle
          \/ CascadeApply /\ StreamsIdle
          \/ \E t \in Streams : \E o \in Operators : StreamCheck(t, o)
          \/ \E t \in Streams : StreamEstablish(t)
          \/ \E t \in Streams : Heartbeat(t)
          \/ \E t \in Streams : SweepApply(t)
          \/ Restart
    <2>1. CASE IdentityStep
        BY <2>1, Zenon DEF IdentityStep, IdentityNext, TokenCheck, TokenInsert, TokenLapse,
               RevokePendingToken, RenewCheck, RenewCommit, Disable, CascadeList,
               StreamsIdle, admin, tokens, identity, sessions, connection, registry
    <2>2. CASE SessionNext /\ ~ IdentityStep
        BY <2>2, Zenon DEF SessionNext, StreamRevoke, StreamRegister, StreamOpen,
               StreamSendFails, StreamEnd, HeartbeatLost, Age, SweepCollect, SweepLost,
               Beat, Close, Take, admin, tokens, identity, sessions, connection, registry,
               identityVars
    <2>3. CASE UNCHANGED vars
        BY <2>3, Zenon DEF vars, admin, tokens, identity, sessions, connection, registry,
               identityVars
    <2> QED
        BY <2>1, <2>2, <2>3, Zenon
<1> USE IdentityAssumption
    DEF SessionInv, RowsEnrolled, Enrolled, OperatorTypeOK, Sessions, SessionsOf, StreamsIdle,
        admin, tokens, identity, sessions, connection, registry, identityVars
<1>same. ASSUME UNCHANGED <<op, grant, owner, session>> PROVE RowsEnrolled'
    BY <1>same, Zenon
<1>1. ASSUME NEW o \in Operators, NEW k \in Tokens, EnrollCheck(o, k), StreamsIdle
      PROVE  RowsEnrolled'
    BY <1>1 DEF EnrollCheck
<1>2. ASSUME NEW o \in Operators, EnrollCommit(o), StreamsIdle
      PROVE  RowsEnrolled'
    <2>1. \A p \in Operators : Enrolled(p)' <=> Enrolled(p) \/ (p = o /\ Usable(grant[o]))
        BY <1>2 DEF EnrollCommit, Superseded
    <2>2. \A p \in Operators : op'[p] = "checked" => op[p] = "checked"
        BY <1>2 DEF EnrollCommit, Superseded
    <2>3. grant' = grant /\ op[o] = "checked"
        BY <1>2, Zenon DEF EnrollCommit
    <2>4. \A s \in Sessions : owner'[s] = owner[s] \/ (s = o /\ owner'[s] = o /\ Usable(grant[o]))
        BY <1>2 DEF EnrollCommit
    <2>5. \A p \in Operators : session[p] = "none" => session'[p] = "none" \/ (p = o /\ Usable(grant[o]))
        BY <1>2 DEF EnrollCommit
    <2>6. \A s \in Sessions : owner[s] \in Operators \union {NoOperator}
        BY Zenon
    <2> HIDE DEF OperatorTypeOK, Usable, SessionsOf
    <2>7. (\A s \in Sessions : owner[s] # NoOperator => Enrolled(owner[s]))'
        BY <2>1, <2>4, <2>6
    <2> QED
        BY <2>1, <2>2, <2>3, <2>4, <2>5, <2>7, Zenon
<1>3. ASSUME NEW o \in Operators, RevokeOperator(o), StreamsIdle
      PROVE  RowsEnrolled'
    BY <1>3 DEF RevokeOperator
<1>4. ASSUME CascadeApply, StreamsIdle
      PROVE  RowsEnrolled'
    BY <1>4 DEF CascadeApply
<1>5. ASSUME NEW t \in Streams, NEW o \in Operators, StreamCheck(t, o)
      PROVE  RowsEnrolled'
    BY <1>5 DEF StreamCheck
<1>6. ASSUME NEW t \in Streams, StreamEstablish(t)
      PROVE  RowsEnrolled'
    BY <1>6 DEF StreamEstablish, Live
<1>7. ASSUME NEW t \in Streams, Heartbeat(t)
      PROVE  RowsEnrolled'
    BY <1>7 DEF Heartbeat, Beat
<1>8. ASSUME NEW t \in Streams, SweepApply(t)
      PROVE  RowsEnrolled'
    BY <1>8 DEF SweepApply, Take, SetStatus
<1>9. ASSUME Restart
      PROVE  RowsEnrolled'
    BY <1>9 DEF Restart, Fault
<1> HIDE DEF SessionInv, RowsEnrolled, Enrolled, OperatorTypeOK, Sessions, SessionsOf, StreamsIdle, admin, tokens, identity, sessions, connection, registry, identityVars
<1> QED
    BY <1>cases, <1>same, <1>1, <1>2, <1>3, <1>4, <1>5, <1>6, <1>7, <1>8, <1>9, Zenon

(* A stream passes its phases in order, and only a registered one is cancelled. *)
LEMMA PhasesStep == SessionInv /\ [SessionNext]_vars => StreamPhases'
<1> SUFFICES ASSUME SessionInv, [SessionNext]_vars PROVE StreamPhases'
    BY Zenon
<1>cases. \/ UNCHANGED <<stream, session, owner, cancelled, entry, verdict>>
          \/ \E o \in Operators : EnrollCommit(o) /\ StreamsIdle
          \/ \E o \in Operators : RevokeOperator(o) /\ StreamsIdle
          \/ CascadeApply /\ StreamsIdle
          \/ \E o \in Operators : StreamRevoke(o)
          \/ \E t \in Streams : \E o \in Operators : StreamCheck(t, o)
          \/ \E t \in Streams : StreamEstablish(t)
          \/ \E t \in Streams : StreamRegister(t)
          \/ \E t \in Streams : StreamOpen(t)
          \/ \E t \in Streams : StreamSendFails(t)
          \/ \E t \in Streams : StreamEnd(t)
          \/ \E t \in Streams : Heartbeat(t)
          \/ \E t \in Streams : HeartbeatLost(t)
          \/ \E t \in Streams : Age(t)
          \/ SweepCollect
          \/ \E t \in Streams : SweepApply(t)
          \/ \E t \in Streams : SweepLost(t)
          \/ Restart
    <2>1. CASE IdentityStep
        BY <2>1, Zenon DEF IdentityStep, IdentityNext, TokenCheck, TokenInsert, TokenLapse,
               RevokePendingToken, EnrollCheck, RenewCheck, RenewCommit, Disable,
               CascadeList, StreamsIdle, admin, tokens, identity, sessions, connection,
               registry
    <2>2. CASE SessionNext /\ ~ IdentityStep
        BY <2>2, Zenon DEF SessionNext, Beat, Close, Take, admin, tokens, identity,
               sessions, connection, registry, identityVars
    <2>3. CASE UNCHANGED vars
        BY <2>3, Zenon DEF vars, admin, tokens, identity, sessions, connection, registry,
               identityVars
    <2> QED
        BY <2>1, <2>2, <2>3, Zenon
<1> USE IdentityAssumption, SessionAssumption
    DEF SessionInv, StreamPhases, OperatorTypeOK, Sessions, SessionsOf, RegistryPointsToOpen,
        Live, StreamsIdle, admin, tokens, identity, sessions, connection, registry, identityVars
<1>same. ASSUME UNCHANGED <<stream, session, owner, cancelled, entry, verdict>> PROVE StreamPhases'
    BY <1>same, Zenon
<1>1. ASSUME NEW o \in Operators, EnrollCommit(o), StreamsIdle
      PROVE  StreamPhases'
    BY <1>1 DEF EnrollCommit
<1>2. ASSUME NEW o \in Operators, RevokeOperator(o), StreamsIdle
      PROVE  StreamPhases'
    BY <1>2, Zenon DEF RevokeOperator
<1>3. ASSUME CascadeApply, StreamsIdle
      PROVE  StreamPhases'
    BY <1>3, Zenon DEF CascadeApply
<1>4. ASSUME NEW o \in Operators, StreamRevoke(o)
      PROVE  StreamPhases'
    BY <1>4 DEF StreamRevoke
<1>5. ASSUME NEW t \in Streams, NEW o \in Operators, StreamCheck(t, o)
      PROVE  StreamPhases'
    BY <1>5 DEF StreamCheck
<1>6. ASSUME NEW t \in Streams, StreamEstablish(t)
      PROVE  StreamPhases'
    BY <1>6 DEF StreamEstablish
<1>7. ASSUME NEW t \in Streams, StreamRegister(t)
      PROVE  StreamPhases'
    BY <1>7 DEF StreamRegister
<1>8. ASSUME NEW t \in Streams, StreamOpen(t)
      PROVE  StreamPhases'
    BY <1>8 DEF StreamOpen
<1>9. ASSUME NEW t \in Streams, StreamSendFails(t)
      PROVE  StreamPhases'
    BY <1>9 DEF StreamSendFails, Close, Fault
<1>10. ASSUME NEW t \in Streams, StreamEnd(t)
      PROVE  StreamPhases'
    BY <1>10 DEF StreamEnd, Close
<1>11. ASSUME NEW t \in Streams, Heartbeat(t)
      PROVE  StreamPhases'
    BY <1>11 DEF Heartbeat, Beat
<1>12. ASSUME NEW t \in Streams, HeartbeatLost(t)
      PROVE  StreamPhases'
    BY <1>12 DEF HeartbeatLost, Beat, Fault
<1>13. ASSUME NEW t \in Streams, Age(t)
      PROVE  StreamPhases'
    BY <1>13 DEF Age
<1>14. ASSUME SweepCollect
      PROVE  StreamPhases'
    BY <1>14 DEF SweepCollect, Judge
<1>15. ASSUME NEW t \in Streams, SweepApply(t)
      PROVE  StreamPhases'
    BY <1>15 DEF SweepApply, Take, SetStatus
<1>16. ASSUME NEW t \in Streams, SweepLost(t)
      PROVE  StreamPhases'
    BY <1>16 DEF SweepLost, Take, Fault
<1>17. ASSUME Restart
      PROVE  StreamPhases'
    BY <1>17 DEF Restart, Fault
<1> HIDE DEF SessionInv, StreamPhases, OperatorTypeOK, Sessions, SessionsOf, RegistryPointsToOpen, Live, StreamsIdle, admin, tokens, identity, sessions, connection, registry, identityVars
<1> QED
    BY <1>cases, <1>same, <1>1, <1>2, <1>3, <1>4, <1>5, <1>6, <1>7, <1>8, <1>9, <1>10, <1>11,
       <1>12, <1>13, <1>14, <1>15, <1>16, <1>17, Zenon

(* Establish closes the other live sessions, enrolment inserts the first row of *)
(* its operator, and an expiry makes a row live only if it stays the only one.  *)
LEMMA OneLiveStep == SessionInv /\ [SessionNext]_vars => OneLiveSession'
<1> SUFFICES ASSUME SessionInv, [SessionNext]_vars PROVE OneLiveSession'
    BY Zenon
<1>cases. \/ UNCHANGED <<session, owner>>
          \/ \E o \in Operators : EnrollCommit(o) /\ StreamsIdle
          \/ \E o \in Operators : RevokeOperator(o) /\ StreamsIdle
          \/ CascadeApply /\ StreamsIdle
          \/ \E t \in Streams : \E o \in Operators : StreamCheck(t, o)
          \/ \E t \in Streams : StreamEstablish(t)
          \/ \E t \in Streams : Heartbeat(t)
          \/ \E t \in Streams : SweepApply(t)
    <2>1. CASE IdentityStep
        BY <2>1, Zenon DEF IdentityStep, IdentityNext, TokenCheck, TokenInsert, TokenLapse,
               RevokePendingToken, EnrollCheck, RenewCheck, RenewCommit, Disable,
               CascadeList, StreamsIdle, admin, tokens, identity, sessions, connection,
               registry
    <2>2. CASE SessionNext /\ ~ IdentityStep
        BY <2>2, Zenon DEF SessionNext, StreamRevoke, StreamRegister, StreamOpen,
               StreamSendFails, StreamEnd, HeartbeatLost, Age, SweepCollect, SweepLost,
               Restart, Beat, Close, Take, admin, tokens, identity, sessions, connection,
               registry, identityVars
    <2>3. CASE UNCHANGED vars
        BY <2>3, Zenon DEF vars, admin, tokens, identity, sessions, connection, registry,
               identityVars
    <2> QED
        BY <2>1, <2>2, <2>3, Zenon
<1> USE IdentityAssumption
    DEF SessionInv, OneLiveSession, RowsEnrolled, StreamPhases, Enrolled, OperatorTypeOK,
        Sessions, Live, StreamsIdle, admin, tokens, identity, sessions, connection, registry,
        identityVars
<1>same. ASSUME UNCHANGED <<session, owner>> PROVE OneLiveSession'
    BY <1>same, Zenon
<1>1. ASSUME NEW o \in Operators, EnrollCommit(o), StreamsIdle
      PROVE  OneLiveSession'
    <2>1. CASE UNCHANGED <<session, owner>>
        BY <2>1, Zenon
    <2>2. CASE ~UNCHANGED <<session, owner>>
        <3>1. \A s \in Sessions : owner[s] # o
            <4>1. ~Enrolled(o) /\ o # NoOperator
                BY <1>1 DEF EnrollCommit
            <4> QED
                BY <4>1
        <3>4. owner \in [Sessions -> Operators \union {NoOperator}] /\ session \in [Sessions -> SessionStates] /\ o \in Sessions
            BY Zenon
        <3> HIDE DEF RowsEnrolled, StreamPhases, OperatorTypeOK, SessionInv, SessionsOf, Sessions, OneLiveSession
        <3>2. \A s \in Sessions \ {o} : owner'[s] = owner[s] /\ session'[s] \in {session[s], "revoked"}
            BY <1>1, <2>2, <3>4, Zenon DEF EnrollCommit
        <3>3. owner'[o] = o
            BY <1>1, <2>2, <3>4, Zenon DEF EnrollCommit
        <3>5. \A s, r \in Sessions : session[s] \in Live /\ session[r] \in Live /\ owner[s] = owner[r] => s = r
            BY Zenon DEF SessionInv, OneLiveSession
        <3>6. ASSUME NEW s \in Sessions, NEW r \in Sessions, session'[s] \in Live, session'[r] \in Live, owner'[s] = owner'[r]
              PROVE  s = r
            <4>1. s # o /\ r # o => s = r
                BY <3>6, <3>2, <3>5
            <4>2. s = o <=> r = o
                BY <3>6, <3>1, <3>2, <3>3
            <4> QED
                BY <4>1, <4>2, Zenon
        <3> QED
            BY <3>6, Zenon DEF OneLiveSession, Sessions
    <2> QED
        BY <2>1, <2>2, Zenon
<1>2. ASSUME NEW o \in Operators, RevokeOperator(o), StreamsIdle
      PROVE  OneLiveSession'
    BY <1>2 DEF RevokeOperator, SessionsOf
<1>3. ASSUME CascadeApply, StreamsIdle
      PROVE  OneLiveSession'
    BY <1>3 DEF CascadeApply, SessionsOf
<1>4. ASSUME NEW t \in Streams, NEW o \in Operators, StreamCheck(t, o)
      PROVE  OneLiveSession'
    BY <1>4 DEF StreamCheck
<1>5. ASSUME NEW t \in Streams, StreamEstablish(t)
      PROVE  OneLiveSession'
    BY <1>5 DEF StreamEstablish
<1>6. ASSUME NEW t \in Streams, Heartbeat(t)
      PROVE  OneLiveSession'
    BY <1>6 DEF Heartbeat, Beat
<1>7. ASSUME NEW t \in Streams, SweepApply(t)
      PROVE  OneLiveSession'
    BY <1>7 DEF SweepApply, Take, SetStatus, OneLive
<1> HIDE DEF SessionInv, OneLiveSession, RowsEnrolled, StreamPhases, Enrolled, OperatorTypeOK, Sessions, Live, StreamsIdle, admin, tokens, identity, sessions, connection, registry, identityVars
<1> QED
    BY <1>cases, <1>same, <1>1, <1>2, <1>3, <1>4, <1>5, <1>6, <1>7, Zenon

(* StreamRegistry.Revoke cancels the stream it takes out and no other: two      *)
(* operators' entries are never one stream, because a stream has one owner.     *)
LEMMA RevokeKeepsRegistry ==
    ASSUME RegistryPointsToOpen, streams \in [Operators -> Streams \union {NoStream}],
           NEW o \in Operators, StreamRevoke(o)
    PROVE  RegistryPointsToOpen'
<1>1. streams'[o] = NoStream /\ \A p \in Operators \ {o} : streams'[p] = streams[p]
    BY Zenon DEF StreamRevoke
<1>2. UNCHANGED <<owner, stream>> /\ cancelled' = cancelled \union ({streams[o]} \ {NoStream})
    BY Zenon DEF StreamRevoke, sessions
<1>3. \A p \in Operators \ {o} : streams[p] # NoStream => streams[p] # streams[o]
    BY Zenon DEF RegistryPointsToOpen
<1> QED
    BY <1>1, <1>2, <1>3, Zenon DEF RegistryPointsToOpen

(* A registration replaces the stream it cancels, a revocation removes it, and a *)
(* handler removes only itself.                                                 *)
LEMMA RegistryStep == SessionInv /\ [SessionNext]_vars => RegistryPointsToOpen'
<1> SUFFICES ASSUME SessionInv, [SessionNext]_vars PROVE RegistryPointsToOpen'
    BY Zenon
<1>cases. \/ UNCHANGED <<streams, owner, stream, cancelled>>
          \/ \E o \in Operators : EnrollCommit(o) /\ StreamsIdle
          \/ \E o \in Operators : StreamRevoke(o)
          \/ \E t \in Streams : \E o \in Operators : StreamCheck(t, o)
          \/ \E t \in Streams : StreamEstablish(t)
          \/ \E t \in Streams : StreamRegister(t)
          \/ \E t \in Streams : StreamOpen(t)
          \/ \E t \in Streams : StreamSendFails(t)
          \/ \E t \in Streams : StreamEnd(t)
          \/ Restart
    <2>1. CASE IdentityStep
        BY <2>1, Zenon DEF IdentityStep, IdentityNext, TokenCheck, TokenInsert, TokenLapse,
               RevokePendingToken, EnrollCheck, RenewCheck, RenewCommit, RevokeOperator,
               Disable, CascadeList, CascadeApply, StreamsIdle, admin, tokens, identity,
               sessions, connection, registry
    <2>2. CASE SessionNext /\ ~ IdentityStep
        BY <2>2, Zenon DEF SessionNext, Heartbeat, HeartbeatLost, Age, SweepCollect,
               SweepApply, SweepLost, Beat, Close, Take, admin, tokens, identity, sessions,
               connection, registry, identityVars
    <2>3. CASE UNCHANGED vars
        BY <2>3, Zenon DEF vars, admin, tokens, identity, sessions, connection, registry,
               identityVars
    <2> QED
        BY <2>1, <2>2, <2>3, Zenon
<1> USE IdentityAssumption, SessionAssumption
    DEF SessionInv, RegistryPointsToOpen, StreamPhases, RowsEnrolled, Enrolled, OperatorTypeOK,
        Sessions, StreamsIdle, admin, tokens, identity, sessions, connection, registry,
        identityVars
<1>same. ASSUME UNCHANGED <<streams, owner, stream, cancelled>> PROVE RegistryPointsToOpen'
    BY <1>same, Zenon
<1>1. ASSUME NEW o \in Operators, EnrollCommit(o), StreamsIdle
      PROVE  RegistryPointsToOpen'
    <2>1. \A t \in Streams : owner'[t] = owner[t]
        <3>1. owner' = owner \/ owner' = [owner EXCEPT ![o] = o]
            BY <1>1, Zenon DEF EnrollCommit
        <3>2. o \notin Streams
            BY Zenon
        <3>3. owner \in [Sessions -> Operators \union {NoOperator}]
            BY Zenon
        <3> HIDE DEF SessionInv, OperatorTypeOK, StreamPhases, RowsEnrolled, RegistryPointsToOpen
        <3> QED
            BY <3>1, <3>2, <3>3, Zenon
    <2>2. UNCHANGED <<streams, stream, cancelled>>
        BY <1>1, Zenon
    <2>3. \A p \in Operators : streams[p] \in Streams \union {NoStream}
        OBVIOUS
    <2> HIDE DEF StreamPhases, RowsEnrolled, OperatorTypeOK
    <2> QED
        BY <2>1, <2>2, <2>3, Zenon
<1>2. ASSUME NEW o \in Operators, StreamRevoke(o)
      PROVE  RegistryPointsToOpen'
    BY <1>2, RevokeKeepsRegistry, Zenon
<1>3. ASSUME NEW t \in Streams, NEW o \in Operators, StreamCheck(t, o)
      PROVE  RegistryPointsToOpen'
    BY <1>3 DEF StreamCheck
<1>4. ASSUME NEW t \in Streams, StreamEstablish(t)
      PROVE  RegistryPointsToOpen'
    BY <1>4, SMTT(30) DEF StreamEstablish
<1>5. ASSUME NEW t \in Streams, StreamRegister(t)
      PROVE  RegistryPointsToOpen'
    BY <1>5 DEF StreamRegister
<1>6. ASSUME NEW t \in Streams, StreamOpen(t)
      PROVE  RegistryPointsToOpen'
    BY <1>6 DEF StreamOpen
<1>7. ASSUME NEW t \in Streams, StreamSendFails(t)
      PROVE  RegistryPointsToOpen'
    BY <1>7 DEF StreamSendFails, Close, Fault
<1>8. ASSUME NEW t \in Streams, StreamEnd(t)
      PROVE  RegistryPointsToOpen'
    BY <1>8 DEF StreamEnd, Close
<1>9. ASSUME Restart
      PROVE  RegistryPointsToOpen'
    BY <1>9, Zenon DEF Restart, Fault
<1> HIDE DEF SessionInv, RegistryPointsToOpen, StreamPhases, RowsEnrolled, Enrolled, OperatorTypeOK, Sessions, StreamsIdle, admin, tokens, identity, sessions, connection, registry, identityVars
<1> QED
    BY <1>cases, <1>same, <1>1, <1>2, <1>3, <1>4, <1>5, <1>6, <1>7, <1>8, <1>9, Zenon

(* Once a listing found nothing in flight, a disabled scope admits no request, so *)
(* no token becomes pending and no operator active before it is applied.        *)
LEMMA CascadeStep == SessionInv /\ [SessionNext]_vars => CascadeListed'
<1> SUFFICES ASSUME SessionInv, [SessionNext]_vars PROVE CascadeListed'
    BY Zenon
<1>cases. \/ UNCHANGED <<scope, settled, cascade, token, op>>
          \/ \E k \in Tokens : TokenCheck(k) /\ StreamsIdle
          \/ \E k \in Tokens : \E r \in BOOLEAN : TokenInsert(k, r) /\ StreamsIdle
          \/ \E k \in Tokens : RevokePendingToken(k) /\ StreamsIdle
          \/ \E o \in Operators : \E k \in Tokens : EnrollCheck(o, k) /\ StreamsIdle
          \/ \E o \in Operators : EnrollCommit(o) /\ StreamsIdle
          \/ \E o \in Operators : RevokeOperator(o) /\ StreamsIdle
          \/ Disable /\ StreamsIdle
          \/ CascadeList /\ StreamsIdle
          \/ CascadeApply /\ StreamsIdle
          \/ Restart
    BY RowWriters, Zenon
<1> USE DEF SessionInv, CascadeListed, NothingInFlight, OperatorTypeOK, ActiveOperators,
            Pending, StreamsIdle, admin, tokens, identity, sessions, connection, registry,
            identityVars
<1>same. ASSUME UNCHANGED <<scope, settled, cascade, token, op>> PROVE CascadeListed'
    BY <1>same, Zenon
<1>1. ASSUME NEW k \in Tokens, TokenCheck(k), StreamsIdle
      PROVE  CascadeListed'
    BY <1>1, Zenon DEF TokenCheck, ScopeOpen
<1>2. ASSUME NEW k \in Tokens, NEW r \in BOOLEAN, TokenInsert(k, r), StreamsIdle
      PROVE  CascadeListed'
    BY <1>2, Zenon DEF TokenInsert, Retire
<1>3. ASSUME NEW k \in Tokens, RevokePendingToken(k), StreamsIdle
      PROVE  CascadeListed'
    BY <1>3, Zenon DEF RevokePendingToken, Retire, ScopeOpen
<1>4. ASSUME NEW o \in Operators, NEW k \in Tokens, EnrollCheck(o, k), StreamsIdle
      PROVE  CascadeListed'
    BY <1>4, Zenon DEF EnrollCheck, ScopeOpen
<1>5. ASSUME NEW o \in Operators, EnrollCommit(o), StreamsIdle
      PROVE  CascadeListed'
    BY <1>5, Zenon DEF EnrollCommit, Superseded
<1>6. ASSUME NEW o \in Operators, RevokeOperator(o), StreamsIdle
      PROVE  CascadeListed'
    BY <1>6, Zenon DEF RevokeOperator, ScopeOpen
<1>7. ASSUME Disable, StreamsIdle
      PROVE  CascadeListed'
    BY <1>7, Zenon DEF Disable
<1>8. ASSUME CascadeList, StreamsIdle
      PROVE  CascadeListed'
    BY <1>8, Zenon DEF CascadeList
<1>9. ASSUME CascadeApply, StreamsIdle
      PROVE  CascadeListed'
    BY <1>9, Zenon DEF CascadeApply, NothingListed
<1>10. ASSUME Restart
      PROVE  CascadeListed'
    BY <1>10, Zenon DEF Restart, Fault, NothingListed
<1> HIDE DEF SessionInv, CascadeListed, NothingInFlight, OperatorTypeOK, ActiveOperators, Pending, StreamsIdle, admin, tokens, identity, sessions, connection, registry, identityVars
<1> QED
    BY <1>cases, <1>same, <1>1, <1>2, <1>3, <1>4, <1>5, <1>6, <1>7, <1>8, <1>9, <1>10, Zenon

(* Such a cascade leaves no pending token and no active operator, and afterwards *)
(* no request is in flight that could bring one.                                *)
LEMMA RetryStep == SessionInv /\ [SessionNext]_vars => RetryConverges'
<1> SUFFICES ASSUME SessionInv, [SessionNext]_vars PROVE RetryConverges'
    BY Zenon
<1>cases. \/ UNCHANGED <<settled, token, op>>
          \/ \E k \in Tokens : TokenCheck(k) /\ StreamsIdle
          \/ \E k \in Tokens : \E r \in BOOLEAN : TokenInsert(k, r) /\ StreamsIdle
          \/ \E k \in Tokens : RevokePendingToken(k) /\ StreamsIdle
          \/ \E o \in Operators : \E k \in Tokens : EnrollCheck(o, k) /\ StreamsIdle
          \/ \E o \in Operators : EnrollCommit(o) /\ StreamsIdle
          \/ \E o \in Operators : RevokeOperator(o) /\ StreamsIdle
          \/ CascadeApply /\ StreamsIdle
          \/ Restart
    BY TokenWriters, Zenon
<1> USE DEF SessionInv, RetryConverges, CascadeListed, NothingInFlight, OperatorTypeOK,
            ActiveOperators, Pending, StreamsIdle, admin, tokens, identity, sessions,
            connection, registry, identityVars
<1>same. ASSUME UNCHANGED <<settled, token, op>> PROVE RetryConverges'
    BY <1>same, Zenon
<1>1. ASSUME NEW k \in Tokens, TokenCheck(k), StreamsIdle
      PROVE  RetryConverges'
    BY <1>1, Zenon DEF TokenCheck, ScopeOpen
<1>2. ASSUME NEW k \in Tokens, NEW r \in BOOLEAN, TokenInsert(k, r), StreamsIdle
      PROVE  RetryConverges'
    BY <1>2, Zenon DEF TokenInsert, Retire
<1>3. ASSUME NEW k \in Tokens, RevokePendingToken(k), StreamsIdle
      PROVE  RetryConverges'
    BY <1>3, Zenon DEF RevokePendingToken, Retire, ScopeOpen
<1>4. ASSUME NEW o \in Operators, NEW k \in Tokens, EnrollCheck(o, k), StreamsIdle
      PROVE  RetryConverges'
    BY <1>4, Zenon DEF EnrollCheck, ScopeOpen
<1>5. ASSUME NEW o \in Operators, EnrollCommit(o), StreamsIdle
      PROVE  RetryConverges'
    BY <1>5, Zenon DEF EnrollCommit, Superseded
<1>6. ASSUME NEW o \in Operators, RevokeOperator(o), StreamsIdle
      PROVE  RetryConverges'
    BY <1>6, Zenon DEF RevokeOperator, ScopeOpen
<1>7. ASSUME CascadeApply, StreamsIdle
      PROVE  RetryConverges'
    BY <1>7, Zenon DEF CascadeApply
<1>8. ASSUME Restart
      PROVE  RetryConverges'
    BY <1>8, Zenon DEF Restart, Fault
<1> HIDE DEF SessionInv, RetryConverges, CascadeListed, NothingInFlight, OperatorTypeOK, ActiveOperators, Pending, StreamsIdle, admin, tokens, identity, sessions, connection, registry, identityVars
<1> QED
    BY <1>cases, <1>same, <1>1, <1>2, <1>3, <1>4, <1>5, <1>6, <1>7, <1>8, Zenon

(* No step takes back a revoked operator or session or a spent token: enrolment *)
(* and Establish write rows that do not exist yet, the others are guarded.      *)
LEMMA FinalStep == SessionInv /\ [SessionNext]_vars => Final
<1> SUFFICES ASSUME SessionInv, [SessionNext]_vars PROVE Final
    OBVIOUS
<1>cases. \/ UNCHANGED <<op, serial, session, token>>
          \/ \E k \in Tokens : TokenCheck(k) /\ StreamsIdle
          \/ \E k \in Tokens : \E r \in BOOLEAN : TokenInsert(k, r) /\ StreamsIdle
          \/ \E k \in Tokens : RevokePendingToken(k) /\ StreamsIdle
          \/ \E o \in Operators : \E k \in Tokens : EnrollCheck(o, k) /\ StreamsIdle
          \/ \E o \in Operators : EnrollCommit(o) /\ StreamsIdle
          \/ \E o \in Operators : \E n \in (1..MaxSerial) : RenewCommit(o, n) /\ StreamsIdle
          \/ \E o \in Operators : RevokeOperator(o) /\ StreamsIdle
          \/ CascadeApply /\ StreamsIdle
          \/ \E t \in Streams : StreamEstablish(t)
          \/ \E t \in Streams : Heartbeat(t)
          \/ \E t \in Streams : SweepApply(t)
          \/ Restart
    <2>1. CASE IdentityStep
        BY <2>1, Zenon DEF IdentityStep, IdentityNext, TokenLapse, RenewCheck, Disable,
               CascadeList, StreamsIdle, admin, tokens, identity, sessions, connection,
               registry
    <2>2. CASE SessionNext /\ ~ IdentityStep
        BY <2>2, Zenon DEF SessionNext, StreamRevoke, StreamCheck, StreamRegister,
               StreamOpen, StreamSendFails, StreamEnd, HeartbeatLost, Age, SweepCollect,
               SweepLost, Beat, Close, Take, admin, tokens, identity, sessions, connection,
               registry, identityVars
    <2>3. CASE UNCHANGED vars
        BY <2>3, Zenon DEF vars, admin, tokens, identity, sessions, connection, registry,
               identityVars
    <2> QED
        BY <2>1, <2>2, <2>3, Zenon
<1> USE IdentityAssumption
    DEF SessionInv, Final, RowsEnrolled, StreamPhases, Enrolled, OperatorTypeOK, Sessions,
        SessionsOf, Live, Pending, StreamsIdle, admin, tokens, identity, sessions, connection,
        registry, identityVars
<1>same. ASSUME UNCHANGED <<op, serial, session, token>> PROVE Final
    BY <1>same, Zenon
<1>1. ASSUME NEW k \in Tokens, TokenCheck(k), StreamsIdle
      PROVE  Final
    BY <1>1, Zenon DEF TokenCheck
<1>2. ASSUME NEW k \in Tokens, NEW r \in BOOLEAN, TokenInsert(k, r), StreamsIdle
      PROVE  Final
    BY <1>2, Zenon DEF TokenInsert, Retire
<1>3. ASSUME NEW k \in Tokens, RevokePendingToken(k), StreamsIdle
      PROVE  Final
    BY <1>3, Zenon DEF RevokePendingToken
<1>4. ASSUME NEW o \in Operators, NEW k \in Tokens, EnrollCheck(o, k), StreamsIdle
      PROVE  Final
    BY <1>4, Zenon DEF EnrollCheck
<1>5. ASSUME NEW o \in Operators, EnrollCommit(o), StreamsIdle
      PROVE  Final
    <2>1. /\ op \in [Operators -> OperatorStates]
          /\ serial \in [Operators -> 0..MaxSerial]
          /\ session \in [Sessions -> SessionStates]
          /\ token \in [Tokens -> TokenStates]
        BY Zenon
    <2>2. session[o] = "none" /\ o \in Sessions
        BY <1>5, Zenon DEF EnrollCommit
    <2> HIDE DEF SessionInv, OperatorTypeOK, RowsEnrolled, StreamPhases, SessionsOf, Enrolled, Sessions
    <2>3. \A p \in Operators :
            /\ op[p] = "revoked" => op'[p] = "revoked"
            /\ op[p] = "superseded" => op'[p] \in {"superseded", "revoked"}
            /\ op[p] \in {"superseded", "revoked"} => serial'[p] = serial[p]
        BY <1>5, <2>1 DEF EnrollCommit, Superseded
    <2>4. \A s \in Sessions : session[s] = "revoked" => session'[s] = "revoked"
        BY <1>5, <2>1, <2>2, Zenon DEF EnrollCommit
    <2>5. \A k \in Tokens : token[k] \in {"used", "revoked", "expired"} => token'[k] = token[k]
        BY <1>5, <2>1 DEF EnrollCommit, Usable
    <2> QED
        BY <2>3, <2>4, <2>5, Zenon
<1>6. ASSUME NEW o \in Operators, NEW n \in (1..MaxSerial), RenewCommit(o, n), StreamsIdle
      PROVE  Final
    BY <1>6 DEF RenewCommit, Renewable
<1>7. ASSUME NEW o \in Operators, RevokeOperator(o), StreamsIdle
      PROVE  Final
    BY <1>7 DEF RevokeOperator
<1>8. ASSUME CascadeApply, StreamsIdle
      PROVE  Final
    BY <1>8, Zenon DEF CascadeApply
<1>9. ASSUME NEW t \in Streams, StreamEstablish(t)
      PROVE  Final
    BY <1>9, Zenon DEF StreamEstablish
<1>10. ASSUME NEW t \in Streams, Heartbeat(t)
      PROVE  Final
    BY <1>10, Zenon DEF Heartbeat, Beat
<1>11. ASSUME NEW t \in Streams, SweepApply(t)
      PROVE  Final
    <2>1. UNCHANGED <<op, serial, token>>
        BY <1>11, Zenon DEF SweepApply, Take
    <2>2. \A s \in Sessions : session[s] = "revoked" => session'[s] = "revoked"
        BY <1>11 DEF SweepApply, SetStatus, Writable
    <2> QED
        BY <2>1, <2>2, Zenon
<1>12. ASSUME Restart
      PROVE  Final
    BY <1>12, Zenon DEF Restart, Fault
<1> HIDE DEF SessionInv, Final, RowsEnrolled, StreamPhases, Enrolled, OperatorTypeOK, Sessions, SessionsOf, Live, Pending, StreamsIdle, admin, tokens, identity, sessions, connection, registry, identityVars
<1> QED
    BY <1>cases, <1>same, <1>1, <1>2, <1>3, <1>4, <1>5, <1>6, <1>7, <1>8, <1>9, <1>10, <1>11,
       <1>12, Zenon

(* Only an enrolment that consumes its token supersedes, and it makes its own   *)
(* operator active in the same step.                                            *)
LEMMA SucceededStep == SessionInv /\ [SessionNext]_vars => Succeeded
<1> SUFFICES ASSUME SessionInv, [SessionNext]_vars PROVE Succeeded
    BY Zenon
<1>cases. \/ UNCHANGED <<op, token, grant>>
          \/ \E k \in Tokens : TokenCheck(k) /\ StreamsIdle
          \/ \E k \in Tokens : \E r \in BOOLEAN : TokenInsert(k, r) /\ StreamsIdle
          \/ \E k \in Tokens : RevokePendingToken(k) /\ StreamsIdle
          \/ \E o \in Operators : \E k \in Tokens : EnrollCheck(o, k) /\ StreamsIdle
          \/ \E o \in Operators : EnrollCommit(o) /\ StreamsIdle
          \/ \E o \in Operators : RevokeOperator(o) /\ StreamsIdle
          \/ CascadeApply /\ StreamsIdle
          \/ Restart
    BY TokenWriters, Zenon
<1> USE DEF SessionInv, Succeeded, RowsEnrolled, ActiveOperators, OperatorTypeOK, StreamsIdle,
            admin, tokens, identity, sessions, connection, registry, identityVars
<1>same. ASSUME UNCHANGED <<op, token, grant>> PROVE Succeeded
    BY <1>same, Zenon
<1>1. ASSUME NEW k \in Tokens, TokenCheck(k), StreamsIdle
      PROVE  Succeeded
    BY <1>1, Zenon DEF TokenCheck
<1>2. ASSUME NEW k \in Tokens, NEW r \in BOOLEAN, TokenInsert(k, r), StreamsIdle
      PROVE  Succeeded
    BY <1>2, Zenon DEF TokenInsert
<1>3. ASSUME NEW k \in Tokens, RevokePendingToken(k), StreamsIdle
      PROVE  Succeeded
    BY <1>3, Zenon DEF RevokePendingToken
<1>4. ASSUME NEW o \in Operators, NEW k \in Tokens, EnrollCheck(o, k), StreamsIdle
      PROVE  Succeeded
    BY <1>4, Zenon DEF EnrollCheck
<1>5. ASSUME NEW o \in Operators, EnrollCommit(o), StreamsIdle
      PROVE  Succeeded
    BY <1>5, Zenon DEF EnrollCommit, Superseded
<1>6. ASSUME NEW o \in Operators, RevokeOperator(o), StreamsIdle
      PROVE  Succeeded
    BY <1>6, Zenon DEF RevokeOperator
<1>7. ASSUME CascadeApply, StreamsIdle
      PROVE  Succeeded
    BY <1>7, Zenon DEF CascadeApply
<1>8. ASSUME Restart
      PROVE  Succeeded
    BY <1>8, Zenon DEF Restart, Fault
<1> HIDE DEF SessionInv, Succeeded, RowsEnrolled, ActiveOperators, OperatorTypeOK, StreamsIdle, admin, tokens, identity, sessions, connection, registry, identityVars
<1> QED
    BY <1>cases, <1>same, <1>1, <1>2, <1>3, <1>4, <1>5, <1>6, <1>7, <1>8, Zenon

-------------------------------------------------------------------------------
(* Every reachable state satisfies the inductive invariant.                     *)
THEOREM SessionInvariant == SessionSpec => []SessionInv
<1>1. SessionInv /\ [SessionNext]_vars => SessionInv'
    BY TypesStep, OneIdentityStep, TokenStep, RowsStep, PhasesStep, OneLiveStep, RegistryStep,
       CascadeStep, RetryStep, Zenon DEF SessionInv
<1> QED
    BY InitInv, <1>1, PTL DEF SessionSpec

(* A cluster never has two active operators or two pending tokens, for any       *)
(* number of enrolments and replacements.                                       *)
THEOREM IdentityUnique == SessionSpec => []OneIdentity
<1>1. SessionInv => OneIdentity
    BY Zenon DEF SessionInv
<1> QED
    BY SessionInvariant, <1>1, PTL

(* No enrolment token ever enrols two operators: the CAS of EnrollCommit spends  *)
(* it, whatever check preceded.                                                 *)
THEOREM TokenSingleUse == SessionSpec => []TokenEnrolsOnce
<1>1. SessionInv => TokenEnrolsOnce
    BY Zenon DEF SessionInv
<1> QED
    BY SessionInvariant, <1>1, PTL

(* An operator never has two live sessions, and the registry never holds a      *)
(* stream that has returned, for any number of streams.                         *)
THEOREM SessionUnique == SessionSpec => [](OneLiveSession /\ RegistryPointsToOpen)
<1>1. SessionInv => OneLiveSession /\ RegistryPointsToOpen
    BY Zenon DEF SessionInv
<1> QED
    BY SessionInvariant, <1>1, PTL

(* A cascade retried with nothing in flight leaves a disabled scope without     *)
(* active operator or pending token, for good.                                  *)
THEOREM CascadeConverges == SessionSpec => []RetryConverges
<1>1. SessionInv => RetryConverges
    BY Zenon DEF SessionInv
<1> QED
    BY SessionInvariant, <1>1, PTL

(* Revocation is final and an operator is superseded only by its successor,     *)
(* whatever is in flight when a step is taken.                                  *)
THEOREM RevocationFinal == SessionSpec => RevokedStays /\ HandOver
<1>1. SessionInv /\ [SessionNext]_vars => [Final]_vars /\ [Succeeded]_vars
    BY FinalStep, SucceededStep, Zenon
<1> QED
    BY SessionInvariant, <1>1, PTL DEF SessionSpec, RevokedStays, HandOver
===============================================================================
