-------------------------- MODULE EmergencyChange --------------------------
(***************************************************************************)
(* Emergency changes to the workloads of ONE release definition: the       *)
(* request that creates the operation and hands the command to the         *)
(* operator's stream, the gateway loop, the agent, and the three writers   *)
(* that race the result: the deadline sweep, the cancel and the release of *)
(* a stuck target lock.                                                    *)
(*                                                                         *)
(* Unlike a standard command, an emergency command has no outbox row: it   *)
(* lives in a channel of the gateway process and is never delivered twice. *)
(* Each handler is cut where the code gives another writer a chance: after *)
(* a committed transaction, a read made outside the transaction that uses  *)
(* it, and a Send.                                                         *)
(***************************************************************************)
EXTENDS Integers, Sequences, FiniteSets, OperationState

CONSTANTS
    Changes,     \* emergency operations requested on the definition
    NoChange,    \* "no operation in hand"
    Target,      \* Target[o]: the workload field o changes, and its promotion path
    Promotions,  \* the changes whose convergence strategy is REQUIRE_PROMOTION
    ChanCap,     \* capacity of emergencyCh (8 in the code)
    Writers,     \* the racing writers explored (bound)
    WireCap,     \* frames the transport buffers per direction (bound)
    MaxFaults    \* connection losses and agent deaths explored (bound)

ASSUME EmergencyAssumption ==
    /\ NoChange \notin Changes
    /\ Promotions \subseteq Changes
    /\ Changes \subseteq DOMAIN Target
    /\ Writers \subseteq {"sweep", "cancel", "release", "standard"}
    /\ ChanCap \in Nat \ {0}
    /\ WireCap \in Nat \ {0}
    /\ MaxFaults \in Nat

VARIABLES
    op,         \* operations row: status ("absent" before the insert), version
    intent,     \* emergency_intents row: delivery, effect, released
    task,       \* convergence_tasks row of the operation
    aged,       \* terminal for longer than the observe window
    std,        \* program counter of a standard operation on the definition
    req,        \* program counter of ExecuteEmergencyChange
    sweep,      \* ExpireEmergencyOperations: the row it has read
    cancel,     \* CancelOperation: what it has read
    release,    \* ReleaseLock: what it has read
    registered, \* emergencyStreams holds this operator's channel
    teardown,   \* a lost stream has still to run its deferred delete
    chan,       \* emergencyCh of the newest stream
    conn,       \* the newest stream is alive
    down, up,   \* frames gateway -> agent, agent -> gateway
    gw,         \* program counter of the gateway's main loop
    local,      \* agent command store
    agent,      \* program counter of the agent's single command loop
    replay,     \* commands replayActive has still to visit
    applied,    \* the changes made in the cluster
    faults      \* faults so far

storeVars  == <<op, intent, task, aged>>
raceVars   == <<std, sweep, cancel, release>>
streamVars == <<registered, teardown, chan, conn, down, up, gw>>
agentVars  == <<local, agent, replay, applied>>
vars == <<op, intent, task, aged, std, req, sweep, cancel, release, registered,
          teardown, chan, conn, down, up, gw, local, agent, replay, applied, faults>>

-----------------------------------------------------------------------------
(* Vocabulary. *)

Effects == {"APPLIED", "NOT_APPLIED", "UNKNOWN"}
Nothing == [pc |-> "idle", op |-> NoChange, status |-> "none", version |-> 0, try |-> 0]
At(pc, o, s, v, n) == [pc |-> pc, op |-> o, status |-> s, version |-> v, try |-> n]
Down == At("down", NoChange, "none", 0, 0)

\* A mutant of MaxAttempts: one retry.
TwoAttempts == 2

MaxAttempts == 3

Created(o) == op[o].status # "absent"
Live(o)    == Created(o) /\ ~IsTerminal(op[o].status)

\* listActiveEmergencyIntents: whose target locks are held.
HoldsTarget(o) ==
    /\ Created(o)
    /\ Live(o) \/ intent[o].effect = "UNKNOWN"
    /\ ~intent[o].released

\* emergencyIntentsConflict.
Conflict(o, p) == Target[o] = Target[p]

\* HasUnresolvedForDefinition.
Unresolved(o) ==
    /\ Created(o) /\ ~Live(o)
    /\ intent[o].effect = "UNKNOWN" /\ ~intent[o].released

\* HasPendingPromotionPath.
PathPending(o) == \E p \in Changes : Conflict(o, p) /\ task[p] = "pending_promotion"

\* nextEmergencyHop followed to running: how many rows the loop writes.
HopsToRunning(s) == CASE s = "pending" -> 2 [] s = "queued" -> 1 [] OTHER -> 0

\* emergencyHopTx along the legal chain to s; resolveUnknownEffectTx.
HoppedTo(row, s) == [status |-> s, version |-> row.version + HopsToRunning(row.status) + 1]
EffectResolved(row) == [row EXCEPT !.version = @ + 1]

\* abandonConvergenceTaskTx.
Abandoned(o) == IF task[o] = "pending_promotion" THEN [task EXCEPT ![o] = "none"] ELSE task

\* The gateway goroutine of the newest stream runs on until it notices a loss.
GatewayRuns == conn \/ teardown

-----------------------------------------------------------------------------
Init ==
    /\ op = [o \in Changes |-> [status |-> "absent", version |-> 0]]
    /\ intent = [o \in Changes |->
                   [delivery |-> "pending", effect |-> "UNKNOWN", released |-> FALSE]]
    /\ task = [o \in Changes |-> "none"]
    /\ aged = {}
    /\ std = "idle"
    /\ req = [o \in Changes |-> "idle"]
    /\ sweep = Nothing /\ cancel = Nothing /\ release = Nothing
    /\ registered = FALSE /\ teardown = FALSE
    /\ chan = <<>> /\ conn = FALSE /\ down = <<>> /\ up = <<>>
    /\ gw = Nothing
    /\ local = [o \in Changes |-> "none"]
    /\ agent = Down
    /\ replay = {} /\ applied = {}
    /\ faults = 0

-----------------------------------------------------------------------------
(* The store's writers of an operation row. *)

\* operationStore.UpdateStatus and the hops of a transition: compare and swap.
Swap(o, v, s) ==
    IF op[o].version = v /\ CanTransitionTo(op[o].status, s)
    THEN op' = [op EXCEPT ![o] = [status |-> s, version |-> v + 1]]
    ELSE op' = op

\* emergencyIntentStore.Finish: the terminal status and the effect together. It
\* leaves the convergence task alone.
Finish(o, v, s, e) ==
    /\ IF op[o].version = v /\ CanTransitionTo(op[o].status, s)
       THEN /\ op' = [op EXCEPT ![o] = [status |-> s, version |-> v + 1]]
            /\ intent' = [intent EXCEPT ![o].effect = e]
       ELSE UNCHANGED <<op, intent>>
    /\ UNCHANGED <<task, aged>>

\* A mutant of ConvergeAnswer: a late result overwrites the effect on record.
ConvergeAnswerOverwrites(o, v, e) == IF op[o].version # v THEN "lock" ELSE "write"

\* How ConvergeEmergencyResult answers a result with effect e read at version v.
ConvergeAnswer(o, v, e) ==
    LET settled == IsTerminal(op[o].status) /\ intent[o].effect # "UNKNOWN"
    IN  CASE settled /\ intent[o].effect = e  -> "same"
          [] settled /\ intent[o].effect # e  -> "conflict"
          [] ~settled /\ op[o].version # v    -> "lock"
          [] OTHER                            -> "write"

\* The transaction of ConvergeEmergencyResult: a terminal operation keeps its
\* status and has its unknown effect resolved; any other walks the legal hops.
ConvergeWrite(o, s, e) ==
    /\ op' = [op EXCEPT ![o] =
                IF IsTerminal(@.status) THEN EffectResolved(@) ELSE HoppedTo(@, s)]
    /\ intent' = [intent EXCEPT ![o].effect = e]
    /\ task' = IF e = "NOT_APPLIED" THEN Abandoned(o) ELSE task
    /\ UNCHANGED aged

-----------------------------------------------------------------------------
(* The request: ExecuteEmergencyChange. *)

\* The gates read before the creation transaction.
RequestCheck(o) ==
    /\ req[o] = "idle"
    /\ o \in Promotions => ~PathPending(o)
    /\ req' = [req EXCEPT ![o] = "checked"]
    /\ UNCHANGED <<storeVars, raceVars, streamVars, agentVars, faults>>

\* A mutant of Admits: the held target locks are not looked at.
AdmitsUnlocked(o) == std # "active" /\ ~ \E p \in Changes : Live(p)

\* What createEmergencyOperationUnitOfWork requires: no standard operation, no
\* other live emergency operation, and no held target lock that conflicts.
Admits(o) ==
    /\ std # "active"
    /\ ~ \E p \in Changes : Live(p)
    /\ ~ \E p \in Changes : HoldsTarget(p) /\ Conflict(o, p)

\* The creation transaction: operation, intent and, for a promotion, its task.
CreateEmergency(o) ==
    /\ req[o] = "checked"
    /\ IF Admits(o)
       THEN /\ op' = [op EXCEPT ![o] = [status |-> InitialStatus, version |-> 1]]
            /\ task' = IF o \in Promotions
                       THEN [task EXCEPT ![o] = "pending_promotion"] ELSE task
            /\ req' = [req EXCEPT ![o] = "created"]
       ELSE /\ req' = [req EXCEPT ![o] = "done"]
            /\ UNCHANGED <<op, task>>
    /\ UNCHANGED <<intent, aged, raceVars, streamVars, agentVars, faults>>

\* DispatchEmergency: into the channel of the stream the operator holds.
Dispatch(o) ==
    /\ req[o] = "created" /\ registered /\ Len(chan) < ChanCap
    /\ chan' = Append(chan, o)
    /\ req' = [req EXCEPT ![o] = "dispatched"]
    /\ UNCHANGED <<storeVars, raceVars, registered, teardown, conn, down, up, gw,
                   agentVars, faults>>

\* onlineEmergencyOperator finds no fresh session, or DispatchEmergency no
\* stream: failEmergencyDelivery at the version the creation returned.
DispatchOffline(o) ==
    /\ req[o] = "created"
    /\ Finish(o, 1, "failed", "NOT_APPLIED")
    /\ req' = [req EXCEPT ![o] = "done"]
    /\ UNCHANGED <<raceVars, streamVars, agentVars, faults>>

\* UpdateDeliveryStatus(queued): unconditional, whatever the gateway wrote since.
MarkQueued(o) ==
    /\ req[o] = "dispatched"
    /\ intent' = [intent EXCEPT ![o].delivery = "queued"]
    /\ req' = [req EXCEPT ![o] = "marked"]
    /\ UNCHANGED <<op, task, aged, raceVars, streamVars, agentVars, faults>>

EnterQueued(o) ==
    /\ req[o] = "marked"
    /\ Swap(o, 1, "queued")
    /\ req' = [req EXCEPT ![o] = "done"]
    /\ UNCHANGED <<intent, task, aged, raceVars, streamVars, agentVars, faults>>

\* The caller goes away or the process dies: every later store call fails.
RequestAbandoned(o) ==
    /\ req[o] \in {"checked", "created", "dispatched", "marked"}
    /\ req' = [req EXCEPT ![o] = "done"]
    /\ UNCHANGED <<storeVars, raceVars, streamVars, agentVars, faults>>

-----------------------------------------------------------------------------
(* The gateway: the emergency branches of CommandStream's main loop. *)

GwSend ==
    /\ gw = Nothing /\ GatewayRuns /\ chan # <<>>
    /\ conn => Len(down) < WireCap
    /\ down' = IF conn THEN Append(down, Head(chan)) ELSE down
    /\ chan' = Tail(chan)
    /\ gw' = At("sent", Head(chan), "none", 0, 0)
    /\ UNCHANGED <<storeVars, raceVars, req, registered, teardown, conn, up, agentVars, faults>>

GwMarkDelivered ==
    /\ gw.pc = "sent"
    /\ intent' = [intent EXCEPT ![gw.op].delivery = "delivered"]
    /\ gw' = Nothing
    /\ UNCHANGED <<op, task, aged, raceVars, req, registered, teardown, chan, conn, down, up,
                   agentVars, faults>>

\* PersistAck.
GwAck ==
    /\ gw = Nothing /\ GatewayRuns /\ up # <<>> /\ Head(up).kind = "ack"
    /\ intent' = [intent EXCEPT ![Head(up).op].delivery = "persisted"]
    /\ gw' = At("acked", Head(up).op, "none", 0, 0)
    /\ up' = Tail(up)
    /\ UNCHANGED <<op, task, aged, raceVars, req, registered, teardown, chan, conn, down,
                   agentVars, faults>>

\* The operation is read again, and only a queued one goes on.
GwAckRead ==
    /\ gw.pc = "acked"
    /\ gw' = IF op[gw.op].status = "queued"
             THEN At("begin", gw.op, "none", op[gw.op].version, 0) ELSE Nothing
    /\ UNCHANGED <<storeVars, raceVars, req, registered, teardown, chan, conn, down, up,
                   agentVars, faults>>

GwBegin ==
    /\ gw.pc = "begin"
    /\ Swap(gw.op, gw.version, "running")
    /\ gw' = Nothing
    /\ UNCHANGED <<intent, task, aged, raceVars, req, registered, teardown, chan, conn, down, up,
                   agentVars, faults>>

\* finishEmergencyResult reads the operation once before its attempts.
GwResult ==
    /\ gw = Nothing /\ GatewayRuns /\ up # <<>> /\ Head(up).kind = "result"
    /\ LET o == Head(up).op
       IN  gw' = At("result", o, Head(up).res, op[o].version, 1)
    /\ up' = Tail(up)
    /\ UNCHANGED <<storeVars, raceVars, req, registered, teardown, chan, conn, down,
                   agentVars, faults>>

\* A mutant of EffectOf: every result counts as an application.
EffectAlways(s) == "APPLIED"

EffectOf(s) == IF s = "failed" THEN "NOT_APPLIED" ELSE "APPLIED"

\* One attempt; a lost compare-and-swap reloads the operation and tries again,
\* three times in all. Anything else the store refuses is only logged.
GwConverge ==
    /\ gw.pc = "result"
    /\ LET o == gw.op
           e == EffectOf(gw.status)
           answer == ConvergeAnswer(o, gw.version, e)
       IN  /\ IF answer = "write" THEN ConvergeWrite(o, gw.status, e)
              ELSE UNCHANGED storeVars
           /\ gw' = IF answer = "lock" /\ gw.try < MaxAttempts
                    THEN [gw EXCEPT !.version = op[o].version, !.try = @ + 1]
                    ELSE Nothing
    /\ UNCHANGED <<raceVars, req, registered, teardown, chan, conn, down, up, agentVars, faults>>

-----------------------------------------------------------------------------
(* The agent. A frame it sends is lost with the stream. *)

AgentSends(m) ==
    /\ conn => Len(up) < WireCap
    /\ up' = IF conn THEN Append(up, m) ELSE up

AckOf(o) == [kind |-> "ack", op |-> o, res |-> "none"]
ResultOf(o, r) == [kind |-> "result", op |-> o, res |-> r]

\* handleEmergencyCommand: a finished command answers from the store, an
\* unfinished one runs again, a new one is saved first.
AgentTake ==
    /\ agent = Nothing /\ replay = {} /\ down # <<>>
    /\ LET o == Head(down)
       IN  /\ local' = IF local[o] = "none" THEN [local EXCEPT ![o] = "pending"] ELSE local
           /\ agent' = CASE local[o] = "none"                   -> At("ack", o, "none", 0, 0)
                         [] local[o] \in {"pending", "running"} -> At("start", o, "none", 0, 0)
                         [] OTHER                               -> At("report", o, "none", 0, 0)
    /\ down' = Tail(down)
    /\ UNCHANGED <<storeVars, raceVars, req, registered, teardown, chan, conn, up, gw,
                   replay, applied, faults>>

AgentAck ==
    /\ agent.pc = "ack"
    /\ AgentSends(AckOf(agent.op))
    /\ agent' = At("start", agent.op, "none", 0, 0)
    /\ UNCHANGED <<storeVars, raceVars, req, registered, teardown, chan, conn, down, gw,
                   local, replay, applied, faults>>

AgentStart ==
    /\ agent.pc = "start"
    /\ local' = [local EXCEPT ![agent.op] = "running"]
    /\ agent' = At("execute", agent.op, "none", 0, 0)
    /\ UNCHANGED <<storeVars, raceVars, req, streamVars, replay, applied, faults>>

\* EmergencyExecutor.Execute: the workload is updated, refused before the
\* update, or updated although the API call reports an error.
AgentExecute ==
    /\ agent.pc = "execute"
    /\ \E r \in {"succeeded", "failed"}, effective \in BOOLEAN :
          /\ r = "succeeded" => effective
          /\ applied' = IF effective THEN applied \cup {agent.op} ELSE applied
          /\ agent' = At("store", agent.op, r, 0, 0)
    /\ UNCHANGED <<storeVars, raceVars, req, streamVars, local, replay, faults>>

AgentStore ==
    /\ agent.pc = "store"
    /\ local' = [local EXCEPT ![agent.op] = agent.status]
    /\ agent' = At("report", agent.op, "none", 0, 0)
    /\ UNCHANGED <<storeVars, raceVars, req, streamVars, replay, applied, faults>>

AgentReport ==
    /\ agent.pc = "report"
    /\ AgentSends(ResultOf(agent.op, local[agent.op]))
    /\ agent' = Nothing
    /\ UNCHANGED <<storeVars, raceVars, req, registered, teardown, chan, conn, down, gw,
                   local, replay, applied, faults>>

\* replayEmergencyEntry: a running command runs again, a pending one is only
\* acknowledged again.
AgentReplay ==
    /\ agent = Nothing /\ replay # {}
    /\ \E o \in replay :
          /\ replay' = replay \ {o}
          /\ IF local[o] = "running"
             THEN agent' = At("start", o, "none", 0, 0) /\ UNCHANGED up
             ELSE AgentSends(AckOf(o)) /\ UNCHANGED agent
    /\ UNCHANGED <<storeVars, raceVars, req, registered, teardown, chan, conn, down, gw,
                   local, applied, faults>>

-----------------------------------------------------------------------------
(* The stream. *)

\* The agent connects: CommandStream registers the channel of the new stream,
\* whether or not a lost one has run its deferred delete yet.
Connect ==
    /\ agent = Down /\ ~conn
    /\ conn' = TRUE /\ registered' = TRUE
    /\ chan' = <<>> /\ down' = <<>> /\ up' = <<>> /\ gw' = Nothing
    /\ agent' = Nothing
    /\ replay' = {o \in Changes : local[o] \in {"pending", "running"}}
    /\ UNCHANGED <<storeVars, raceVars, req, teardown, local, applied, faults>>

StreamLost ==
    /\ conn /\ faults < MaxFaults
    /\ conn' = FALSE /\ teardown' = TRUE /\ faults' = faults + 1
    /\ UNCHANGED <<storeVars, raceVars, req, registered, chan, down, up, gw, agentVars>>

\* The deferred delete of a lost stream: by operator, whoever holds the entry.
Teardown ==
    /\ teardown
    /\ teardown' = FALSE /\ registered' = FALSE
    /\ IF conn THEN UNCHANGED <<chan, up, gw>>
       ELSE chan' = <<>> /\ up' = <<>> /\ gw' = Nothing
    /\ UNCHANGED <<storeVars, raceVars, req, conn, down, agentVars, faults>>

\* The agent finds the stream gone at its next Receive or Send.
AgentNotice ==
    /\ ~conn /\ agent.pc \in {"idle", "ack", "report"}
    /\ agent' = Down /\ replay' = {} /\ down' = <<>>
    /\ UNCHANGED <<storeVars, raceVars, req, registered, teardown, chan, conn, up, gw,
                   local, applied, faults>>

\* The agent process dies; its store survives.
AgentCrash ==
    /\ agent # Down /\ faults < MaxFaults
    /\ agent' = Down /\ replay' = {} /\ down' = <<>>
    /\ conn' = FALSE /\ teardown' = (teardown \/ conn) /\ faults' = faults + 1
    /\ UNCHANGED <<storeVars, raceVars, req, registered, chan, up, gw, local, applied>>

-----------------------------------------------------------------------------
(* The writers that race the result. *)

\* A mutant of SweepRead: operations that were never dispatched are passed over.
SweepReadDispatched(o) ==
    /\ "sweep" \in Writers /\ sweep = Nothing /\ Live(o) /\ op[o].status # "pending"
    /\ sweep' = At("read", o, op[o].status, op[o].version, 0)
    /\ UNCHANGED <<storeVars, std, cancel, release, req, streamVars, agentVars, faults>>

\* ExpireEmergencyOperations: an overdue row is read ...
SweepRead(o) ==
    /\ "sweep" \in Writers /\ sweep = Nothing /\ Live(o)
    /\ sweep' = At("read", o, op[o].status, op[o].version, 0)
    /\ UNCHANGED <<storeVars, std, cancel, release, req, streamVars, agentVars, faults>>

\* ... and finished with the effect its status then stood for.
ExpiredEffect(s) == IF s = "pending" THEN "NOT_APPLIED" ELSE "UNKNOWN"

SweepFinish ==
    /\ sweep # Nothing
    /\ Finish(sweep.op, sweep.version, "timeout", ExpiredEffect(sweep.status))
    /\ sweep' = Nothing
    /\ UNCHANGED <<std, cancel, release, req, streamVars, agentVars, faults>>

\* CancelOperation's guards: an edge to cancel by, and not a running change.
MayCancel(o) ==
    /\ op[o].status # "running"
    /\ \E t \in Statuses : Transition(op[o].status, "cancel", t)

\* CancelOperation: the row, and with it the delivery status, are read first.
CancelRead(o) ==
    /\ "cancel" \in Writers /\ cancel = Nothing /\ Created(o) /\ MayCancel(o)
    /\ cancel' = At("read", o, intent[o].delivery, op[o].version, 0)
    /\ UNCHANGED <<storeVars, std, sweep, release, req, streamVars, agentVars, faults>>

\* operationStore.Cancel: compare and swap, and the effect the earlier delivery
\* status stands for.
CancelCommit ==
    /\ cancel # Nothing
    /\ LET o == cancel.op
       IN  IF op[o].version = cancel.version /\ CanTransitionTo(op[o].status, "cancelled")
           THEN /\ op' = [op EXCEPT ![o] = [status |-> "cancelled", version |-> @.version + 1]]
                /\ intent' = [intent EXCEPT ![o].effect =
                                IF cancel.status = "pending" THEN "NOT_APPLIED" ELSE "UNKNOWN"]
           ELSE UNCHANGED <<op, intent>>
    /\ cancel' = Nothing
    /\ UNCHANGED <<task, aged, std, sweep, release, req, streamVars, agentVars, faults>>

\* The observe window, minutes long, passes; no transaction stays open that long.
ObserveWindowPasses(o) ==
    /\ "release" \in Writers /\ Created(o) /\ ~Live(o) /\ o \notin aged /\ release.op # o
    /\ aged' = aged \cup {o}
    /\ UNCHANGED <<op, intent, task, raceVars, req, streamVars, agentVars, faults>>

\* ReleaseLock reads the intent before it takes the row lock.
ReleaseRead(o) ==
    /\ "release" \in Writers /\ release = Nothing
    /\ Created(o) /\ ~intent[o].released /\ intent[o].effect = "UNKNOWN"
    /\ \E mode \in {"NOT_APPLIED_PROVEN", "AUDITED_OVERRIDE"} :
          release' = At("read", o, mode, 0, 0)
    /\ UNCHANGED <<storeVars, std, sweep, cancel, req, streamVars, agentVars, faults>>

ReleaseCommit ==
    /\ release # Nothing
    /\ LET o == release.op
           proven == release.status = "NOT_APPLIED_PROVEN"
       IN  IF IsTerminal(op[o].status) /\ o \in aged /\ task[o] # "pending_promotion"
           THEN /\ op' = IF proven THEN [op EXCEPT ![o].version = @ + 1] ELSE op
                /\ intent' = [intent EXCEPT ![o].released = TRUE,
                                ![o].effect = IF proven THEN "NOT_APPLIED" ELSE "UNKNOWN"]
           ELSE UNCHANGED <<op, intent>>
    /\ release' = Nothing
    /\ UNCHANGED <<task, aged, std, sweep, cancel, req, streamVars, agentVars, faults>>

\* ApproveValuesRevision converges the tasks bound to the approved revision.
Promote(o) ==
    /\ task[o] = "pending_promotion"
    /\ task' = [task EXCEPT ![o] = "converged"]
    /\ UNCHANGED <<op, intent, aged, raceVars, req, streamVars, agentVars, faults>>

\* CreateOperation and RollbackOperation: the emergency gates are read ...
StandardGate ==
    /\ "standard" \in Writers /\ std = "idle"
    /\ ~ \E o \in Changes : Unresolved(o) \/ task[o] = "pending_promotion"
    /\ std' = "gated"
    /\ UNCHANGED <<storeVars, sweep, cancel, release, req, streamVars, agentVars, faults>>

\* ... and the creation transaction counts the live operations.
StandardCreate ==
    /\ std = "gated"
    /\ std' = IF \E o \in Changes : Live(o) THEN "idle" ELSE "active"
    /\ UNCHANGED <<storeVars, sweep, cancel, release, req, streamVars, agentVars, faults>>

StandardFinish ==
    /\ std = "active"
    /\ std' = "idle"
    /\ UNCHANGED <<storeVars, sweep, cancel, release, req, streamVars, agentVars, faults>>

-----------------------------------------------------------------------------
Request(o) ==
    RequestCheck(o) \/ CreateEmergency(o) \/ Dispatch(o) \/ DispatchOffline(o)
    \/ MarkQueued(o) \/ EnterQueued(o) \/ RequestAbandoned(o)

Gateway == GwSend \/ GwMarkDelivered \/ GwAck \/ GwAckRead \/ GwBegin \/ GwResult \/ GwConverge

Agent == AgentTake \/ AgentAck \/ AgentStart \/ AgentExecute \/ AgentStore \/ AgentReport
         \/ AgentReplay

Stream == Connect \/ StreamLost \/ Teardown \/ AgentNotice \/ AgentCrash

Next ==
    \/ \E o \in Changes : Request(o) \/ SweepRead(o) \/ CancelRead(o) \/ ReleaseRead(o)
                          \/ ObserveWindowPasses(o) \/ Promote(o)
    \/ Gateway \/ Agent \/ Stream
    \/ SweepFinish \/ CancelCommit \/ ReleaseCommit
    \/ StandardGate \/ StandardCreate \/ StandardFinish

Spec == Init /\ [][Next]_vars

\* The sweep runs on a timer and never stops half-way: every live operation's
\* deadline passes and is seen.
Sweep == SweepFinish \/ \E o \in Changes : SweepRead(o)
FairSpec == Spec /\ WF_vars(Sweep)

-----------------------------------------------------------------------------
(* Properties. *)

\* The program counters, and what one of them holds with its operation: an
\* operation status, a delivery status, a result or a release mode.
Pcs == {"idle", "down", "read", "sent", "acked", "begin", "result",
        "ack", "start", "execute", "store", "report"}
Deliveries == {"pending", "queued", "delivered", "persisted"}
Words == Statuses \cup Deliveries \cup {"none", "absent", "NOT_APPLIED_PROVEN", "AUDITED_OVERRIDE"}
PcRecords ==
    [pc : Pcs, op : Changes \cup {NoChange}, status : Words, version : Nat, try : 0 .. MaxAttempts]
OpRows     == [status : Statuses \cup {"absent"}, version : Nat]
IntentRows == [delivery : Deliveries, effect : Effects, released : BOOLEAN]
Frames     == [kind : {"ack", "result"}, op : Changes, res : {"none", "succeeded", "failed"}]

\* Every row, frame and program counter holds a value the code writes there.
EmergencyTypeOK ==
    /\ op \in [Changes -> OpRows] /\ intent \in [Changes -> IntentRows]
    /\ task \in [Changes -> {"none", "pending_promotion", "converged"}]
    /\ aged \subseteq Changes
    /\ std \in {"idle", "gated", "active"}
    /\ req \in [Changes -> {"idle", "checked", "created", "dispatched", "marked", "done"}]
    /\ sweep \in PcRecords /\ cancel \in PcRecords /\ release \in PcRecords
    /\ gw \in PcRecords /\ agent \in PcRecords
    /\ registered \in BOOLEAN /\ teardown \in BOOLEAN /\ conn \in BOOLEAN
    /\ chan \in Seq(Changes) /\ down \in Seq(Changes)
    /\ up \in Seq(Frames)
    /\ local \in [Changes -> {"none", "pending", "running", "succeeded", "failed"}]
    /\ replay \subseteq Changes /\ applied \subseteq Changes
    /\ faults \in 0 .. MaxFaults

\* The definition is worked on by one operation at a time: at most one live
\* emergency operation, and none while a standard operation is live
\* (createEmergencyOperationUnitOfWork against createOperationUnitOfWork).
OneLiveOperation ==
    /\ \A o, p \in Changes : Live(o) /\ Live(p) => o = p
    /\ std = "active" => \A o \in Changes : ~Live(o)

\* Two changes of the same target never hold it together, not even when the
\* older one ended without anyone knowing whether it took effect
\* (listActiveEmergencyIntents, emergencyIntentsConflict).
TargetLocked ==
    \A o, p \in Changes : o # p /\ HoldsTarget(o) /\ HoldsTarget(p) => ~Conflict(o, p)

\* An effect recorded as APPLIED was made in the cluster, whichever of the
\* result, the timeout and the cancel came first, and a succeeded operation
\* says APPLIED (finishEmergencyResult, ConvergeEmergencyResult).
AppliedIsTrue ==
    \A o \in Changes :
        /\ intent[o].effect = "APPLIED" => o \in applied
        /\ op[o].status = "succeeded" => intent[o].effect = "APPLIED"

\* A terminal operation keeps its status for ever, and a running one is never
\* cancelled: a change under way cannot be called off (CancelOperation, Cancel).
TerminalStatusKept ==
    [][\A o \in Changes :
          /\ Created(o) /\ ~Live(o) => op'[o].status = op[o].status
          /\ op[o].status = "running" => op'[o].status # "cancelled"]_vars

\* The legal chain of emergencyHopTx: an edge of the store, or the hops to
\* running and one edge more in the same transaction.
Walk(s, t) == CanTransitionTo(s, t) \/ (s \in {"pending", "queued"} /\ CanTransitionTo("running", t))

\* Nobody writes an operation row without raising its version, so whoever read
\* it before loses the compare-and-swap; its status moves along the store's
\* edges, and after the end only the version moves (Swap, Finish, Cancel,
\* ConvergeEmergencyResult, ReleaseLock).
RowsFollowEdges ==
    [][\A o \in Changes : op'[o] # op[o] =>
          /\ op'[o].version > op[o].version
          /\ \/ ~Created(o) /\ op'[o].status = InitialStatus /\ op'[o].version = 1
             \/ Walk(op[o].status, op'[o].status)
             \/ IsTerminal(op[o].status) /\ op'[o].status = op[o].status]_vars

\* A result whose processing runs to its end settles the effect: three attempts
\* are enough for the writers that can move the version under it
\* (finishEmergencyResult, maxAttempts).
ResultSettles ==
    [][GwConverge => gw'.pc = "result" \/ intent'[gw.op].effect # "UNKNOWN"]_vars

\* Only the release of a stuck lock touches an effect that is already known
\* (ConvergeEmergencyResult, Finish, Cancel against ReleaseLock).
KnownEffectKept ==
    [][\A o \in Changes :
          intent[o].effect # "UNKNOWN" /\ intent'[o].effect # intent[o].effect
          => release.op = o /\ release' = Nothing]_vars

\* Every emergency operation ends: whatever is lost, the sweep's deadline gets
\* it (ExpireEmergencyOperations).
EveryChangeEnds == \A o \in Changes : Created(o) ~> ~Live(o)

\* A NOT_APPLIED effect leaves no pending promotion task behind, as the comment
\* on abandonConvergenceTaskTx and acceptance criterion 058-31 say.
NotAppliedHasNoTask ==
    \A o \in Changes : Created(o) /\ intent[o].effect = "NOT_APPLIED"
                        => task[o] # "pending_promotion"

\* An operation that expires in pending is undelivered, as the comment on
\* ExpireEmergencyOperations says ("provably undelivered").
ExpiredPendingIsUndelivered ==
    [][\A o \in Changes :
          Live(o) /\ op'[o].status = "timeout" /\ intent'[o].effect = "NOT_APPLIED"
          => local[o] = "none"]_vars

\* An effect is resolved exactly once, as the comments on resolveUnknownEffectTx
\* and ReleaseLock say.
ResolvedOnce ==
    [][\A o \in Changes : intent[o].effect # "UNKNOWN" => intent'[o].effect = intent[o].effect]_vars

\* A live stream is found by the dispatcher, as the comment on its error branch
\* in ExecuteEmergencyChange says.
LiveStreamIsFound == conn => registered

\* No standard operation starts over an unresolved emergency effect, as
\* acceptance criterion 058-26 and the gate in CreateOperation say.
NoStandardOverUnresolved ==
    [][std = "gated" /\ std' = "active" => ~ \E o \in Changes : Unresolved(o)]_vars
=============================================================================
