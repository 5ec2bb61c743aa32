-------------------------- MODULE ReleaseOperation --------------------------
(***************************************************************************)
(* Standard operations (INSTALL, UPGRADE, ROLLBACK) from the RPC that      *)
(* creates them to their terminal state, over the command channel of the   *)
(* operator of their cluster. Four parties write an operation's row, each  *)
(* with the state_version it read earlier: the RPC handlers, the preflight *)
(* coordinator, the gateway's result handlers and the recovery sweep.      *)
(*                                                                         *)
(* Every operation has its own release definition, so that several can be  *)
(* in flight; who may be in flight together is OperationAdmission's topic. *)
(***************************************************************************)
EXTENDS CommandChannel, OperationState

CONSTANTS
    Ops,        \* operations
    UpgradeOps, \* those of type UPGRADE: typed results, no dispatch at creation
    BundleOps,  \* those that carry a bundle; a ROLLBACK does not
    NStages     \* number of preflight stages of an operation with a bundle

ASSUME ReleaseAssumption ==
    /\ NStages \in Nat
    /\ UpgradeOps \subseteq BundleOps
    /\ BundleOps \subseteq Ops
    /\ Commands = Ops \X (1 .. NStages + 1)
    /\ StageCommands = Ops \X (1 .. NStages)
    /\ UpgradeCommands = UpgradeOps \X (1 .. NStages + 1)

VARIABLES
    opStatus,  \* operations.status, "absent" before the row is inserted
    opVersion, \* operations.state_version
    launch,    \* CreateOperation is between its transaction and the preflight CAS
    coord,     \* preflight coordinator: stage in hand and the version it holds
    cancelFx,  \* CancelOperation is between its commit and its side effects
    fin        \* the row the gateway's result handler has read

opVars  == <<opStatus, opVersion, launch, coord, cancelFx, fin>>
rowVars == <<opStatus, opVersion>>
vars    == <<channelVars, opVars>>

Stage(o, k) == <<o, k>>
Write(o) == <<o, NStages + 1>>
OperationOf(c) == c[1]
StagesOf(o) == IF o \in BundleOps THEN NStages ELSE 0

Off == [pc |-> "off", stage |-> 0, ver |-> 0]
Working(pc, k, v) == [pc |-> pc, stage |-> k, ver |-> v]
NoRow == [pc |-> "none", st |-> "absent", ver |-> 0]
Read(pc, s, v) == [pc |-> pc, st |-> s, ver |-> v]

-----------------------------------------------------------------------------
(* The store's compare-and-swap.                                           *)

SetStatus(o, t) ==
    /\ opStatus' = [opStatus EXCEPT ![o] = t]
    /\ opVersion' = [opVersion EXCEPT ![o] = @ + 1]

CASAllowed(o, v, t) == opVersion[o] = v /\ CanTransitionTo(opStatus[o], t)

\* A lost compare-and-swap is logged by every caller and changes nothing.
Transitioned(o, v, t) ==
    IF CASAllowed(o, v, t) THEN SetStatus(o, t) ELSE UNCHANGED rowVars

-----------------------------------------------------------------------------
OpInit ==
    /\ opStatus = [o \in Ops |-> "absent"]
    /\ opVersion = [o \in Ops |-> 0]
    /\ launch = [o \in Ops |-> FALSE]
    /\ coord = [o \in Ops |-> Off]
    /\ cancelFx = [o \in Ops |-> "none"]
    /\ fin = NoRow

-----------------------------------------------------------------------------
(* CreateOperation / RollbackRelease.                                      *)

\* The creation transaction. An INSTALL commits its first stage command with
\* the operation; an UPGRADE and a ROLLBACK leave it to the coordinator.
CreateOperation(o) ==
    /\ opStatus[o] = "absent"
    /\ opStatus' = [opStatus EXCEPT ![o] = InitialStatus]
    /\ opVersion' = [opVersion EXCEPT ![o] = 1]
    /\ launch' = [launch EXCEPT ![o] = TRUE]
    /\ \/ o \notin UpgradeOps /\ StagesOf(o) > 0 /\ CreateEntry(Stage(o, 1))
       \/ (o \in UpgradeOps \/ StagesOf(o) = 0) /\ UNCHANGED channelVars
    /\ UNCHANGED <<coord, cancelFx, fin>>

\* The second transaction of the same request: pending -> preflight, and only
\* if it succeeds the coordinator is started.
StartPreflight(o) ==
    /\ launch[o]
    /\ launch' = [launch EXCEPT ![o] = FALSE]
    /\ Transitioned(o, 1, "preflight")
    /\ coord' = IF CASAllowed(o, 1, "preflight")
                THEN [coord EXCEPT ![o] = Working("stage", 1, 2)] ELSE coord
    /\ UNCHANGED <<channelVars, cancelFx, fin>>

-----------------------------------------------------------------------------
(* The preflight coordinator. It holds the state_version of the operation  *)
(* it was started with and never reads the row again.                      *)

\* runStage: reuse the stage's row or insert it.
RunStage(o) ==
    /\ coord[o].pc = "stage"
    /\ coord[o].stage <= StagesOf(o)
    /\ LET c == Stage(o, coord[o].stage) IN
       \/ status[c] = "absent" /\ CreateEntry(c)
       \/ status[c] # "absent" /\ UNCHANGED channelVars
    /\ coord' = [coord EXCEPT ![o].pc = "poll"]
    /\ UNCHANGED <<rowVars, launch, cancelFx, fin>>

\* pollStage's verdict on the row: a persisted row counts as a finished one,
\* and an empty result as a pass.
StagePassed(c) == status[c] \in {"persisted", "succeeded"} /\ result[c] \in {"", "ok"}
StageFailed(c) ==
    \/ status[c] = "failed"
    \/ status[c] \in {"persisted", "succeeded"} /\ result[c] \notin {"", "ok"}

PollStagePassed(o) ==
    /\ coord[o].pc = "poll"
    /\ StagePassed(Stage(o, coord[o].stage))
    /\ coord' = [coord EXCEPT ![o] = Working("stage", @.stage + 1, @.ver)]
    /\ UNCHANGED <<channelVars, rowVars, launch, cancelFx, fin>>

\* casFailed: the stage failed, or a command could not be dispatched.
CasFailed(o) ==
    /\ \/ coord[o].pc = "poll" /\ StageFailed(Stage(o, coord[o].stage))
       \/ coord[o].pc = "stage"
    /\ Transitioned(o, coord[o].ver, "failed")
    /\ coord' = [coord EXCEPT ![o] = Off]
    /\ UNCHANGED <<channelVars, launch, cancelFx, fin>>

\* casCancelled: the stage timed out.
CasCancelled(o) ==
    /\ coord[o].pc = "poll"
    /\ Transitioned(o, coord[o].ver, "cancelled")
    /\ coord' = [coord EXCEPT ![o] = Off]
    /\ UNCHANGED <<channelVars, launch, cancelFx, fin>>

\* queueOperation: preflight -> queued and the release write, in one
\* transaction. The casFailed after a lost race loses it too.
QueueOperation(o) ==
    /\ coord[o].pc = "stage"
    /\ coord[o].stage = StagesOf(o) + 1
    /\ \/ /\ CASAllowed(o, coord[o].ver, "queued")
          /\ SetStatus(o, "queued")
          /\ CreateEntry(Write(o))
       \/ /\ ~CASAllowed(o, coord[o].ver, "queued")
          /\ UNCHANGED <<rowVars, channelVars>>
    /\ coord' = [coord EXCEPT ![o] = Off]
    /\ UNCHANGED <<launch, cancelFx, fin>>

-----------------------------------------------------------------------------
(* CancelOperation: the store commits first, the side effects follow.      *)

\* A request whose expected version is stale, or a replayed one, changes
\* nothing; the one that commits was made at the current version.
CancelOperation(o) ==
    /\ cancelFx[o] = "none"
    /\ \E t \in {"cancelled", "cancelling"} :
          /\ Transition(opStatus[o], "cancel", t)
          /\ SetStatus(o, t)
          /\ cancelFx' = [cancelFx EXCEPT ![o] = t]
    /\ UNCHANGED <<channelVars, launch, coord, fin>>

\* CancelPreflight, and for a cancelling operation the operator's stream is
\* revoked when its newest outbox row is the release write. created_at counts
\* seconds, so that a stage row can tie with it and be taken for the newest.
CancelEffects(o) ==
    /\ cancelFx[o] # "none"
    /\ coord' = [coord EXCEPT ![o] = Off]
    /\ cancelFx' = [cancelFx EXCEPT ![o] = "none"]
    /\ \/ /\ cancelFx[o] = "cancelling" /\ status[Write(o)] # "absent"
          /\ Revoke
          /\ fin' = NoRow
       \/ /\ \/ cancelFx[o] = "cancelled"
             \/ status[Write(o)] = "absent"
             \/ ~gwUp
             \/ StagesOf(o) > 0
          /\ UNCHANGED <<channelVars, fin>>
    /\ UNCHANGED <<rowVars, launch>>

-----------------------------------------------------------------------------
(* RecoverNonTerminal, at start-up and on every tick. Clocks are left out: *)
(* a deadline or the cancelling grace period may have passed at any time.  *)
(* The row is read and then compared-and-swapped at the version read; when *)
(* that succeeds the row has not changed in between, and when it fails     *)
(* nothing is written, so the two statements are one action.               *)

\* Mutant of Recover: the cancelling grace period is forgotten.
RecoverDeadlinesOnly(o) ==
    /\ opStatus[o] \notin {"absent", "cancelling"}
    /\ ~IsTerminal(opStatus[o])
    /\ SetStatus(o, "timeout")
    /\ UNCHANGED <<channelVars, launch, coord, cancelFx, fin>>

Recover(o) ==
    /\ opStatus[o] # "absent"
    /\ ~IsTerminal(opStatus[o])
    /\ SetStatus(o, IF opStatus[o] = "cancelling" THEN "failed" ELSE "timeout")
    /\ UNCHANGED <<channelVars, launch, coord, cancelFx, fin>>

-----------------------------------------------------------------------------
(* The gateway's result handlers, one action per database transaction.     *)

ResultOf == OperationOf(gw.cmd)

\* Operations().Get at the head of FinishOperation and HandleCommandResult.
ResultLoad ==
    /\ gw.pc \in {"finish", "typed"}
    /\ fin = NoRow
    /\ fin' = Read("read", opStatus[ResultOf], opVersion[ResultOf])
    /\ UNCHANGED <<channelVars, rowVars, launch, coord, cancelFx>>

\* A queued operation is moved to running when its result arrives. The legacy
\* handler gives up on a lost race; the typed one also ends the stream.
ResultBegin ==
    /\ fin.pc = "read"
    /\ fin.st = "queued"
    /\ \/ /\ CASAllowed(ResultOf, fin.ver, "running")
          /\ SetStatus(ResultOf, "running")
          /\ fin' = Read("read", "running", fin.ver + 1)
          /\ UNCHANGED channelVars
       \/ /\ ~CASAllowed(ResultOf, fin.ver, "running")
          /\ fin' = NoRow
          /\ GwFinished \/ GwTypedReject
          /\ UNCHANGED rowVars
    /\ UNCHANGED <<launch, coord, cancelFx>>

\* Mutant of FinishTargets: a running operation completes whatever the result.
FinishTargetsAlwaysComplete(s, r) == IF s = "running" THEN {"succeeded"} ELSE {}

\* The statuses FinishOperation may write for a result r of an operation it
\* loaded in status s; none when it drops the result.
FinishTargets(s, r) ==
    CASE s = "pending"    -> IF r = "ok" THEN {} ELSE {"failed"}
      [] s = "running"    -> IF r = "ok" THEN {"succeeded"} ELSE {"failed"}
      [] s = "cancelling" -> IF r = "cancelled" THEN {"cancelled"} ELSE {"failed"}
      [] OTHER            -> {}

FinishOperation ==
    /\ gw.pc = "finish"
    /\ fin.pc = "read"
    /\ fin.st # "queued"
    /\ LET targets == FinishTargets(fin.st, gw.res) IN
       \/ \E t \in targets : Transitioned(ResultOf, fin.ver, t)
       \/ targets = {} /\ UNCHANGED rowVars
    /\ GwFinished
    /\ fin' = NoRow
    /\ UNCHANGED <<launch, coord, cancelFx>>

\* terminalMapping, and the rule that a committed cancel beats a late success.
\* An "error" stands for every other error code, helm_timeout included.
TypedTargets(s, r) ==
    CASE r = "ok"        -> IF s = "cancelling" THEN {"failed"} ELSE {"succeeded"}
      [] r = "cancelled" -> {"cancelled"}
      [] OTHER           -> {"failed", "timeout"}

\* A successful stage result carries no active snapshot and is refused.
Acceptable(c, r) == ~(c \in StageCommands /\ r = "ok")

\* Mutant of HandleCommandResult: the result is written without comparing the
\* version.
HandleCommandResultBlind ==
    /\ gw.pc = "typed"
    /\ fin.pc = "read"
    /\ fin.st # "queued"
    /\ \E t \in TypedTargets(fin.st, gw.res) : SetStatus(ResultOf, t)
    /\ fin' = [fin EXCEPT !.pc = "applied"]
    /\ UNCHANGED <<channelVars, launch, coord, cancelFx>>

\* HandleCommandResult after the load: FinalizeUpgrade compares the version and
\* does not consult the edge table. A terminal operation ignores the result.
HandleCommandResult ==
    /\ gw.pc = "typed"
    /\ fin.pc = "read"
    /\ fin.st # "queued"
    /\ \/ /\ IsTerminal(fin.st)
          /\ fin' = [fin EXCEPT !.pc = "applied"]
          /\ UNCHANGED <<rowVars, channelVars>>
       \/ /\ ~IsTerminal(fin.st)
          /\ Acceptable(gw.cmd, gw.res)
          /\ opVersion[ResultOf] = fin.ver
          /\ \E t \in TypedTargets(fin.st, gw.res) : SetStatus(ResultOf, t)
          /\ fin' = [fin EXCEPT !.pc = "applied"]
          /\ UNCHANGED channelVars
       \/ /\ ~IsTerminal(fin.st)
          /\ ~Acceptable(gw.cmd, gw.res) \/ opVersion[ResultOf] # fin.ver
          /\ GwTypedReject
          /\ fin' = NoRow
          /\ UNCHANGED rowVars
    /\ UNCHANGED <<launch, coord, cancelFx>>

TypedRowDone ==
    /\ fin.pc = "applied"
    /\ GwTypedDone
    /\ fin' = NoRow
    /\ UNCHANGED <<rowVars, launch, coord, cancelFx>>

-----------------------------------------------------------------------------
(* The delivery fence: only a release write is fenced.                     *)

\* Mutant of FenceDelivery: a dead release write is held.
FenceDeliveryHolds(c) ==
    LET s == opStatus[OperationOf(c)] IN
    IF c # Write(OperationOf(c)) \/ s \in {"queued", "running"} THEN "allow" ELSE "hold"

FenceDelivery(c) ==
    LET s == opStatus[OperationOf(c)] IN
    IF c # Write(OperationOf(c)) \/ s \in {"queued", "running"} THEN "allow"
    ELSE IF s \in {"pending", "preflight"} THEN "hold"
    ELSE "refuse"

DeliverNextPending(c) == PollNext(c, FenceDelivery(c)) /\ UNCHANGED opVars

-----------------------------------------------------------------------------
(* The rest of the channel, as it is.                                      *)

Poller == (PollInflight \/ PollNothing \/ PollStamp \/ PollPush) /\ UNCHANGED opVars

Gateway ==
    (GwSend \/ GwMarkDelivered \/ GwAck \/ GwResult \/ GwTyped) /\ UNCHANGED opVars

Agent ==
    /\ \/ AgentTake
       \/ AgentAck
       \/ AgentCached
       \/ \E c \in Commands : AgentReplay(c)
       \/ \E r \in {"ok", "error"} : AgentFinish(r)
       \/ AgentReport
       \/ AgentNotice
    /\ UNCHANGED opVars

Reconnect ==
    /\ Connect
    /\ fin' = NoRow
    /\ UNCHANGED <<rowVars, launch, coord, cancelFx>>

StreamLost ==
    /\ gwUp
    /\ Fault(GatewayDrop)
    /\ fin' = NoRow
    /\ UNCHANGED <<rowVars, launch, coord, cancelFx>>

AgentLost == (Fault(AgentCrash) \/ Fault(AgentStop)) /\ UNCHANGED opVars

\* The orchestrator process dies and comes back: everything in memory is gone,
\* and ResumePreflights starts a coordinator for each operation in preflight.
Restart ==
    /\ Fault(GatewayDrop)
    /\ launch' = [o \in Ops |-> FALSE]
    /\ coord' = [o \in Ops |-> IF opStatus[o] = "preflight"
                               THEN Working("stage", 1, opVersion[o]) ELSE Off]
    /\ cancelFx' = [o \in Ops |-> "none"]
    /\ fin' = NoRow
    /\ UNCHANGED rowVars

-----------------------------------------------------------------------------
ReleaseInit == Init /\ OpInit

Lifecycle(o) ==
    \/ CreateOperation(o)
    \/ StartPreflight(o)
    \/ RunStage(o)
    \/ PollStagePassed(o)
    \/ CasFailed(o)
    \/ CasCancelled(o)
    \/ QueueOperation(o)
    \/ CancelOperation(o)
    \/ CancelEffects(o)
    \/ Recover(o)

Results == ResultLoad \/ ResultBegin \/ FinishOperation \/ HandleCommandResult \/ TypedRowDone

ReleaseNext ==
    \/ \E o \in Ops : Lifecycle(o)
    \/ Results
    \/ \E c \in Commands : DeliverNextPending(c)
    \/ Poller
    \/ Gateway
    \/ Agent
    \/ Reconnect
    \/ StreamLost
    \/ AgentLost
    \/ Restart

ReleaseSpec == ReleaseInit /\ [][ReleaseNext]_vars

-----------------------------------------------------------------------------
\* The operations row, the coordinator and the result handler hold values the
\* code writes there; among them the status that terminalMapping gives a result.
ReleaseTypeOK ==
    /\ TypeOK
    /\ opStatus \in [Ops -> Statuses \cup {"absent"}]
    /\ opVersion \in [Ops -> Nat]
    /\ launch \in [Ops -> BOOLEAN]
    /\ coord \in [Ops -> [pc : {"off", "stage", "poll"}, stage : 0 .. NStages + 1, ver : Nat]]
    /\ cancelFx \in [Ops -> {"none", "cancelled", "cancelling"}]
    /\ fin \in {NoRow} \cup [pc : {"read", "applied"}, st : Statuses, ver : Nat]

\* The detailed system keeps the promise of the operations table: four racing
\* writers, crashes, replayed and duplicated results, and still every change
\* follows an edge, raises the version by one and leaves terminal rows alone.
Promise == INSTANCE OperationLifecycle
               WITH Ops <- Ops, opStatus <- opStatus, opVersion <- opVersion
ImplementsLifecycle == Promise!LifecycleSpec

\* A release write exists only for an operation whose queued transition
\* committed (queueOperation's single transaction): the operation is queued,
\* or was (pending, preflight, queued are versions 1, 2, 3).
DispatchImpliesQueued ==
    \A o \in Ops : status[Write(o)] # "absent" => opStatus[o] = "queued" \/ opVersion[o] > 3

\* The agent's store holds the success of a command of the operation; without
\* preflight stages that command is the release write.
Vouched(o) ==
    \E c \in Commands :
        /\ OperationOf(c) = o /\ local[c] = "ok"
        /\ o \notin BundleOps => c = Write(o)

\* An operation recorded succeeded has a success in the agent's store behind it,
\* a ROLLBACK its release write's: FinishOperation's complete event comes only
\* from a result, in spite of cancels, timeouts, lost streams and duplicates.
SuccessVouched == \A o \in Ops : opStatus[o] = "succeeded" => Vouched(o)

-----------------------------------------------------------------------------
(* Progress. The coordinator, the handlers and the loops of the channel    *)
(* run on; the recovery sweep runs on a ticker. A pending row is not      *)
(* passed over for ever: that would need the poller to win every race      *)
(* against the main loop. Requests, cancels and faults are not fair.       *)

Fair ==
    /\ \A o \in Ops :
          /\ WF_vars(StartPreflight(o))
          /\ WF_vars(RunStage(o) \/ PollStagePassed(o) \/ QueueOperation(o))
          /\ WF_vars(CasFailed(o) /\ coord[o].pc = "poll")
          /\ WF_vars(CancelEffects(o))
          /\ WF_vars(Recover(o))
    /\ WF_vars(Results)
    /\ \A c \in Commands : SF_vars(DeliverNextPending(c))
    /\ WF_vars(Poller)
    /\ WF_vars(Gateway)
    /\ WF_vars(Agent)
    /\ WF_vars(Reconnect)

FairReleaseSpec == ReleaseSpec /\ Fair

\* RecoverNonTerminal's job: whatever is lost, no operation stays unfinished.
EveryOperationEnds == \A o \in Ops : opStatus[o] # "absent" ~> IsTerminal(opStatus[o])

StreamKept == [](gwUp => []gwUp)

\* While the stream stays up, the operator's queue drains: every row a producer
\* inserted is finished, by the fence or by the agent's result, so that
\* max_inflight never blocks the rows behind it for good.
QueueDrains ==
    StreamKept => \A c \in Commands : status[c] # "absent" ~> status[c] \in RowDone

-----------------------------------------------------------------------------
(* What the documents say and the code does not do.                        *)

\* "Without it the operation would reach succeeded with nothing installed"
\* (runPipeline): a succeeded operation has had its release write applied.
SucceededImpliesApplied ==
    \A o \in Ops : opStatus[o] = "succeeded" => local[Write(o)] = "ok"

\* A release write whose operation left queued is not delivered (fenceDelivery).
FencedDelivery ==
    [][\A o \in Ops : gw # gw' /\ gw'.pc = "sent" /\ gw'.cmd = Write(o)
                          => opStatus[o] \in {"queued", "running"}]_vars

\* An operation the agent is executing is not recorded cancelled before the
\* agent has answered (finishCancelWithTarget: cancelling, then the stream).
CancelWaitsForAgent ==
    [][\A o \in Ops : agent.pc = "running" /\ agent.cmd = Write(o) /\ acked[Write(o)]
                          /\ opStatus'[o] = "cancelled" => opStatus[o] = "cancelled"]_vars

\* Every change of status is an edge of the documented state machine.
DocumentedEdges ==
    [][\A o \in Ops : opStatus[o] \notin {"absent", opStatus'[o]}
                          => CanTransitionTo(opStatus[o], opStatus'[o])]_vars

=============================================================================
