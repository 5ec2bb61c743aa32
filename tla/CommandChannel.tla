--------------------------- MODULE CommandChannel ---------------------------
(***************************************************************************)
(* The durable command channel between the orchestrator's operator gateway *)
(* and ONE in-cluster agent: the outbox table, the gateway's poller and    *)
(* main loop, the stream, and the agent with its BoltDB command store.     *)
(*                                                                         *)
(* The gateway handlers are cut exactly where the code gives the other     *)
(* goroutine, the other process or a crash a chance to run: between two    *)
(* database statements, and between a Send and the statement after it.     *)
(* The two ends of a stream fail separately: gwUp is the gateway's view,   *)
(* agUp the agent's.                                                       *)
(***************************************************************************)
EXTENDS Integers, Sequences, FiniteSets, FiniteSetsExt

CONSTANTS
    Commands,        \* command identities (command_id) addressed to this operator
    NoCommand,       \* "no command in hand"
    StageCommands,   \* the commands that carry a preflight stage
    UpgradeCommands, \* the commands whose operation_type is UPGRADE
    DeliverChCap,    \* capacity of deliverCh (16 in the code)
    WireCap,         \* frames the transport buffers per direction (bound)
    MaxFaults        \* connection losses and agent deaths explored (bound)

ASSUME ChannelAssumption ==
    /\ NoCommand \notin Commands
    /\ StageCommands \subseteq Commands
    /\ UpgradeCommands \subseteq Commands
    /\ DeliverChCap \in Nat \ {0}
    /\ WireCap \in Nat \ {0}
    /\ MaxFaults \in Nat

VARIABLES
    status,    \* outbox.status, "absent" before the row is inserted
    sequence,  \* outbox.sequence
    acked,     \* outbox.acked_at IS NOT NULL
    result,    \* outbox.result_json
    gwUp,      \* CommandStream is running on the gateway
    poll,      \* program counter of deliverPending's poll cycle
    deliverCh, \* deliverCh
    gw,        \* program counter of CommandStream's main loop
    down, up,  \* frames gateway -> agent, agent -> gateway
    agUp,      \* Agent.Run is connected
    local,     \* agent command store: state or final result of each command
    lastSeq,   \* agent command store: the sequence key
    agent,     \* program counter of the agent's single command loop
    replay,    \* commands replayActive has still to run
    faults     \* faults so far

outboxVars  == <<status, sequence, acked, result>>
gatewayVars == <<gwUp, poll, deliverCh, gw>>
agentVars   == <<agUp, local, lastSeq, agent, replay>>
channelVars == <<status, sequence, acked, result, gwUp, poll, deliverCh, gw,
                 down, up, agUp, local, lastSeq, agent, replay, faults>>

-----------------------------------------------------------------------------
(* Vocabulary. *)

Outcomes  == {"ok", "error", "cancelled"}      \* how an executed command ended
RowStates == {"absent", "pending", "delivered", "persisted", "succeeded", "failed"}
RowDone   == {"succeeded", "failed"}
InFlight  == {"delivered", "persisted"}        \* nothing in the code writes "running"
Active    == {c \in Commands : local[c] \in {"pending", "running"}}

Idle == [pc |-> "idle", cmd |-> NoCommand, res |-> ""]
At(pc, c, r) == [pc |-> pc, cmd |-> c, res |-> r]

\* A mutant of RowStatusOf: everything that is not an error counts as a success.
RowStatusNotError(r) == IF r = "error" THEN "failed" ELSE "succeeded"

RowStatusOf(r) == IF r = "ok" THEN "succeeded" ELSE "failed"

\* UPDATE outbox SET status, result_json: unconditional, and never the sequence.
UpdateStatus(c, s, r) ==
    /\ status' = [status EXCEPT ![c] = s]
    /\ result' = [result EXCEPT ![c] = r]
    /\ UNCHANGED <<sequence, acked>>

MaxSequence == Max({sequence[c] : c \in Commands} \cup {0})

\* The rows reDeliverFrom sends again: delivered, not acknowledged, and beyond
\* the sequence the agent reports.
ReDelivered(from) ==
    {c \in Commands : status[c] \in InFlight /\ ~acked[c] /\ sequence[c] > from}

Frame(c, n) == [cmd |-> c, seq |-> n]
Ack(c) == [kind |-> "ack", cmd |-> c, res |-> ""]
Result(shape, c, r) == [kind |-> shape, cmd |-> c, res |-> r]

\* sendCommandResult: a stage result is never typed, a release write of an
\* UPGRADE is.
ResultShape(c) ==
    IF c \in UpgradeCommands /\ c \notin StageCommands THEN "typed" ELSE "legacy"

\* sendCachedResult selects the shape by operation type alone.
CachedShape(c) == IF c \in UpgradeCommands THEN "typed" ELSE "legacy"

\* A frame the agent sends reaches the gateway only while its stream lives.
AgentSends(m) == up' = IF gwUp THEN Append(up, m) ELSE up

-----------------------------------------------------------------------------
Init ==
    /\ status = [c \in Commands |-> "absent"]
    /\ sequence = [c \in Commands |-> 0]
    /\ acked = [c \in Commands |-> FALSE]
    /\ result = [c \in Commands |-> ""]
    /\ gwUp = FALSE
    /\ poll = Idle
    /\ deliverCh = <<>>
    /\ gw = Idle
    /\ down = <<>>
    /\ up = <<>>
    /\ agUp = FALSE
    /\ local = [c \in Commands |-> "none"]
    /\ lastSeq = 0
    /\ agent = Idle
    /\ replay = {}
    /\ faults = 0

-----------------------------------------------------------------------------
(* The outbox producers. No producer fills OutboxEntry.Sequence, so the    *)
(* column keeps its default 0.                                             *)

CreateEntry(c) ==
    /\ status[c] = "absent"
    /\ status' = [status EXCEPT ![c] = "pending"]
    /\ UNCHANGED <<sequence, acked, result, gatewayVars, down, up, agentVars, faults>>

-----------------------------------------------------------------------------
(* The poller: deliverNextPending, one action per database statement.      *)

PollInflight ==
    /\ gwUp
    /\ poll = Idle
    /\ \A c \in Commands : status[c] \notin InFlight
    /\ poll' = At("clear", NoCommand, "")
    /\ UNCHANGED <<outboxVars, gwUp, deliverCh, gw, down, up, agentVars, faults>>

\* GetNextPending orders by sequence, which is 0 on every row: any pending row.
\* An allowed row goes on to the sequence step, a refused one is failed here,
\* a held one is left pending.
PollNext(c, verdict) ==
    /\ poll.pc = "clear"
    /\ status[c] = "pending"
    /\ poll' = IF verdict = "allow" THEN At("stamp", c, "") ELSE Idle
    /\ \/ verdict = "refuse" /\ UpdateStatus(c, "failed", "fenced")
       \/ verdict # "refuse" /\ UNCHANGED outboxVars
    /\ UNCHANGED <<gwUp, deliverCh, gw, down, up, agentVars, faults>>

\* GetNextPending found no row: the cycle ends.
PollNothing ==
    /\ poll.pc = "clear"
    /\ \A c \in Commands : status[c] # "pending"
    /\ poll' = Idle
    /\ UNCHANGED <<outboxVars, gwUp, deliverCh, gw, down, up, agentVars, faults>>

\* The sequence is assigned in memory; UpdateStatus(pending) does not store it.
PollStamp ==
    /\ poll.pc = "stamp"
    /\ UpdateStatus(poll.cmd, "pending", "")
    /\ poll' = At("push", poll.cmd, "")
    /\ UNCHANGED <<gwUp, deliverCh, gw, down, up, agentVars, faults>>

\* The push blocks while deliverCh is full.
PollPush ==
    /\ poll.pc = "push"
    /\ Len(deliverCh) < DeliverChCap
    /\ deliverCh' = Append(deliverCh, Frame(poll.cmd, MaxSequence + 1))
    /\ poll' = Idle
    /\ UNCHANGED <<outboxVars, gwUp, gw, down, up, agentVars, faults>>

-----------------------------------------------------------------------------
(* The gateway's main loop.                                                *)

GwSend ==
    /\ gwUp
    /\ gw = Idle
    /\ deliverCh # <<>>
    /\ Len(down) < WireCap
    /\ down' = Append(down, Head(deliverCh))
    /\ deliverCh' = Tail(deliverCh)
    /\ gw' = At("sent", Head(deliverCh).cmd, "")
    /\ UNCHANGED <<outboxVars, gwUp, poll, up, agentVars, faults>>

GwMarkDelivered ==
    /\ gw.pc = "sent"
    /\ UpdateStatus(gw.cmd, "delivered", "")
    /\ gw' = Idle
    /\ UNCHANGED <<gwUp, poll, deliverCh, down, up, agentVars, faults>>

\* PersistAck leaves a row that is already persisted alone.
GwAck ==
    /\ gwUp
    /\ gw = Idle
    /\ up # <<>>
    /\ Head(up).kind = "ack"
    /\ status' = [status EXCEPT ![Head(up).cmd] = "persisted"]
    /\ acked' = [acked EXCEPT ![Head(up).cmd] = TRUE]
    /\ up' = Tail(up)
    /\ UNCHANGED <<sequence, result, gatewayVars, down, agentVars, faults>>

\* A legacy result: a row that is already terminal answers DuplicateResponse
\* (the agent only logs it); otherwise the row is finished first and the
\* operation afterwards.
GwResult ==
    /\ gwUp
    /\ gw = Idle
    /\ up # <<>>
    /\ Head(up).kind = "legacy"
    /\ up' = Tail(up)
    /\ LET m == Head(up) IN
       \/ /\ status[m.cmd] \in RowDone
          /\ UNCHANGED <<outboxVars, gw>>
       \/ /\ status[m.cmd] \notin RowDone
          /\ UpdateStatus(m.cmd, RowStatusOf(m.res), m.res)
          /\ gw' = At("finish", m.cmd, m.res)
    /\ UNCHANGED <<gwUp, poll, deliverCh, down, agentVars, faults>>

\* FinishOperation returned (its errors are only logged).
GwFinished ==
    /\ gw.pc = "finish"
    /\ gw' = Idle
    /\ UNCHANGED <<outboxVars, gwUp, poll, deliverCh, down, up, agentVars, faults>>

\* A typed upgrade result: the operation is finalized first, the row afterwards.
GwTyped ==
    /\ gwUp
    /\ gw = Idle
    /\ up # <<>>
    /\ Head(up).kind = "typed"
    /\ gw' = At("typed", Head(up).cmd, Head(up).res)
    /\ up' = Tail(up)
    /\ UNCHANGED <<outboxVars, gwUp, poll, deliverCh, down, agentVars, faults>>

GwTypedDone ==
    /\ gw.pc = "typed"
    /\ UpdateStatus(gw.cmd, RowStatusOf(gw.res), gw.res)
    /\ gw' = Idle
    /\ UNCHANGED <<gwUp, poll, deliverCh, down, up, agentVars, faults>>

-----------------------------------------------------------------------------
(* The agent's command loop.                                               *)

CanTake == agUp /\ agent = Idle /\ replay = {}

\* Mutant of AgentTake: the acknowledgement leaves before the save.
AgentTakeAckFirst ==
    /\ CanTake
    /\ down # <<>>
    /\ Len(up) < WireCap
    /\ local[Head(down).cmd] = "none"
    /\ AgentSends(Ack(Head(down).cmd))
    /\ agent' = At("running", Head(down).cmd, "")
    /\ down' = Tail(down)
    /\ UNCHANGED <<outboxVars, gatewayVars, agUp, local, lastSeq, replay, faults>>

\* Mutant of AgentTake: the terminal branch of handleCommand is missing.
AgentTakeAgain ==
    /\ CanTake
    /\ down # <<>>
    /\ LET f == Head(down)
           new == local[f.cmd] = "none" IN
       /\ local' = [local EXCEPT ![f.cmd] = IF new THEN "pending" ELSE "running"]
       /\ agent' = At(IF new THEN "saved" ELSE "running", f.cmd, "")
    /\ down' = Tail(down)
    /\ UNCHANGED <<outboxVars, gatewayVars, up, agUp, lastSeq, replay, faults>>

\* handleCommand: a new command is saved (fsync) before anything else; one the
\* store already holds unfinished is run without a second acknowledgement.
AgentTake ==
    /\ CanTake
    /\ down # <<>>
    /\ LET f == Head(down)
           new == local[f.cmd] = "none" IN
       /\ local[f.cmd] \notin Outcomes
       /\ local' = [local EXCEPT ![f.cmd] = IF new THEN "pending" ELSE "running"]
       /\ lastSeq' = IF new /\ f.seq > 0 THEN f.seq ELSE lastSeq
       /\ agent' = At(IF new THEN "saved" ELSE "running", f.cmd, "")
    /\ down' = Tail(down)
    /\ UNCHANGED <<outboxVars, gatewayVars, up, agUp, replay, faults>>

\* Only a saved command is acknowledged; executeEntry marks it running.
AgentAck ==
    /\ agent.pc = "saved"
    /\ Len(up) < WireCap
    /\ AgentSends(Ack(agent.cmd))
    /\ local' = [local EXCEPT ![agent.cmd] = "running"]
    /\ agent' = At("running", agent.cmd, "")
    /\ UNCHANGED <<outboxVars, gatewayVars, down, agUp, lastSeq, replay, faults>>

\* A finished command is answered from the store without running it again.
AgentCached ==
    /\ CanTake
    /\ down # <<>>
    /\ Len(up) < WireCap
    /\ LET f == Head(down) IN
       /\ local[f.cmd] \in Outcomes
       /\ AgentSends(Result(CachedShape(f.cmd), f.cmd, local[f.cmd]))
    /\ down' = Tail(down)
    /\ UNCHANGED <<outboxVars, gatewayVars, agentVars, faults>>

\* replayActive: an unfinished command runs again on the new connection.
AgentReplay(c) ==
    /\ agUp
    /\ agent = Idle
    /\ c \in replay
    /\ local' = [local EXCEPT ![c] = "running"]
    /\ agent' = At("running", c, "")
    /\ replay' = replay \ {c}
    /\ UNCHANGED <<outboxVars, gatewayVars, down, up, agUp, lastSeq, faults>>

\* executeCommand returned and its result is stored before it is sent.
AgentFinish(r) ==
    /\ agent.pc = "running"
    /\ local' = [local EXCEPT ![agent.cmd] = r]
    /\ agent' = At("done", agent.cmd, r)
    /\ UNCHANGED <<outboxVars, gatewayVars, down, up, agUp, lastSeq, replay, faults>>

AgentReport ==
    /\ agent.pc = "done"
    /\ Len(up) < WireCap
    /\ AgentSends(Result(ResultShape(agent.cmd), agent.cmd, agent.res))
    /\ agent' = Idle
    /\ UNCHANGED <<outboxVars, gatewayVars, down, agUp, local, lastSeq, replay, faults>>

-----------------------------------------------------------------------------
(* The connection.                                                         *)

\* The gateway end of the stream ends: CommandStream returns, its poller and
\* channel go with it, and frames it has not read are lost. What it already
\* sent can still be read by the agent.
GatewayDown ==
    /\ gwUp' = FALSE
    /\ poll' = Idle
    /\ deliverCh' = <<>>
    /\ gw' = Idle
    /\ up' = <<>>

\* The transport breaks or the orchestrator dies.
GatewayDrop == GatewayDown /\ UNCHANGED <<outboxVars, down, agentVars>>

\* streams.Revoke: the stream's context is cancelled, and CommandStream returns.
Revoke == gwUp /\ GatewayDrop /\ UNCHANGED faults

\* HandleCommandResult failed: CommandStream returns the error.
GwTypedReject ==
    /\ gw.pc = "typed"
    /\ GatewayDown
    /\ UNCHANGED <<outboxVars, down, agentVars, faults>>

\* The agent process dies; what it stored stays.
AgentCrash ==
    /\ agUp
    /\ agUp' = FALSE
    /\ agent' = Idle
    /\ replay' = {}
    /\ down' = <<>>
    /\ UNCHANGED <<outboxVars, gatewayVars, up, local, lastSeq>>

\* A graceful stop cancels the context of the running Helm call, whose result
\* is still stored.
AgentStop ==
    /\ agUp
    /\ agent.pc = "running"
    /\ local' = [local EXCEPT ![agent.cmd] =
                    IF agent.cmd \in StageCommands THEN "error" ELSE "cancelled"]
    /\ agUp' = FALSE
    /\ agent' = Idle
    /\ replay' = {}
    /\ down' = <<>>
    /\ UNCHANGED <<outboxVars, gatewayVars, up, lastSeq>>

\* Receive or Send fails on a stream the gateway has left: Agent.Run returns,
\* before an acknowledgement or a result it was about to send. A running Helm
\* call does not notice.
AgentNotice ==
    /\ agUp
    /\ ~gwUp
    /\ agent.pc # "running"
    /\ agUp' = FALSE
    /\ agent' = Idle
    /\ replay' = {}
    /\ down' = <<>>
    /\ UNCHANGED <<outboxVars, gatewayVars, up, local, lastSeq, faults>>

\* Hello: the new stream replaces whatever the gateway still held, the gateway
\* re-delivers, and the agent lists its unfinished commands. When the gateway
\* sees a sequence gap it sends the same rows after the agent's resync answer,
\* which repeats the sequence of the Hello.
Connect ==
    /\ ~agUp
    /\ agUp' = TRUE
    /\ gwUp' = TRUE
    /\ poll' = Idle
    /\ deliverCh' = <<>>
    /\ gw' = Idle
    /\ up' = <<>>
    /\ LET again == ReDelivered(lastSeq) IN
       /\ status' = [c \in Commands |-> IF c \in again THEN "delivered" ELSE status[c]]
       /\ result' = [c \in Commands |-> IF c \in again THEN "" ELSE result[c]]
       /\ \E order \in [1 .. Cardinality(again) -> again] :
             /\ {order[i] : i \in DOMAIN order} = again
             /\ down' = [i \in DOMAIN order |-> Frame(order[i], sequence[order[i]])]
    /\ replay' = Active
    /\ UNCHANGED <<sequence, acked, local, lastSeq, agent, faults>>

Fault(A) == faults < MaxFaults /\ A /\ faults' = faults + 1

-----------------------------------------------------------------------------
\* Everything the channel does with the rows it is given.
ChannelStep ==
    \/ PollInflight
    \/ \E c \in Commands, v \in {"allow", "hold", "refuse"} : PollNext(c, v)
    \/ PollNothing
    \/ PollStamp
    \/ PollPush
    \/ GwSend
    \/ GwMarkDelivered
    \/ GwAck
    \/ GwResult
    \/ GwFinished
    \/ GwTyped
    \/ GwTypedDone
    \/ GwTypedReject
    \/ Revoke
    \/ AgentTake
    \/ AgentAck
    \/ AgentCached
    \/ \E c \in Commands : AgentReplay(c)
    \/ \E r \in {"ok", "error"} : AgentFinish(r)
    \/ AgentReport
    \/ AgentNotice
    \/ Connect
    \/ Fault(GatewayDrop)
    \/ Fault(AgentCrash)
    \/ Fault(AgentStop)

Next == (\E c \in Commands : CreateEntry(c)) \/ ChannelStep

Spec == Init /\ [][Next]_channelVars

-----------------------------------------------------------------------------
(* Properties.                                                             *)

Steps(pcs, results) == {Idle} \cup [pc : pcs, cmd : Commands, res : results]

Frames == [cmd : Commands, seq : Nat]
Reports == [kind : {"ack"}, cmd : Commands, res : {""}]
             \cup [kind : {"legacy", "typed"}, cmd : Commands, res : Outcomes]

OutboxType ==
    /\ status \in [Commands -> RowStates]
    /\ sequence \in [Commands -> Nat]
    /\ acked \in [Commands -> BOOLEAN]
    /\ result \in [Commands -> Outcomes \cup {"", "fenced"}]

GatewayType ==
    /\ gwUp \in BOOLEAN
    /\ poll \in Steps({"stamp", "push"}, {""}) \cup {At("clear", NoCommand, "")}
    /\ deliverCh \in Seq(Frames)
    /\ gw \in Steps({"sent"}, {""}) \cup Steps({"finish", "typed"}, Outcomes)

AgentType ==
    /\ agUp \in BOOLEAN
    /\ local \in [Commands -> {"none", "pending", "running"} \cup Outcomes]
    /\ lastSeq \in Nat
    /\ agent \in Steps({"saved", "running"}, {""}) \cup Steps({"done"}, Outcomes)
    /\ replay \in SUBSET Commands

TypeOK ==
    /\ OutboxType
    /\ GatewayType
    /\ AgentType
    /\ down \in Seq(Frames)
    /\ up \in Seq(Reports)
    /\ faults \in 0 .. MaxFaults

\* ACK_PERSISTED is sent only after the command is in the agent's store, so an
\* acknowledged row, and an acknowledgement still on the wire, always name a
\* command the agent would find again after a crash (handleCommand: Save, then
\* Send(ack)).
AckedIsDurable ==
    /\ \A c \in Commands : acked[c] => local[c] # "none"
    /\ \A i \in 1 .. Len(up) : up[i].kind = "ack" => local[up[i].cmd] # "none"

\* The agent never holds two unfinished commands: replayActive finishes what a
\* crash or a lost stream left behind before the loop takes the next frame,
\* whatever the gateway had in flight.
OneActive == \A c, d \in Active : c = d

\* A finished outbox row tells the truth about the cluster: what the gateway
\* recorded from a result is what the agent stored, through re-delivery,
\* replay, cached answers and lost streams. A fenced row is the exception the
\* gateway writes by itself.
ResultAgreement ==
    /\ \A c \in Commands :
          /\ status[c] = "succeeded" => local[c] = "ok"
          /\ status[c] = "failed" => result[c] = "fenced" \/ local[c] \in {"error", "cancelled"}
    /\ \A i \in 1 .. Len(up) : up[i].kind # "ack" => up[i].res = local[up[i].cmd]

\* A command whose result is stored is answered from the store and never run
\* again (handleCommand's terminal branch, replayActive's ListActive).
CompletedNeverRerun ==
    [][\A c \in Commands : local[c] \in Outcomes => local'[c] = local[c]]_channelVars

-----------------------------------------------------------------------------
(* What the documents say and the code does not do.                        *)

\* At most one command of an operator is in flight (deliverNextPending's
\* max_inflight check).
MaxInflightOne == \A c, d \in Commands : {status[c], status[d]} \subseteq InFlight => c = d

\* A preflight stage's result never travels as a typed upgrade result
\* (sendCommandResult's rule, which sendCachedResult does not follow).
StageResultsUntyped ==
    \A i \in 1 .. Len(up) : up[i].kind = "typed" => up[i].cmd \notin StageCommands

\* From some time on the two ends are connected for good.
StaysConnected == <>[](gwUp /\ agUp)

\* A delivered command the agent never stored is sent again after the last
\* reconnect (reDeliverFrom).
UnstoredIsRedelivered ==
    StaysConnected => \A c \in Commands :
        status[c] = "delivered" /\ ~acked[c] /\ local[c] = "none" ~> local[c] # "none"

\* A result the agent has stored reaches the outbox row, through replay after
\* the last reconnect if a stream was lost first (Agent.Run, executeEntry).
StoredResultReported ==
    StaysConnected => \A c \in Commands : local[c] \in Outcomes ~> status[c] \in RowDone

\* The loops that drive the channel: the poller's ticker, the stream loop, the
\* agent's command loop and its reconnect loop. Faults are not fair.
Fairness ==
    /\ WF_channelVars(PollInflight)
    /\ WF_channelVars(PollNothing)
    /\ \A c \in Commands : SF_channelVars(PollNext(c, "allow"))
    /\ WF_channelVars(PollStamp \/ PollPush)
    /\ WF_channelVars(GwSend \/ GwMarkDelivered \/ GwAck \/ GwResult \/ GwFinished \/ GwTyped \/ GwTypedDone)
    /\ WF_channelVars(AgentTake \/ AgentAck \/ AgentCached \/ AgentReport)
    /\ WF_channelVars(\E c \in Commands : AgentReplay(c))
    /\ WF_channelVars(\E r \in {"ok", "error"} : AgentFinish(r))
    /\ WF_channelVars(AgentNotice)
    /\ WF_channelVars(Connect)

FairSpec == Spec /\ Fairness

=============================================================================
