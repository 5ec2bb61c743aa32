----------------------- MODULE ReleaseOperationProofs -----------------------
(***************************************************************************)
(* Proofs about the command channel alone and about release operations     *)
(* over it, for any set of commands, operations and stages, any capacities *)
(* and any number of faults.                                               *)
(*                                                                         *)
(* None of the channel's properties is inductive by itself. ChannelInv     *)
(* adds what the two loops know at each program counter: what the agent    *)
(* holds is what its store says, everything unfinished is either in the    *)
(* agent's hands or waiting for replay, and a result in the gateway's      *)
(* hands is the stored one.                                                *)
(*                                                                         *)
(* The channel inside the composition is the channel of CommandChannel, so *)
(* that its theorems carry over; the operations table keeps the promise of *)
(* OperationLifecycle, a release write exists only after its operation was *)
(* queued, and an operation that is recorded succeeded has a success in    *)
(* the agent's store behind it.                                            *)
(***************************************************************************)
EXTENDS ReleaseOperation, TLAPS

-----------------------------------------------------------------------------
(* The strengthening.                                                      *)

\* No statement of the code stores a sequence number in the table.
SequenceUnset == \A c \in Commands : sequence[c] = 0

\* At each step of the command loop the store says what the loop relies on.
AgentHolds ==
    /\ agent.pc = "saved" => local[agent.cmd] = "pending"
    /\ agent.pc = "running" => local[agent.cmd] = "running"
    /\ agent.pc = "done" => local[agent.cmd] = agent.res

\* Everything unfinished is in the loop's hands or still to be replayed.
ReplayCovers ==
    /\ replay \subseteq Active
    /\ agent.cmd \notin replay
    /\ agUp => Active \subseteq replay \cup {agent.cmd}
    /\ ~agUp => agent = Idle

\* The result the gateway is applying is the one the agent stored.
GatewayHolds == gw.pc \in {"finish", "typed"} => local[gw.cmd] = gw.res

\* Every report on the wire names a stored command, and tells its stored result.
Honest ==
    {m \in Reports : /\ m.kind = "ack" => local[m.cmd] # "none"
                     /\ m.kind # "ack" => m.res = local[m.cmd]}

ChannelInv ==
    /\ TypeOK
    /\ SequenceUnset
    /\ AgentHolds
    /\ ReplayCovers
    /\ GatewayHolds
    /\ up \in Seq(Honest)
    /\ AckedIsDurable
    /\ OneActive
    /\ ResultAgreement

-----------------------------------------------------------------------------
(* Lemmas about the operators.                                             *)

\* Elements of a queue, taking its head, adding to it, and the empty queue.
LEMMA Element ==
    ASSUME NEW S, NEW s \in Seq(S), NEW n \in 1 .. Len(s)
    PROVE  s[n] \in S
  OBVIOUS

LEMMA Dequeued ==
    ASSUME NEW S, NEW s \in Seq(S), s # <<>>
    PROVE  /\ Head(s) \in S /\ Tail(s) \in Seq(S)
           /\ Len(Tail(s)) = Len(s) - 1
           /\ \A i \in 1 .. Len(Tail(s)) : Tail(s)[i] = s[i + 1]
  OBVIOUS

LEMMA Enqueued ==
    ASSUME NEW S, NEW s \in Seq(S), NEW e \in S
    PROVE  /\ Append(s, e) \in Seq(S) /\ Append(s, e) # <<>>
           /\ Len(Append(s, e)) = Len(s) + 1
           /\ \A i \in 1 .. Len(s) : Append(s, e)[i] = s[i]
           /\ Append(s, e)[Len(s) + 1] = e
  OBVIOUS

LEMMA Unqueued ==
    ASSUME NEW S
    PROVE  <<>> \in Seq(S) /\ Len(<<>>) = 0
  OBVIOUS

LEMMA Widened ==
    ASSUME NEW S, NEW T, NEW s \in Seq(S), S \subseteq T
    PROVE  s \in Seq(T)
  OBVIOUS

\* GetNextSequence always answers 1: the greatest stored sequence is 0.
LEMMA MaxSequenceIsZero ==
    ASSUME SequenceUnset
    PROVE  MaxSequence = 0
<1>1. {sequence[c] : c \in Commands} \cup {0} = {0}
  BY Zenon DEF SequenceUnset
<1>2. Max({0}) = 0
  BY DEF Max
<1> QED BY <1>1, <1>2, Zenon DEF MaxSequence

\* reDeliverFrom finds no row: no stored sequence exceeds the agent's.
LEMMA NothingReDelivered ==
    ASSUME TypeOK, SequenceUnset
    PROVE  ReDelivered(lastSeq) = {}
<1>1. lastSeq \in Nat
  BY Zenon DEF TypeOK, AgentType
<1>2. \A c \in Commands : ~(sequence[c] > lastSeq)
  BY <1>1 DEF SequenceUnset
<1> QED BY <1>2, Zenon DEF ReDelivered

\* Hello therefore sends no frame and leaves the table alone.
LEMMA ConnectSendsNothing ==
    ASSUME TypeOK, SequenceUnset, Connect
    PROVE  down' = <<>> /\ status' = status /\ result' = result
<1> DEFINE again == ReDelivered(lastSeq)
<1>1. again = {}
  BY NothingReDelivered, Zenon
<1>2. status' = status /\ result' = result
  BY <1>1, Zenon DEF Connect, TypeOK, OutboxType
<1>3. PICK order \in [1 .. Cardinality(again) -> again] :
        down' = [i \in DOMAIN order |-> Frame(order[i], sequence[order[i]])]
  BY Zenon DEF Connect
<1>4. \A i \in DOMAIN order : order[i] \in again
  BY <1>3, Zenon
<1>5. DOMAIN order = {}
  BY <1>1, <1>4, Zenon
<1>6. 1 .. 0 = {}
  OBVIOUS
<1>7. DOMAIN down' = 1 .. 0 /\ down' = [i \in 1 .. 0 |-> down'[i]]
  BY <1>3, <1>5, <1>6, Zenon
<1>8. down' = <<>>
  BY <1>6, <1>7
<1> QED BY <1>2, <1>8, Zenon

-----------------------------------------------------------------------------
(* Initial states.                                                         *)

LEMMA ChannelInitInv == Init => ChannelInv
<1> SUFFICES ASSUME Init PROVE ChannelInv
  BY Zenon
<1>0. /\ deliverCh \in Seq(Frames) /\ down \in Seq(Frames)
      /\ up \in Seq(Reports) /\ up \in Seq(Honest) /\ Len(up) = 0
  BY Unqueued, Zenon DEF Init
<1>1. OutboxType
  BY Zenon DEF Init, OutboxType, RowStates
<1>2. GatewayType
  BY <1>0, Zenon DEF Init, GatewayType, Steps
<1>3. AgentType
  BY Zenon DEF Init, AgentType, Steps
<1>9. faults \in 0 .. MaxFaults
  <2>1. faults = 0 /\ MaxFaults \in Nat
    BY ChannelAssumption, Zenon DEF Init
  <2> QED BY <2>1
<1>4. TypeOK
  BY <1>0, <1>1, <1>2, <1>3, <1>9, Zenon DEF TypeOK
<1>5. Active = {}
  BY Zenon DEF Init, Active
<1>6. SequenceUnset /\ AgentHolds /\ GatewayHolds
  BY Zenon DEF Init, SequenceUnset, AgentHolds, GatewayHolds, Idle
<1>7. ReplayCovers /\ OneActive
  BY <1>5, Zenon DEF Init, ReplayCovers, OneActive
<1>10. 1 .. Len(up) = {}
  BY <1>0
<1>8. AckedIsDurable /\ ResultAgreement
  BY <1>10, Zenon DEF Init, AckedIsDurable, ResultAgreement
<1> QED BY <1>0, <1>4, <1>6, <1>7, <1>8, Zenon DEF ChannelInv

-----------------------------------------------------------------------------
(* Types, one part of the state at a time.                                 *)

\* Program counters: their fields, and what they say about the command in hand.
LEMMA IdleFields == Idle.pc = "idle" /\ Idle.cmd = NoCommand /\ Idle.res = ""
  BY Zenon DEF Idle

LEMMA AtFields ==
    ASSUME NEW p, NEW c, NEW r
    PROVE  At(p, c, r).pc = p /\ At(p, c, r).cmd = c /\ At(p, c, r).res = r
  BY Zenon DEF At

LEMMA StepTypes ==
    ASSUME NEW pcs, NEW results, NEW c \in Commands, NEW p \in pcs, NEW r \in results
    PROVE  At(p, c, r) \in Steps(pcs, results) /\ Idle \in Steps(pcs, results)
  BY Zenon DEF At, Steps

LEMMA PollTypes ==
    ASSUME GatewayType, poll.pc \in {"stamp", "push"}
    PROVE  poll.cmd \in Commands
<1>1. poll \in Steps({"stamp", "push"}, {""}) \/ poll = At("clear", NoCommand, "")
  BY Zenon DEF GatewayType
<1>2. poll.pc = "clear" \/ poll.pc = "idle" \/ poll.cmd \in Commands
  <2>1. CASE poll = At("clear", NoCommand, "")
    BY <2>1, AtFields, Zenon
  <2>2. CASE poll \in Steps({"stamp", "push"}, {""})
    BY <2>2, IdleFields, Zenon DEF Steps
  <2> QED BY <1>1, <2>1, <2>2, Zenon
<1> QED BY <1>2, Zenon

LEMMA GatewayTypes ==
    ASSUME GatewayType
    PROVE  /\ gw.pc = "sent" => gw.cmd \in Commands
           /\ gw.pc \in {"finish", "typed"} => gw.cmd \in Commands /\ gw.res \in Outcomes
<1>1. gw \in Steps({"sent"}, {""}) \/ gw \in Steps({"finish", "typed"}, Outcomes)
  BY Zenon DEF GatewayType
<1>2. \/ gw.pc = "idle"
      \/ gw.pc = "sent" /\ gw.cmd \in Commands
      \/ gw.pc \in {"finish", "typed"} /\ gw.cmd \in Commands /\ gw.res \in Outcomes
  BY <1>1, IdleFields, Zenon DEF Steps
<1> QED BY <1>2, Zenon

LEMMA AgentTypes ==
    ASSUME AgentType
    PROVE  /\ agent.pc \in {"saved", "running"} => agent.cmd \in Commands /\ agent.res = ""
           /\ agent.pc = "done" => agent.cmd \in Commands /\ agent.res \in Outcomes
           /\ agent.pc \in {"idle", "saved", "running", "done"}
           /\ agent.pc = "idle" => agent = Idle
           /\ agent.cmd \in Commands \cup {NoCommand}
<1>1. agent \in Steps({"saved", "running"}, {""}) \/ agent \in Steps({"done"}, Outcomes)
  BY Zenon DEF AgentType
<1>2. \/ agent = Idle
      \/ agent.pc \in {"saved", "running"} /\ agent.cmd \in Commands /\ agent.res = ""
      \/ agent.pc = "done" /\ agent.cmd \in Commands /\ agent.res \in Outcomes
  BY <1>1, Zenon DEF Steps
<1> QED BY <1>2, IdleFields, Zenon

LEMMA ReportTypes ==
    ASSUME TypeOK, up # <<>>
    PROVE  /\ Head(up).cmd \in Commands
           /\ Head(up).kind # "ack" => Head(up).res \in Outcomes
           /\ Tail(up) \in Seq(Reports)
<1>1. Head(up) \in Reports /\ Tail(up) \in Seq(Reports)
  BY Dequeued, Zenon DEF TypeOK
<1> QED BY <1>1, Zenon DEF Reports

LEMMA FrameTypes ==
    ASSUME NEW s \in Seq(Frames), s # <<>>
    PROVE  /\ Head(s) \in Frames
           /\ Head(s).cmd \in Commands
           /\ Head(s).seq \in Nat
           /\ Tail(s) \in Seq(Frames)
<1>1. Head(s) \in Frames /\ Tail(s) \in Seq(Frames)
  BY Dequeued, Zenon
<1> QED BY <1>1, Zenon DEF Frames

LEMMA UpdateStatusType ==
    ASSUME OutboxType, NEW c \in Commands, NEW s \in RowStates,
           NEW r \in Outcomes \cup {"", "fenced"}, UpdateStatus(c, s, r)
    PROVE  OutboxType'
  BY Zenon DEF OutboxType, UpdateStatus

LEMMA OutboxTypeStep ==
    ASSUME TypeOK, SequenceUnset, Next
    PROVE  OutboxType'
<1> USE DEF TypeOK
<1>1. ASSUME NEW c \in Commands, CreateEntry(c) PROVE OutboxType'
  BY <1>1, Zenon DEF CreateEntry, OutboxType, RowStates
<1>2. ASSUME NEW c \in Commands, NEW v, PollNext(c, v) PROVE OutboxType'
  <2>1. CASE UNCHANGED outboxVars
    BY <2>1, Zenon DEF outboxVars, OutboxType
  <2>2. CASE UpdateStatus(c, "failed", "fenced")
    BY <2>2, UpdateStatusType, Zenon DEF RowStates
  <2> QED BY <1>2, <2>1, <2>2, Zenon DEF PollNext
<1>3. CASE PollStamp
  BY <1>3, PollTypes, UpdateStatusType, Zenon DEF PollStamp, RowStates
<1>4. CASE GwMarkDelivered
  BY <1>4, GatewayTypes, UpdateStatusType, Zenon DEF GwMarkDelivered, RowStates
<1>5. CASE GwAck
  BY <1>5, ReportTypes, Zenon DEF GwAck, OutboxType, RowStates
<1>6. CASE GwResult
  <2>1. Head(up).cmd \in Commands /\ Head(up).res \in Outcomes
    BY <1>6, ReportTypes, Zenon DEF GwResult
  <2>2. CASE UNCHANGED outboxVars
    BY <2>2, Zenon DEF outboxVars, OutboxType
  <2>3. CASE UpdateStatus(Head(up).cmd, RowStatusOf(Head(up).res), Head(up).res)
    BY <2>1, <2>3, UpdateStatusType, Zenon DEF RowStates, RowStatusOf
  <2> QED BY <1>6, <2>2, <2>3, Zenon DEF GwResult
<1>7. CASE GwTypedDone
  BY <1>7, GatewayTypes, UpdateStatusType, Zenon DEF GwTypedDone, RowStates, RowStatusOf
<1>8. CASE Connect
  BY <1>8, ConnectSendsNothing, Zenon DEF Connect, OutboxType
<1>9. CASE UNCHANGED outboxVars
  BY <1>9, Zenon DEF outboxVars, OutboxType
<1> QED
  BY <1>1, <1>2, <1>3, <1>4, <1>5, <1>6, <1>7, <1>8, <1>9, Zenon
  DEF Next, ChannelStep, PollInflight, PollNothing, PollPush, GwSend, GwFinished, GwTyped, GwTypedReject,
      Revoke, GatewayDrop, AgentTake, AgentAck, AgentCached, AgentReplay, AgentFinish,
      AgentReport, AgentNotice, Fault, AgentCrash, AgentStop

LEMMA GatewayTypeStep ==
    ASSUME TypeOK, SequenceUnset, Next
    PROVE  GatewayType'
<1> DEFINE Polls == Steps({"stamp", "push"}, {""}) \cup {At("clear", NoCommand, "")}
           Gws == Steps({"sent"}, {""}) \cup Steps({"finish", "typed"}, Outcomes)
<1>0. /\ gwUp \in BOOLEAN /\ poll \in Polls /\ deliverCh \in Seq(Frames) /\ gw \in Gws
      /\ Idle \in Polls /\ Idle \in Gws /\ <<>> \in Seq(Frames)
      /\ GatewayType' <=> /\ gwUp' \in BOOLEAN /\ poll' \in Polls
                          /\ deliverCh' \in Seq(Frames) /\ gw' \in Gws
  <2>1. GatewayType
    BY Zenon DEF TypeOK
  <2>2. Idle \in Polls /\ Idle \in Gws
    BY Zenon DEF Steps
  <2> QED BY <2>1, <2>2, Unqueued, Zenon DEF GatewayType
<1> HIDE DEF Polls, Gws
<1>1. CASE PollInflight
  BY <1>0, <1>1, Zenon DEF PollInflight, Polls
<1>2. ASSUME NEW c \in Commands, NEW v, PollNext(c, v) PROVE GatewayType'
  <2>1. At("stamp", c, "") \in Polls
    BY StepTypes, Zenon DEF Polls
  <2> QED BY <1>0, <1>2, <2>1, Zenon DEF PollNext
<1>3. CASE PollNothing
  BY <1>0, <1>3, Zenon DEF PollNothing
<1>4. CASE PollStamp
  <2>1. At("push", poll.cmd, "") \in Polls
    BY <1>4, PollTypes, StepTypes, Zenon DEF Polls, PollStamp, TypeOK
  <2> QED BY <1>0, <1>4, <2>1, Zenon DEF PollStamp
<1>5. CASE PollPush
  <2>1. Frame(poll.cmd, MaxSequence + 1) \in Frames
    BY <1>5, PollTypes, MaxSequenceIsZero DEF PollPush, TypeOK, Frame, Frames
  <2> QED BY <1>0, <1>5, <2>1, Enqueued, Zenon DEF PollPush
<1>6. CASE GwSend
  <2>1. Head(deliverCh).cmd \in Commands /\ Tail(deliverCh) \in Seq(Frames)
    BY <1>0, <1>6, FrameTypes, Zenon DEF GwSend
  <2>2. At("sent", Head(deliverCh).cmd, "") \in Gws
    BY <2>1, StepTypes, Zenon DEF Gws
  <2> QED BY <1>0, <1>6, <2>1, <2>2, Zenon DEF GwSend
<1>7. CASE GwMarkDelivered \/ GwFinished \/ GwTypedDone
  BY <1>0, <1>7, Zenon DEF GwMarkDelivered, GwFinished, GwTypedDone
<1>8. CASE GwResult
  <2>1. At("finish", Head(up).cmd, Head(up).res) \in Gws
    BY <1>8, ReportTypes, StepTypes, Zenon DEF GwResult, Gws
  <2> QED BY <1>0, <1>8, <2>1, Zenon DEF GwResult
<1>9. CASE GwTyped
  <2>1. At("typed", Head(up).cmd, Head(up).res) \in Gws
    BY <1>9, ReportTypes, StepTypes, Zenon DEF GwTyped, Gws
  <2> QED BY <1>0, <1>9, <2>1, Zenon DEF GwTyped
<1>10. CASE GatewayDown \/ Connect
  BY <1>0, <1>10, Zenon DEF GatewayDown, Connect
<1>11. CASE UNCHANGED gatewayVars
  BY <1>0, <1>11, Zenon DEF gatewayVars
<1> QED
  BY <1>1, <1>2, <1>3, <1>4, <1>5, <1>6, <1>7, <1>8, <1>9, <1>10, <1>11, Zenon
  DEF Next, ChannelStep, CreateEntry, GwAck, GwTypedReject, Revoke, GatewayDrop, AgentTake, AgentAck,
      AgentCached, AgentReplay, AgentFinish, AgentReport, AgentNotice, Fault, AgentCrash, AgentStop

LEMMA AgentTypeStep ==
    ASSUME TypeOK, Next
    PROVE  AgentType'
<1> DEFINE Locals == {"none", "pending", "running"} \cup Outcomes
           Agents == Steps({"saved", "running"}, {""}) \cup Steps({"done"}, Outcomes)
<1>0. /\ agUp \in BOOLEAN /\ local \in [Commands -> Locals] /\ lastSeq \in Nat
      /\ agent \in Agents /\ replay \in SUBSET Commands /\ Idle \in Agents
      /\ AgentType' <=> /\ agUp' \in BOOLEAN /\ local' \in [Commands -> Locals] /\ lastSeq' \in Nat
                        /\ agent' \in Agents /\ replay' \in SUBSET Commands
  <2>1. AgentType
    BY Zenon DEF TypeOK
  <2>2. Idle \in Agents
    BY Zenon DEF Steps
  <2> QED BY <2>1, <2>2, Zenon DEF AgentType
<1>a. \A c \in Commands : At("saved", c, "") \in Agents /\ At("running", c, "") \in Agents
  BY StepTypes, Zenon
<1>b. \A c \in Commands, r \in Outcomes : At("done", c, r) \in Agents
  BY StepTypes, Zenon
<1> HIDE DEF Agents
<1>1. CASE AgentTake
  <2>1. Head(down).cmd \in Commands /\ Head(down).seq \in Nat
    BY <1>1, FrameTypes, Zenon DEF AgentTake, TypeOK
  <2> QED BY <1>0, <1>a, <1>1, <2>1, Zenon DEF AgentTake
<1>2. CASE AgentAck
  <2>1. agent.cmd \in Commands
    BY <1>2, AgentTypes, Zenon DEF AgentAck, TypeOK
  <2> QED BY <1>0, <1>a, <1>2, <2>1, Zenon DEF AgentAck
<1>3. ASSUME NEW c \in Commands, AgentReplay(c) PROVE AgentType'
  BY <1>0, <1>a, <1>3, Zenon DEF AgentReplay
<1>4. ASSUME NEW r \in {"ok", "error"}, AgentFinish(r) PROVE AgentType'
  <2>1. agent.cmd \in Commands /\ r \in Outcomes
    BY <1>4, AgentTypes, Zenon DEF AgentFinish, TypeOK, Outcomes
  <2> QED BY <1>0, <1>b, <1>4, <2>1, Zenon DEF AgentFinish
<1>5. CASE AgentReport
  BY <1>0, <1>5, Zenon DEF AgentReport
<1>6. CASE AgentNotice \/ AgentCrash
  BY <1>0, <1>6, Zenon DEF AgentNotice, AgentCrash
<1>7. CASE AgentStop
  <2>1. agent.cmd \in Commands
    BY <1>7, AgentTypes, Zenon DEF AgentStop, TypeOK
  <2> QED BY <1>0, <1>7, <2>1, Zenon DEF AgentStop, Outcomes
<1>8. CASE Connect
  BY <1>0, <1>8, Zenon DEF Connect, Active
<1>9. CASE UNCHANGED agentVars
  BY <1>0, <1>9, Zenon DEF agentVars
<1> QED
  BY <1>1, <1>2, <1>3, <1>4, <1>5, <1>6, <1>7, <1>8, <1>9, Zenon
  DEF Next, ChannelStep, CreateEntry, PollInflight, PollNext, PollNothing, PollStamp, PollPush, GwSend,
      GwMarkDelivered, GwAck, GwResult, GwFinished, GwTyped, GwTypedDone, GwTypedReject,
      Revoke, GatewayDrop, AgentCached, Fault

LEMMA DownTypeStep ==
    ASSUME TypeOK, SequenceUnset, Next
    PROVE  down' \in Seq(Frames)
<1>0. down \in Seq(Frames) /\ deliverCh \in Seq(Frames) /\ <<>> \in Seq(Frames)
  BY Unqueued, Zenon DEF TypeOK, GatewayType
<1>1. CASE GwSend
  <2>1. Head(deliverCh) \in Frames
    BY <1>0, <1>1, FrameTypes, Zenon DEF GwSend
  <2> QED BY <1>0, <1>1, <2>1, Enqueued, Zenon DEF GwSend
<1>2. CASE down # <<>> /\ down' = Tail(down)
  BY <1>0, <1>2, FrameTypes, Zenon
<1>3. CASE down' = <<>> \/ down' = down
  BY <1>0, <1>3, Zenon
<1>4. CASE Connect
  BY <1>0, <1>4, ConnectSendsNothing, Zenon
<1> QED
  BY <1>1, <1>2, <1>3, <1>4, Zenon
  DEF Next, ChannelStep, CreateEntry, PollInflight, PollNext, PollNothing, PollStamp, PollPush,
      GwMarkDelivered, GwAck, GwResult, GwFinished, GwTyped, GwTypedDone, GwTypedReject,
      Revoke, GatewayDrop, AgentTake, AgentAck, AgentCached, AgentReplay, AgentFinish,
      AgentReport, AgentNotice, Fault, AgentCrash, AgentStop

\* What can happen to the frames the agent sends: nothing, all are lost, the
\* gateway reads one, or the agent adds an acknowledgement or a result.
LEMMA UpSteps ==
    ASSUME Next
    PROVE  \/ up' = up \/ up' = <<>>
           \/ up # <<>> /\ up' = Tail(up)
           \/ AgentAck /\ up' = Append(up, Ack(agent.cmd))
           \/ /\ AgentReport
              /\ up' = Append(up, Result(ResultShape(agent.cmd), agent.cmd, agent.res))
           \/ /\ AgentCached
              /\ LET c == Head(down).cmd IN up' = Append(up, Result(CachedShape(c), c, local[c]))
<1>1. CASE AgentAck
  BY <1>1, Zenon DEF AgentAck, AgentSends
<1>2. CASE AgentReport
  BY <1>2, Zenon DEF AgentReport, AgentSends
<1>3. CASE AgentCached
  BY <1>3, Zenon DEF AgentCached, AgentSends
<1>4. CASE GwAck \/ GwResult \/ GwTyped
  BY <1>4, Zenon DEF GwAck, GwResult, GwTyped
<1>5. CASE up' = up \/ up' = <<>>
  BY <1>5, Zenon
<1> QED
  BY <1>1, <1>2, <1>3, <1>4, <1>5, Zenon
  DEF Next, ChannelStep, CreateEntry, PollInflight, PollNext, PollNothing, PollStamp, PollPush, GwSend,
      GwMarkDelivered, GwFinished, GwTypedDone, GwTypedReject, Revoke, GatewayDrop,
      GatewayDown, AgentTake, AgentReplay, AgentFinish, AgentNotice, Connect, Fault,
      AgentCrash, AgentStop

LEMMA ReportsBuilt ==
    /\ \A c \in Commands : Ack(c) \in Reports
    /\ \A c \in Commands, r \in Outcomes :
          Result(ResultShape(c), c, r) \in Reports /\ Result(CachedShape(c), c, r) \in Reports
  BY Zenon DEF Ack, Result, ResultShape, CachedShape, Reports

LEMMA UpTypeStep ==
    ASSUME TypeOK, Next
    PROVE  up' \in Seq(Reports)
<1>0. up \in Seq(Reports) /\ <<>> \in Seq(Reports)
  BY Unqueued, Zenon DEF TypeOK
<1>1. CASE up' = up \/ up' = <<>>
  BY <1>0, <1>1, Zenon
<1>2. CASE up # <<>> /\ up' = Tail(up)
  BY <1>2, ReportTypes, Zenon
<1>3. CASE AgentAck /\ up' = Append(up, Ack(agent.cmd))
  <2>1. Ack(agent.cmd) \in Reports
    BY <1>3, AgentTypes, ReportsBuilt, Zenon DEF AgentAck, TypeOK
  <2> QED BY <1>0, <1>3, <2>1, Enqueued, Zenon
<1>4. CASE AgentReport /\ up' = Append(up, Result(ResultShape(agent.cmd), agent.cmd, agent.res))
  <2>1. Result(ResultShape(agent.cmd), agent.cmd, agent.res) \in Reports
    BY <1>4, AgentTypes, ReportsBuilt, Zenon DEF AgentReport, TypeOK
  <2> QED BY <1>0, <1>4, <2>1, Enqueued, Zenon
<1>5. ASSUME AgentCached, NEW c, c = Head(down).cmd,
             up' = Append(up, Result(CachedShape(c), c, local[c]))
      PROVE  up' \in Seq(Reports)
  <2>1. c \in Commands /\ local[c] \in Outcomes
    BY <1>5, FrameTypes, Zenon DEF AgentCached, TypeOK
  <2>2. Result(CachedShape(c), c, local[c]) \in Reports
    BY <2>1, ReportsBuilt, Zenon
  <2> QED BY <1>0, <1>5, <2>2, Enqueued, Zenon
<1> QED BY <1>1, <1>2, <1>3, <1>4, <1>5, UpSteps, Zenon

LEMMA TypeStep ==
    ASSUME TypeOK, SequenceUnset, [Next]_channelVars
    PROVE  TypeOK' /\ SequenceUnset'
<1>1. CASE Next
  <2>1. sequence' = sequence
    BY <1>1, Zenon
    DEF Next, ChannelStep, CreateEntry, PollInflight, PollNext, UpdateStatus, outboxVars, PollNothing,
        PollStamp, PollPush, GwSend, GwMarkDelivered, GwAck, GwResult, GwFinished, GwTyped,
        GwTypedDone, GwTypedReject, Revoke, GatewayDrop, AgentTake, AgentAck, AgentCached,
        AgentReplay, AgentFinish, AgentReport, AgentNotice, Connect, Fault, AgentCrash, AgentStop
  <2>2. SequenceUnset'
    BY <2>1, Zenon DEF SequenceUnset
  <2>3. faults' = faults \/ (faults < MaxFaults /\ faults' = faults + 1)
    BY <1>1, Zenon
    DEF Next, ChannelStep, CreateEntry, PollInflight, PollNext, PollNothing, PollStamp, PollPush, GwSend,
        GwMarkDelivered, GwAck, GwResult, GwFinished, GwTyped, GwTypedDone, GwTypedReject,
        Revoke, AgentTake, AgentAck, AgentCached, AgentReplay, AgentFinish, AgentReport,
        AgentNotice, Connect, Fault
  <2>4. faults \in 0 .. MaxFaults /\ MaxFaults \in Nat
    BY ChannelAssumption, Zenon DEF TypeOK
  <2>5. faults' \in 0 .. MaxFaults
    BY <2>3, <2>4
  <2>6. OutboxType' /\ GatewayType' /\ AgentType' /\ down' \in Seq(Frames) /\ up' \in Seq(Reports)
    BY <1>1, OutboxTypeStep, GatewayTypeStep, AgentTypeStep, DownTypeStep, UpTypeStep, Zenon
  <2> QED BY <2>2, <2>5, <2>6, Zenon DEF TypeOK
<1>2. CASE UNCHANGED channelVars
  <2>1. OutboxType' /\ SequenceUnset'
    BY <1>2, Zenon DEF channelVars, TypeOK, OutboxType, SequenceUnset
  <2>2. GatewayType' /\ AgentType'
    BY <1>2, Zenon DEF channelVars, TypeOK, GatewayType, AgentType
  <2>3. UNCHANGED <<down, up, faults>>
    BY <1>2, Zenon DEF channelVars
  <2> QED BY <2>1, <2>2, <2>3, Zenon DEF TypeOK
<1> QED BY <1>1, <1>2, Zenon

-----------------------------------------------------------------------------
(* The agent's store and command loop.                                     *)

\* What an action may do to the loop: only these touch it.
LEMMA AgentSteps ==
    ASSUME Next
    PROVE  \/ AgentTake
           \/ AgentAck
           \/ \E c \in Commands : AgentReplay(c)
           \/ \E r \in {"ok", "error"} : AgentFinish(r)
           \/ AgentReport
           \/ /\ ~agUp' /\ agent' = Idle /\ replay' = {}
              /\ local' = local \/ AgentStop
           \/ /\ ~agUp /\ replay' = Active
              /\ UNCHANGED <<local, agent>>
           \/ UNCHANGED agentVars
<1>1. CASE AgentNotice \/ Fault(AgentCrash) \/ Fault(AgentStop)
  BY <1>1, Zenon DEF AgentNotice, Fault, AgentCrash, AgentStop
<1>2. CASE Connect
  BY <1>2, Zenon DEF Connect
<1> QED
  BY <1>1, <1>2, Zenon
  DEF Next, ChannelStep, CreateEntry, PollInflight, PollNext, PollNothing, PollStamp, PollPush, GwSend,
      GwMarkDelivered, GwAck, GwResult, GwFinished, GwTyped, GwTypedDone, GwTypedReject,
      Revoke, GatewayDrop, AgentCached, Fault

\* A stored command stays stored, and a stored result is never replaced.
LEMMA StoreGrows ==
    ASSUME TypeOK, AgentHolds, ReplayCovers, Next, NEW c \in Commands
    PROVE  /\ local[c] # "none" => local'[c] # "none"
           /\ local[c] \in Outcomes => local'[c] = local[c]
<1>0. /\ local \in [Commands -> {"none", "pending", "running"} \cup Outcomes]
      /\ AgentType
  BY Zenon DEF TypeOK, AgentType
<1>1. CASE AgentTake
  <2>1. Head(down).cmd \in Commands
    BY <1>1, FrameTypes, Zenon DEF AgentTake, TypeOK
  <2> QED BY <1>0, <1>1, <2>1, Zenon DEF AgentTake, Outcomes
<1>2. CASE AgentAck
  BY <1>0, <1>2, AgentTypes, Zenon DEF AgentAck, AgentHolds, Outcomes
<1>3. ASSUME NEW d \in Commands, AgentReplay(d)
      PROVE  /\ local[c] # "none" => local'[c] # "none"
             /\ local[c] \in Outcomes => local'[c] = local[c]
  <2>1. d \in Active
    BY <1>3, Zenon DEF AgentReplay, ReplayCovers
  <2> QED BY <1>0, <1>3, <2>1, Zenon DEF AgentReplay, Active, Outcomes
<1>4. ASSUME NEW r \in {"ok", "error"}, AgentFinish(r)
      PROVE  /\ local[c] # "none" => local'[c] # "none"
             /\ local[c] \in Outcomes => local'[c] = local[c]
  BY <1>0, <1>4, AgentTypes, Zenon DEF AgentFinish, AgentHolds, Outcomes
<1>5. CASE AgentStop
  BY <1>0, <1>5, AgentTypes, Zenon DEF AgentStop, AgentHolds, Outcomes
<1>6. CASE local' = local
  BY <1>6, Zenon
<1> QED BY <1>1, <1>2, <1>3, <1>4, <1>5, <1>6, AgentSteps, Zenon DEF AgentReport, agentVars

LEMMA AgentHoldsStep ==
    ASSUME TypeOK, AgentHolds, ReplayCovers, Next
    PROVE  AgentHolds'
<1>0. local \in [Commands -> {"none", "pending", "running"} \cup Outcomes] /\ AgentType
  BY Zenon DEF TypeOK, AgentType
<1>1. CASE AgentTake
  <2>1. Head(down).cmd \in Commands
    BY <1>1, FrameTypes, Zenon DEF AgentTake, TypeOK
  <2>2. CASE local[Head(down).cmd] = "none"
    <3>1. agent' = At("saved", Head(down).cmd, "") /\ local'[Head(down).cmd] = "pending"
      BY <1>0, <1>1, <2>1, <2>2, Zenon DEF AgentTake
    <3>2. agent'.pc = "saved" /\ agent'.cmd = Head(down).cmd
      BY <3>1, Zenon DEF At
    <3> QED BY <3>1, <3>2, Zenon DEF AgentHolds
  <2>3. CASE local[Head(down).cmd] # "none"
    <3>1. agent' = At("running", Head(down).cmd, "") /\ local'[Head(down).cmd] = "running"
      BY <1>0, <1>1, <2>1, <2>3, Zenon DEF AgentTake
    <3>2. agent'.pc = "running" /\ agent'.cmd = Head(down).cmd
      BY <3>1, Zenon DEF At
    <3> QED BY <3>1, <3>2, Zenon DEF AgentHolds
  <2> QED BY <2>2, <2>3, Zenon
<1>2. CASE AgentAck
  <2>1. agent' = At("running", agent.cmd, "") /\ local'[agent.cmd] = "running"
    BY <1>0, <1>2, AgentTypes, Zenon DEF AgentAck
  <2>2. agent'.pc = "running" /\ agent'.cmd = agent.cmd
    BY <2>1, Zenon DEF At
  <2> QED BY <2>1, <2>2, Zenon DEF AgentHolds
<1>3. ASSUME NEW c \in Commands, AgentReplay(c) PROVE AgentHolds'
  <2>1. agent' = At("running", c, "") /\ local'[c] = "running"
    BY <1>0, <1>3, Zenon DEF AgentReplay
  <2>2. agent'.pc = "running" /\ agent'.cmd = c
    BY <2>1, Zenon DEF At
  <2> QED BY <2>1, <2>2, Zenon DEF AgentHolds
<1>4. ASSUME NEW r \in {"ok", "error"}, AgentFinish(r) PROVE AgentHolds'
  <2>1. agent' = At("done", agent.cmd, r) /\ local'[agent.cmd] = r
    BY <1>0, <1>4, AgentTypes, Zenon DEF AgentFinish
  <2>2. agent'.pc = "done" /\ agent'.cmd = agent.cmd /\ agent'.res = r
    BY <2>1, Zenon DEF At
  <2> QED BY <2>1, <2>2, Zenon DEF AgentHolds
<1>5. CASE agent' = Idle
  BY <1>5, IdleFields, Zenon DEF AgentHolds
<1>6. CASE UNCHANGED <<local, agent>>
  BY <1>6, Zenon DEF AgentHolds
<1> QED BY <1>1, <1>2, <1>3, <1>4, <1>5, <1>6, AgentSteps, Zenon DEF AgentReport, agentVars

LEMMA ReplayStep ==
    ASSUME TypeOK, AgentHolds, ReplayCovers, OneActive, Next
    PROVE  ReplayCovers' /\ OneActive'
<1>0. /\ local \in [Commands -> {"none", "pending", "running"} \cup Outcomes]
      /\ AgentType /\ agUp \in BOOLEAN
  BY Zenon DEF TypeOK, AgentType
<1>a. NoCommand \notin Commands /\ NoCommand \notin Active
  BY ChannelAssumption, Zenon DEF Active
<1>1. CASE AgentTake
  <2> DEFINE c == Head(down).cmd
  <2>1. c \in Commands
    BY <1>1, FrameTypes, Zenon DEF AgentTake, TypeOK
  <2>2. agUp /\ agUp' /\ replay = {} /\ replay' = {} /\ agent.cmd = NoCommand
    BY <1>1, IdleFields, Zenon DEF AgentTake, CanTake
  <2>3. Active = {}
    BY <1>a, <2>2, Zenon DEF ReplayCovers
  <2>4. \A d \in Commands : d # c => local'[d] = local[d]
    BY <1>0, <1>1, <2>1, Zenon DEF AgentTake
  <2>5. Active' \subseteq {c}
    BY <2>3, <2>4, Zenon DEF Active
  <2>6. agent'.cmd = c
    BY <1>1, Zenon DEF AgentTake, At
  <2> QED BY <2>2, <2>5, <2>6, Zenon DEF ReplayCovers, OneActive
<1>2. CASE AgentAck
  <2>1. agent.cmd \in Commands /\ local[agent.cmd] = "pending"
    BY <1>0, <1>2, AgentTypes, Zenon DEF AgentAck, AgentHolds
  <2>2. local' = [local EXCEPT ![agent.cmd] = "running"]
    BY <1>2, Zenon DEF AgentAck
  <2>3. Active' = Active
    BY <1>0, <2>1, <2>2, Zenon DEF Active
  <2>4. agent'.cmd = agent.cmd /\ agUp' = agUp /\ replay' = replay
    BY <1>2, Zenon DEF AgentAck, At
  <2>5. agUp
    BY <1>2, IdleFields, Zenon DEF AgentAck, ReplayCovers
  <2> QED BY <2>3, <2>4, <2>5, Zenon DEF ReplayCovers, OneActive
<1>3. ASSUME NEW c \in Commands, AgentReplay(c) PROVE ReplayCovers' /\ OneActive'
  <2>1. c \in Active /\ c \in replay /\ agUp /\ agUp' /\ agent.cmd = NoCommand
    BY <1>3, IdleFields, Zenon DEF AgentReplay, ReplayCovers
  <2>2. local' = [local EXCEPT ![c] = "running"]
    BY <1>3, Zenon DEF AgentReplay
  <2>3. Active' = Active
    BY <1>0, <2>1, <2>2, Zenon DEF Active
  <2>4. agent'.cmd = c /\ replay' = replay \ {c}
    BY <1>3, Zenon DEF AgentReplay, At
  <2> QED BY <1>a, <2>1, <2>3, <2>4, Zenon DEF ReplayCovers, OneActive
<1>4. ASSUME NEW r \in {"ok", "error"}, AgentFinish(r) PROVE ReplayCovers' /\ OneActive'
  <2>1. agent.cmd \in Commands /\ agUp
    BY <1>0, <1>4, AgentTypes, IdleFields, Zenon DEF AgentFinish, ReplayCovers
  <2>2. local' = [local EXCEPT ![agent.cmd] = r]
    BY <1>4, Zenon DEF AgentFinish
  <2>3. Active' = Active \ {agent.cmd}
    BY <1>0, <2>1, <2>2, Zenon DEF Active
  <2>4. agent'.cmd = agent.cmd /\ agUp' = agUp /\ replay' = replay
    BY <1>4, Zenon DEF AgentFinish, At
  <2> QED BY <2>1, <2>3, <2>4, Zenon DEF ReplayCovers, OneActive
<1>5. CASE AgentReport
  <2>1. agent.cmd \in Commands /\ local[agent.cmd] \in Outcomes /\ agUp
    BY <1>0, <1>5, AgentTypes, IdleFields, Zenon DEF AgentReport, AgentHolds, ReplayCovers
  <2>2. agent.cmd \notin Active
    BY <2>1, Zenon DEF Active, Outcomes
  <2>3. agent' = Idle /\ agent'.cmd = NoCommand /\ UNCHANGED <<agUp, local, replay>>
    BY <1>5, IdleFields, Zenon DEF AgentReport
  <2>4. Active' = Active
    BY <2>3, Zenon DEF Active
  <2> QED BY <1>a, <2>1, <2>2, <2>3, <2>4, Zenon DEF ReplayCovers, OneActive
<1>6. CASE ~agUp' /\ agent' = Idle /\ replay' = {} /\ (local' = local \/ AgentStop)
  <2>1. Active' \subseteq Active
    <3>1. CASE AgentStop
      <4>1. agent.cmd \in Commands
        BY <1>0, <3>1, AgentTypes, Zenon DEF AgentStop
      <4>2. \A d \in Commands : local'[d] = local[d] \/ local'[d] \in {"error", "cancelled"}
        BY <1>0, <3>1, <4>1, Zenon DEF AgentStop
      <4> QED BY <4>2, Zenon DEF Active
    <3>2. CASE local' = local
      BY <3>2, Zenon DEF Active
    <3> QED BY <1>6, <3>1, <3>2, Zenon
  <2> QED BY <1>6, <2>1, Zenon DEF ReplayCovers, OneActive
<1>7. CASE ~agUp /\ replay' = Active /\ UNCHANGED <<local, agent>>
  <2>1. Active' = Active
    BY <1>7, Zenon DEF Active
  <2>2. agent' = Idle /\ agent'.cmd = NoCommand
    BY <1>7, IdleFields, Zenon DEF ReplayCovers
  <2> QED BY <1>7, <1>a, <2>1, <2>2, Zenon DEF ReplayCovers, OneActive
<1>8. CASE UNCHANGED agentVars
  <2>1. Active' = Active
    BY <1>8, Zenon DEF Active, agentVars
  <2> QED BY <1>8, <2>1, Zenon DEF ReplayCovers, OneActive, agentVars
<1> QED BY <1>1, <1>2, <1>3, <1>4, <1>5, <1>6, <1>7, <1>8, AgentSteps, Zenon

-----------------------------------------------------------------------------
(* Reports on the wire, and what the gateway makes of them.                *)

LEMMA HonestGrows ==
    ASSUME TypeOK, AgentHolds, ReplayCovers, Next
    PROVE  Honest \subseteq Honest'
<1> SUFFICES ASSUME NEW m \in Honest PROVE m \in Honest'
  BY Zenon
<1>1. m \in Reports /\ m.cmd \in Commands /\ (m.kind # "ack" => m.res \in Outcomes)
  BY Zenon DEF Honest, Reports
<1>2. /\ local[m.cmd] # "none" => local'[m.cmd] # "none"
      /\ local[m.cmd] \in Outcomes => local'[m.cmd] = local[m.cmd]
  BY <1>1, StoreGrows, Zenon
<1> QED BY <1>1, <1>2, Zenon DEF Honest

LEMMA HonestStep ==
    ASSUME TypeOK, AgentHolds, ReplayCovers, up \in Seq(Honest), Next
    PROVE  up' \in Seq(Honest')
<1>0. up \in Seq(Honest') /\ <<>> \in Seq(Honest')
  BY HonestGrows, Widened, Unqueued, Zenon
<1>1. CASE up' = up \/ up' = <<>>
  BY <1>0, <1>1, Zenon
<1>2. CASE up # <<>> /\ up' = Tail(up)
  BY <1>0, <1>2, Dequeued, Zenon
<1>3. CASE AgentAck /\ up' = Append(up, Ack(agent.cmd))
  <2>1. agent.cmd \in Commands /\ local[agent.cmd] = "pending"
    BY <1>3, AgentTypes, Zenon DEF AgentAck, AgentHolds, TypeOK
  <2>2. Ack(agent.cmd) \in Honest
    BY <2>1, Zenon DEF Ack, Honest, Reports
  <2> QED BY <1>0, <1>3, <2>2, HonestGrows, Enqueued, Zenon
<1>4. CASE AgentReport /\ up' = Append(up, Result(ResultShape(agent.cmd), agent.cmd, agent.res))
  <2>1. agent.cmd \in Commands /\ local[agent.cmd] = agent.res /\ agent.res \in Outcomes
    BY <1>4, AgentTypes, Zenon DEF AgentReport, AgentHolds, TypeOK
  <2>2. Result(ResultShape(agent.cmd), agent.cmd, agent.res) \in Honest
    BY <2>1, Zenon DEF Result, ResultShape, Honest, Reports
  <2> QED BY <1>0, <1>4, <2>2, HonestGrows, Enqueued, Zenon
<1>5. ASSUME AgentCached, NEW c, c = Head(down).cmd,
             up' = Append(up, Result(CachedShape(c), c, local[c]))
      PROVE  up' \in Seq(Honest')
  <2>1. c \in Commands /\ local[c] \in Outcomes
    BY <1>5, FrameTypes, Zenon DEF AgentCached, TypeOK
  <2>2. Result(CachedShape(c), c, local[c]) \in Honest
    BY <2>1, Zenon DEF Result, CachedShape, Honest, Reports
  <2> QED BY <1>0, <1>5, <2>2, HonestGrows, Enqueued, Zenon
<1> QED BY <1>1, <1>2, <1>3, <1>4, <1>5, UpSteps, Zenon

\* The report the gateway reads next.
LEMMA HeadHonest ==
    ASSUME up \in Seq(Honest), up # <<>>
    PROVE  LET m == Head(up) IN
           /\ m.cmd \in Commands
           /\ m.kind = "ack" => local[m.cmd] # "none"
           /\ m.kind # "ack" => m.res \in Outcomes /\ m.res = local[m.cmd]
<1>1. Head(up) \in Honest
  BY Dequeued
<1> QED BY <1>1, Zenon DEF Honest, Reports

LEMMA GatewayHoldsStep ==
    ASSUME TypeOK, AgentHolds, ReplayCovers, GatewayHolds, up \in Seq(Honest), Next
    PROVE  GatewayHolds'
<1>1. CASE GwResult /\ gw' = At("finish", Head(up).cmd, Head(up).res) /\ local' = local
  <2>1. Head(up).res = local[Head(up).cmd]
    BY <1>1, HeadHonest, Zenon DEF GwResult
  <2> QED BY <1>1, <2>1, AtFields DEF GatewayHolds
<1>2. CASE GwTyped /\ local' = local
  <2>1. Head(up).res = local[Head(up).cmd]
    BY <1>2, HeadHonest, Zenon DEF GwTyped
  <2> QED BY <1>2, <2>1, AtFields DEF GatewayHolds, GwTyped
<1>3. CASE gw' = Idle
  BY <1>3, IdleFields, Zenon DEF GatewayHolds
<1>4. CASE GwSend
  BY <1>4, Zenon DEF GwSend, GatewayHolds, At
<1>5. CASE gw' = gw
  <2> SUFFICES ASSUME gw.pc \in {"finish", "typed"} PROVE local'[gw.cmd] = gw.res
    BY <1>5, Zenon DEF GatewayHolds
  <2>1. gw.cmd \in Commands /\ gw.res \in Outcomes
    BY GatewayTypes, Zenon DEF TypeOK
  <2> QED BY <2>1, StoreGrows, Zenon DEF GatewayHolds
<1> QED
  BY <1>1, <1>2, <1>3, <1>4, <1>5, Zenon
  DEF Next, ChannelStep, CreateEntry, PollInflight, PollNext, PollNothing, PollStamp, PollPush,
      GwMarkDelivered, GwAck, GwResult, GwFinished, GwTyped, GwTypedDone, GwTypedReject,
      Revoke, GatewayDrop, GatewayDown, AgentTake, AgentAck, AgentCached, AgentReplay,
      AgentFinish, AgentReport, AgentNotice, Connect, Fault, AgentCrash, AgentStop,
      gatewayVars, agentVars

LEMMA AckedStep ==
    ASSUME TypeOK, AgentHolds, ReplayCovers, AckedIsDurable, up \in Seq(Honest), Next
    PROVE  AckedIsDurable'
<1>1. \A c \in Commands : acked'[c] => acked[c] \/ local[c] # "none"
  <2>1. CASE GwAck
    <3>1. Head(up).cmd \in Commands /\ local[Head(up).cmd] # "none"
      BY <2>1, HeadHonest, Zenon DEF GwAck
    <3> QED BY <2>1, <3>1, Zenon DEF GwAck, TypeOK, OutboxType
  <2>2. CASE acked' = acked
    BY <2>2, Zenon
  <2> QED
    BY <2>1, <2>2, Zenon
    DEF Next, ChannelStep, CreateEntry, PollInflight, PollNext, UpdateStatus, outboxVars, PollNothing,
        PollStamp, PollPush, GwSend, GwMarkDelivered, GwResult, GwFinished, GwTyped,
        GwTypedDone, GwTypedReject, Revoke, GatewayDrop, AgentTake, AgentAck, AgentCached,
        AgentReplay, AgentFinish, AgentReport, AgentNotice, Connect, Fault, AgentCrash, AgentStop
<1>2. \A c \in Commands : acked'[c] => local'[c] # "none"
  BY <1>1, StoreGrows, Zenon DEF AckedIsDurable
<1>3. up' \in Seq(Honest')
  BY HonestStep, Zenon
<1>4. \A i \in 1 .. Len(up') : up'[i] \in Honest'
  BY <1>3, Element, Zenon
<1>5. \A i \in 1 .. Len(up') : up'[i].kind = "ack" => local'[up'[i].cmd] # "none"
  BY <1>4 DEF Honest
<1> QED BY <1>2, <1>5, Zenon DEF AckedIsDurable

\* A row is finished by the fence, or with a result the agent has stored.
LEMMA RowSteps ==
    ASSUME TypeOK, SequenceUnset, GatewayHolds, up \in Seq(Honest), Next, NEW c \in Commands
    PROVE  \/ status'[c] = status[c] /\ result'[c] = result[c]
           \/ status'[c] \notin RowDone
           \/ status'[c] = "failed" /\ result'[c] = "fenced"
           \/ local[c] \in Outcomes /\ status'[c] = RowStatusOf(local[c])
<1> DEFINE Goal == \/ status'[c] = status[c] /\ result'[c] = result[c]
                   \/ status'[c] \notin RowDone
                   \/ status'[c] = "failed" /\ result'[c] = "fenced"
                   \/ local[c] \in Outcomes /\ status'[c] = RowStatusOf(local[c])
<1> SUFFICES Goal
  BY Zenon
<1>0. status \in [Commands -> RowStates] /\ result \in [Commands -> Outcomes \cup {"", "fenced"}]
  BY Zenon DEF TypeOK, OutboxType
<1>1. ASSUME NEW d \in Commands, CreateEntry(d) PROVE Goal
  BY <1>0, <1>1, Zenon DEF CreateEntry, RowDone
<1>2. ASSUME NEW d \in Commands, NEW v, PollNext(d, v) PROVE Goal
  BY <1>0, <1>2, Zenon DEF PollNext, UpdateStatus, outboxVars
<1>3. CASE PollStamp
  BY <1>0, <1>3, Zenon DEF PollStamp, UpdateStatus, RowDone
<1>4. CASE GwMarkDelivered
  BY <1>0, <1>4, Zenon DEF GwMarkDelivered, UpdateStatus, RowDone
<1>5. CASE GwAck
  BY <1>0, <1>5, Zenon DEF GwAck, RowDone
<1>6. CASE GwResult
  <2>1. Head(up).cmd \in Commands /\ Head(up).res \in Outcomes /\ Head(up).res = local[Head(up).cmd]
    BY <1>6, HeadHonest, Zenon DEF GwResult
  <2>2. CASE UpdateStatus(Head(up).cmd, RowStatusOf(Head(up).res), Head(up).res)
    BY <1>0, <2>1, <2>2, Zenon DEF UpdateStatus
  <2>3. CASE UNCHANGED outboxVars
    BY <2>3, Zenon DEF outboxVars
  <2> QED BY <1>6, <2>2, <2>3, Zenon DEF GwResult
<1>7. CASE GwTypedDone
  <2>1. gw.cmd \in Commands /\ gw.res \in Outcomes /\ gw.res = local[gw.cmd]
    BY <1>7, GatewayTypes, Zenon DEF GwTypedDone, GatewayHolds, TypeOK
  <2> QED BY <1>0, <1>7, <2>1, Zenon DEF GwTypedDone, UpdateStatus
<1>8. CASE UNCHANGED outboxVars
  BY <1>8, Zenon DEF outboxVars
<1>9. CASE Connect
  BY <1>9, ConnectSendsNothing, Zenon
<1> HIDE DEF Goal
<1> QED
  BY <1>1, <1>2, <1>3, <1>4, <1>5, <1>6, <1>7, <1>8, <1>9, Zenon
  DEF Next, ChannelStep, PollInflight, PollNothing, PollPush, GwSend, GwFinished, GwTyped, GwTypedReject,
      Revoke, GatewayDrop, AgentTake, AgentAck, AgentCached, AgentReplay, AgentFinish,
      AgentReport, AgentNotice, Fault, AgentCrash, AgentStop

LEMMA ResultStep ==
    ASSUME ChannelInv, Next
    PROVE  ResultAgreement'
<1> USE DEF ChannelInv
<1>1. ASSUME NEW c \in Commands
      PROVE  /\ status'[c] = "succeeded" => local'[c] = "ok"
             /\ status'[c] = "failed" => result'[c] = "fenced" \/ local'[c] \in {"error", "cancelled"}
  <2>1. local[c] \in Outcomes => local'[c] = local[c]
    BY StoreGrows, Zenon
  <2>2. CASE status'[c] = status[c] /\ result'[c] = result[c]
    BY <2>1, <2>2, Zenon DEF ResultAgreement, Outcomes
  <2>3. CASE status'[c] \notin RowDone
    BY <2>3, Zenon DEF RowDone
  <2>4. CASE status'[c] = "failed" /\ result'[c] = "fenced"
    BY <2>4, Zenon
  <2>5. CASE local[c] \in Outcomes /\ status'[c] = RowStatusOf(local[c])
    BY <2>1, <2>5, Zenon DEF RowStatusOf, Outcomes
  <2> QED BY <2>2, <2>3, <2>4, <2>5, RowSteps, Zenon
<1>2. up' \in Seq(Honest')
  BY HonestStep, Zenon
<1>3. \A i \in 1 .. Len(up') : up'[i] \in Honest'
  BY <1>2, Element, Zenon
<1>4. \A i \in 1 .. Len(up') : up'[i].kind # "ack" => up'[i].res = local'[up'[i].cmd]
  BY <1>3, Zenon DEF Honest
<1> QED BY <1>1, <1>4, Zenon DEF ResultAgreement

-----------------------------------------------------------------------------
(* The theorems.                                                           *)

LEMMA ChannelNextInv == ChannelInv /\ [Next]_channelVars => ChannelInv'
<1> SUFFICES ASSUME ChannelInv, [Next]_channelVars PROVE ChannelInv'
  BY Zenon
<1>1. TypeOK' /\ SequenceUnset'
  BY TypeStep, Zenon DEF ChannelInv
<1>2. CASE Next
  <2>1. AgentHolds' /\ ReplayCovers' /\ OneActive'
    BY <1>2, AgentHoldsStep, ReplayStep, Zenon DEF ChannelInv
  <2>2. GatewayHolds' /\ up' \in Seq(Honest') /\ AckedIsDurable'
    BY <1>2, GatewayHoldsStep, HonestStep, AckedStep, Zenon DEF ChannelInv
  <2>3. ResultAgreement'
    BY <1>2, ResultStep, Zenon
  <2> QED BY <1>1, <2>1, <2>2, <2>3, Zenon DEF ChannelInv
<1>3. CASE UNCHANGED channelVars
  <2>1. Active' = Active /\ Honest' = Honest
    BY <1>3, Zenon DEF channelVars, Active, Honest
  <2>2. AgentHolds' /\ ReplayCovers' /\ OneActive' /\ GatewayHolds' /\ up' \in Seq(Honest')
    BY <1>3, <2>1, Zenon
    DEF channelVars, ChannelInv, AgentHolds, ReplayCovers, OneActive, GatewayHolds
  <2>3. AckedIsDurable' /\ ResultAgreement'
    BY <1>3, Zenon DEF channelVars, ChannelInv, AckedIsDurable, ResultAgreement
  <2> QED BY <1>1, <2>2, <2>3, Zenon DEF ChannelInv
<1> QED BY <1>2, <1>3, Zenon

\* The strengthened invariant of the channel.
THEOREM ChannelInvariant == Spec => []ChannelInv
  BY ChannelInitInv, ChannelNextInv, PTL DEF Spec

\* Every variable of gateway, wire and agent keeps its type.
THEOREM ChannelTypes == Spec => []TypeOK
<1>1. ChannelInv => TypeOK
  BY Zenon DEF ChannelInv
<1> QED BY <1>1, ChannelInvariant, PTL

\* ACK_PERSISTED means stored: Save comes before Send(ack) in handleCommand,
\* and nothing the agent does afterwards removes an entry.
THEOREM AcknowledgedIsStored == Spec => []AckedIsDurable
<1>1. ChannelInv => AckedIsDurable
  BY Zenon DEF ChannelInv
<1> QED BY <1>1, ChannelInvariant, PTL

\* However often commands are sent twice and streams are lost, the agent has at
\* most one unfinished command (replayActive before the receive loop).
THEOREM AgentIsSerial == Spec => []OneActive
<1>1. ChannelInv => OneActive
  BY Zenon DEF ChannelInv
<1> QED BY <1>1, ChannelInvariant, PTL

\* A finished outbox row agrees with the result in the agent's store.
THEOREM RowsTellTheTruth == Spec => []ResultAgreement
<1>1. ChannelInv => ResultAgreement
  BY Zenon DEF ChannelInv
<1> QED BY <1>1, ChannelInvariant, PTL

\* A command with a stored result is never executed again.
THEOREM ExecutedAtMostOnce == Spec => CompletedNeverRerun
<1>1. ChannelInv /\ [Next]_channelVars
        => [\A c \in Commands : local[c] \in Outcomes => local'[c] = local[c]]_channelVars
  BY StoreGrows, Zenon DEF ChannelInv
<1> QED BY <1>1, ChannelInvariant, PTL DEF Spec, CompletedNeverRerun

\* No row is ever sent again by Hello: the table holds no sequence number, so
\* GetDeliveredNotAcked's rows are all skipped by reDeliverFrom.
THEOREM ReDeliveryIsEmpty == Spec => [](ReDelivered(lastSeq) = {})
<1>1. ChannelInv => ReDelivered(lastSeq) = {}
  BY NothingReDelivered, Zenon DEF ChannelInv
<1> QED BY <1>1, ChannelInvariant, PTL

-----------------------------------------------------------------------------
(* Rows come from producers only. A command that is named anywhere in the  *)
(* channel has a row, so that no update of a row can make one.             *)

KnownFrames == {f \in Frames : status[f.cmd] # "absent"}

RowsKnown ==
    /\ poll.pc \in {"stamp", "push"} => status[poll.cmd] # "absent"
    /\ gw.pc \in {"sent", "finish", "typed"} => status[gw.cmd] # "absent"
    /\ deliverCh \in Seq(KnownFrames)
    /\ down \in Seq(KnownFrames)
    /\ \A c \in Commands : local[c] # "none" => status[c] # "absent"

LEMMA KnownFrameFields ==
    ASSUME NEW s \in Seq(KnownFrames), s # <<>>
    PROVE  /\ Head(s) \in KnownFrames /\ Tail(s) \in Seq(KnownFrames)
           /\ Head(s).cmd \in Commands /\ status[Head(s).cmd] # "absent"
<1>1. Head(s) \in KnownFrames /\ Tail(s) \in Seq(KnownFrames)
  BY Dequeued, Zenon
<1> QED BY <1>1, Zenon DEF KnownFrames, Frames

\* The steps of the channel update rows that exist, and keep them.
LEMMA RowsStay ==
    ASSUME ChannelInv, RowsKnown, ChannelStep, NEW c \in Commands
    PROVE  status'[c] = "absent" <=> status[c] = "absent"
<1> DEFINE Goal == status'[c] = "absent" <=> status[c] = "absent"
<1> SUFFICES Goal
  BY Zenon
<1>0. status \in [Commands -> RowStates] /\ TypeOK /\ GatewayType /\ SequenceUnset /\ up \in Seq(Honest)
  BY Zenon DEF ChannelInv, TypeOK, OutboxType
<1>a. ASSUME NEW d \in Commands, status[d] # "absent", NEW s, s # "absent",
             status' = [status EXCEPT ![d] = s]
      PROVE  Goal
  BY <1>0, <1>a, Zenon
<1>b. up # <<>> => Head(up).cmd \in Commands /\ status[Head(up).cmd] # "absent"
  <2> SUFFICES ASSUME up # <<>>
               PROVE  Head(up).cmd \in Commands /\ status[Head(up).cmd] # "absent"
    BY Zenon
  <2>1. Head(up).cmd \in Commands /\ local[Head(up).cmd] # "none"
    BY <1>0, HeadHonest, Zenon DEF Outcomes
  <2> QED BY <2>1, Zenon DEF RowsKnown
<1> HIDE DEF Goal
<1>1. ASSUME NEW d \in Commands, NEW v, PollNext(d, v) PROVE Goal
  <2>1. CASE UNCHANGED outboxVars
    BY <2>1, Zenon DEF outboxVars, Goal
  <2>2. CASE UpdateStatus(d, "failed", "fenced")
    BY <1>1, <1>a, <2>2, Zenon DEF UpdateStatus, PollNext
  <2> QED BY <1>1, <2>1, <2>2, Zenon DEF PollNext
<1>2. CASE PollStamp
  BY <1>0, <1>2, <1>a, PollTypes, Zenon DEF PollStamp, UpdateStatus, RowsKnown
<1>3. CASE GwMarkDelivered
  BY <1>0, <1>3, <1>a, GatewayTypes, Zenon DEF GwMarkDelivered, UpdateStatus, RowsKnown
<1>4. CASE GwAck
  BY <1>4, <1>a, <1>b, Zenon DEF GwAck
<1>5. CASE GwResult
  <2>1. CASE UNCHANGED outboxVars
    BY <2>1, Zenon DEF outboxVars, Goal
  <2>2. CASE UpdateStatus(Head(up).cmd, RowStatusOf(Head(up).res), Head(up).res)
    BY <1>5, <1>a, <1>b, <2>2, Zenon DEF GwResult, UpdateStatus, RowStatusOf
  <2> QED BY <1>5, <2>1, <2>2, Zenon DEF GwResult
<1>6. CASE GwTypedDone
  BY <1>0, <1>6, <1>a, GatewayTypes, Zenon DEF GwTypedDone, UpdateStatus, RowStatusOf, RowsKnown
<1>7. CASE Connect
  BY <1>0, <1>7, ConnectSendsNothing, Zenon DEF Goal
<1>8. CASE UNCHANGED outboxVars
  BY <1>8, Zenon DEF outboxVars, Goal
<1> QED
  BY <1>1, <1>2, <1>3, <1>4, <1>5, <1>6, <1>7, <1>8, Zenon
  DEF ChannelStep, PollInflight, PollNothing, PollPush, GwSend, GwFinished, GwTyped,
      GwTypedReject, Revoke, GatewayDrop, AgentTake, AgentAck, AgentCached, AgentReplay,
      AgentFinish, AgentReport, AgentNotice, Fault, AgentCrash, AgentStop

\* Rows are never deleted.
LEMMA RowsKept ==
    ASSUME ChannelInv, RowsKnown, [Next]_channelVars, NEW c \in Commands, status[c] # "absent"
    PROVE  status'[c] # "absent"
<1>1. CASE ChannelStep
  BY <1>1, RowsStay, Zenon
<1>2. ASSUME NEW d \in Commands, CreateEntry(d) PROVE status'[c] # "absent"
  BY <1>2, Zenon DEF CreateEntry, ChannelInv, TypeOK, OutboxType
<1>3. CASE UNCHANGED channelVars
  BY <1>3, Zenon DEF channelVars
<1> QED BY <1>1, <1>2, <1>3, Zenon DEF Next

LEMMA RowsKnownInit == Init => RowsKnown
  BY IdleFields, Unqueued, Zenon DEF Init, RowsKnown

LEMMA KnownGrows ==
    ASSUME ChannelInv, RowsKnown, [Next]_channelVars
    PROVE  KnownFrames \subseteq KnownFrames'
<1> SUFFICES ASSUME NEW f \in KnownFrames PROVE f \in KnownFrames'
  BY Zenon
<1>1. f \in Frames /\ f.cmd \in Commands /\ status[f.cmd] # "absent"
  BY Zenon DEF KnownFrames, Frames
<1>2. status'[f.cmd] # "absent"
  BY <1>1, RowsKept
<1> QED BY <1>1, <1>2, Zenon DEF KnownFrames

LEMMA KnownQueues ==
    ASSUME ChannelInv, RowsKnown, Next
    PROVE  deliverCh' \in Seq(KnownFrames') /\ down' \in Seq(KnownFrames')
<1>0. /\ deliverCh \in Seq(KnownFrames) /\ down \in Seq(KnownFrames)
      /\ deliverCh \in Seq(KnownFrames') /\ down \in Seq(KnownFrames')
      /\ <<>> \in Seq(KnownFrames')
  BY KnownGrows, Widened, Unqueued, Zenon DEF RowsKnown
<1>1. CASE GwSend
  <2>1. /\ Head(deliverCh) \in KnownFrames' /\ Tail(deliverCh) \in Seq(KnownFrames')
    BY <1>0, <1>1, KnownFrameFields, Dequeued, KnownGrows, Zenon DEF GwSend
  <2> QED BY <1>0, <1>1, <2>1, Enqueued, Zenon DEF GwSend
<1>2. CASE PollPush
  <2>1. poll.cmd \in Commands /\ status[poll.cmd] # "absent"
    BY <1>2, PollTypes, Zenon DEF PollPush, RowsKnown, ChannelInv, TypeOK
  <2>2. Frame(poll.cmd, MaxSequence + 1) \in Frames
    BY <2>1, MaxSequenceIsZero DEF Frame, Frames, ChannelInv
  <2>3. Frame(poll.cmd, MaxSequence + 1) \in KnownFrames
    BY <2>1, <2>2, Zenon DEF KnownFrames, Frame
  <2> QED BY <1>0, <1>2, <2>3, KnownGrows, Enqueued, Zenon DEF PollPush
<1>3. CASE down # <<>> /\ down' = Tail(down) /\ deliverCh' = deliverCh
  BY <1>0, <1>3, Dequeued, Zenon
<1>4. CASE Connect
  BY <1>0, <1>4, ConnectSendsNothing, Zenon DEF Connect, ChannelInv
<1>5. CASE down' \in {<<>>, down} /\ deliverCh' \in {<<>>, deliverCh}
  BY <1>0, <1>5, Zenon
<1> QED
  BY <1>1, <1>2, <1>3, <1>4, <1>5, Zenon
  DEF Next, ChannelStep, CreateEntry, PollInflight, PollNext, PollNothing, PollStamp,
      GwMarkDelivered, GwAck, GwResult, GwFinished, GwTyped, GwTypedDone, GwTypedReject,
      Revoke, GatewayDrop, GatewayDown, AgentTake, AgentAck, AgentCached, AgentReplay,
      AgentFinish, AgentReport, AgentNotice, Fault, AgentCrash, AgentStop, gatewayVars

LEMMA KnownInHand ==
    ASSUME ChannelInv, RowsKnown, Next
    PROVE  /\ poll'.pc \in {"stamp", "push"} => status[poll'.cmd] # "absent" /\ poll'.cmd \in Commands
           /\ gw'.pc \in {"sent", "finish", "typed"}
                => status[gw'.cmd] # "absent" /\ gw'.cmd \in Commands
<1>0. GatewayType /\ up \in Seq(Honest)
  BY DEF ChannelInv, TypeOK
<1>1. poll'.pc \in {"stamp", "push"} => status[poll'.cmd] # "absent" /\ poll'.cmd \in Commands
  <2>1. ASSUME NEW c \in Commands, NEW v, PollNext(c, v)
        PROVE  poll'.pc \in {"stamp", "push"} => status[poll'.cmd] # "absent" /\ poll'.cmd \in Commands
    <3>1. CASE poll' = Idle
      BY <3>1, IdleFields, Zenon
    <3>2. CASE poll' = At("stamp", c, "")
      <4>1. poll'.cmd = c
        BY <3>2, Zenon DEF At
      <4>2. status[c] = "pending"
        BY <2>1, Zenon DEF PollNext
      <4> QED BY <4>1, <4>2, Zenon
    <3> QED BY <2>1, <3>1, <3>2, Zenon DEF PollNext
  <2>2. CASE PollStamp
    <3>1. poll'.cmd = poll.cmd
      BY <2>2, Zenon DEF PollStamp, At
    <3> QED BY <1>0, <2>2, <3>1, PollTypes, Zenon DEF PollStamp, RowsKnown
  <2>3. CASE poll' = At("clear", NoCommand, "")
    BY <2>3, Zenon DEF At
  <2>4. CASE poll' = Idle
    BY <2>4, IdleFields, Zenon
  <2>5. CASE poll' = poll
    BY <1>0, <2>5, PollTypes, Zenon DEF RowsKnown
  <2> QED
    BY <2>1, <2>2, <2>3, <2>4, <2>5, Zenon
    DEF Next, ChannelStep, CreateEntry, PollInflight, PollNothing, PollPush, GwSend,
        GwMarkDelivered, GwAck, GwResult, GwFinished, GwTyped, GwTypedDone, GwTypedReject,
        Revoke, GatewayDrop, GatewayDown, AgentTake, AgentAck, AgentCached, AgentReplay,
        AgentFinish, AgentReport, AgentNotice, Connect, Fault, AgentCrash, AgentStop, gatewayVars
<1>2. gw'.pc \in {"sent", "finish", "typed"} => status[gw'.cmd] # "absent" /\ gw'.cmd \in Commands
  <2>1. CASE GwSend
    <3>1. gw'.cmd = Head(deliverCh).cmd
      BY <2>1, Zenon DEF GwSend, At
    <3> QED BY <2>1, <3>1, KnownFrameFields, Zenon DEF GwSend, RowsKnown
  <2>2. CASE up # <<>> /\ gw'.cmd = Head(up).cmd
    <3>1. Head(up).cmd \in Commands /\ local[Head(up).cmd] # "none"
      BY <1>0, <2>2, HeadHonest, Zenon DEF Outcomes
    <3> QED BY <2>2, <3>1, Zenon DEF RowsKnown
  <2>3. CASE GwResult \/ GwTyped
    <3>1. gw' = gw \/ gw'.cmd = Head(up).cmd
      <4>1. CASE GwTyped
        <5>1. gw' = At("typed", Head(up).cmd, Head(up).res)
          BY <4>1, Zenon DEF GwTyped
        <5> QED BY <5>1, AtFields
      <4>2. CASE GwResult
        <5>1. gw' = gw \/ gw' = At("finish", Head(up).cmd, Head(up).res)
          BY <4>2, Zenon DEF GwResult
        <5> QED BY <5>1, AtFields
      <4> QED BY <2>3, <4>1, <4>2, Zenon
    <3> QED BY <1>0, <2>2, <2>3, <3>1, GatewayTypes, Zenon DEF GwResult, GwTyped, RowsKnown
  <2>4. CASE gw' = Idle
    BY <2>4, IdleFields, Zenon
  <2>5. CASE gw' = gw
    BY <1>0, <2>5, GatewayTypes, Zenon DEF RowsKnown
  <2> QED
    BY <2>1, <2>3, <2>4, <2>5, Zenon
    DEF Next, ChannelStep, CreateEntry, PollInflight, PollNext, PollNothing, PollStamp,
        PollPush, GwMarkDelivered, GwAck, GwFinished, GwTypedDone, GwTypedReject, Revoke,
        GatewayDrop, GatewayDown, AgentTake, AgentAck, AgentCached, AgentReplay, AgentFinish,
        AgentReport, AgentNotice, Connect, Fault, AgentCrash, AgentStop, gatewayVars
<1> QED BY <1>1, <1>2, Zenon

\* Only rows are ever in hand: RowsKnown is inductive.
LEMMA RowsKnownStep ==
    ASSUME ChannelInv, RowsKnown, [Next]_channelVars
    PROVE  RowsKnown'
<1>1. CASE Next
  <2>1. /\ poll'.pc \in {"stamp", "push"} => status'[poll'.cmd] # "absent"
        /\ gw'.pc \in {"sent", "finish", "typed"} => status'[gw'.cmd] # "absent"
    BY <1>1, KnownInHand, RowsKept, Zenon
  <2>2. deliverCh' \in Seq(KnownFrames') /\ down' \in Seq(KnownFrames')
    BY <1>1, KnownQueues, Zenon
  <2>3. \A c \in Commands : local'[c] # "none" => status'[c] # "absent"
    <3> SUFFICES ASSUME NEW c \in Commands, local'[c] # "none", local[c] = "none"
                 PROVE  status[c] # "absent"
      BY RowsKept, Zenon DEF RowsKnown
    <3>0. /\ local \in [Commands -> {"none", "pending", "running"} \cup Outcomes]
          /\ AgentType /\ AgentHolds /\ ReplayCovers /\ TypeOK
      BY Zenon DEF ChannelInv, TypeOK, AgentType
    <3>1. CASE AgentTake
      <4>1. Head(down).cmd \in Commands /\ status[Head(down).cmd] # "absent"
        BY <3>1, KnownFrameFields, Zenon DEF AgentTake, RowsKnown
      <4> QED BY <3>0, <3>1, <4>1, Zenon DEF AgentTake
    <3>2. CASE AgentAck
      BY <3>0, <3>2, AgentTypes, Zenon DEF AgentAck, AgentHolds
    <3>3. ASSUME NEW d \in Commands, AgentReplay(d) PROVE FALSE
      BY <3>0, <3>3, Zenon DEF AgentReplay, ReplayCovers, Active
    <3>4. ASSUME NEW r \in {"ok", "error"}, AgentFinish(r) PROVE FALSE
      BY <3>0, <3>4, AgentTypes, Zenon DEF AgentFinish, AgentHolds
    <3>5. CASE AgentStop
      BY <3>0, <3>5, AgentTypes, Zenon DEF AgentStop, AgentHolds
    <3>6. CASE local' = local
      BY <3>6, Zenon
    <3> QED BY <1>1, AgentSteps, <3>1, <3>2, <3>3, <3>4, <3>5, <3>6, Zenon DEF AgentReport, agentVars
  <2> QED BY <2>1, <2>2, <2>3, Zenon DEF RowsKnown
<1>2. CASE UNCHANGED channelVars
  BY <1>2, Zenon DEF RowsKnown, KnownFrames, channelVars
<1> QED BY <1>1, <1>2, Zenon

-----------------------------------------------------------------------------
(* The inductive invariant.                                                *)

\* The version counts the transitions behind a status.
VersionsCount ==
    \A o \in Ops :
        /\ opStatus[o] = "absent" <=> opVersion[o] = 0
        /\ opStatus[o] = "pending" => opVersion[o] = 1
        /\ opStatus[o] = "preflight" => opVersion[o] = 2
        /\ opStatus[o] = "queued" => opVersion[o] = 3

\* A coordinator works for an operation that reached preflight, holds the
\* version of that moment, and never goes past the stages it has.
CoordHolds ==
    \A o \in Ops :
        /\ launch[o] => opVersion[o] >= 1
        /\ coord[o].pc # "off" =>
              /\ coord[o].ver = 2 /\ opVersion[o] >= 2
              /\ coord[o].stage \in 1 .. StagesOf(o) + 1
        /\ coord[o].pc = "poll" => coord[o].stage <= StagesOf(o)

\* A command row has an operation, and a stage row one that has stages.
RowsHaveOps ==
    \A o \in Ops, k \in 1 .. NStages + 1 :
        status[<<o, k>>] # "absent" =>
            opStatus[o] # "absent" /\ (k <= NStages => o \in BundleOps)

\* What the result handler has read is the row, or an older version of it.
FinHolds ==
    fin # NoRow =>
        /\ gw.pc \in {"finish", "typed"}
        /\ fin.pc = "applied" => gw.pc = "typed"
        /\ fin.ver <= opVersion[ResultOf]
        /\ fin.pc = "read" /\ fin.ver = opVersion[ResultOf] => fin.st = opStatus[ResultOf]

ReleaseInv ==
    /\ ChannelInv
    /\ RowsKnown
    /\ ReleaseTypeOK
    /\ VersionsCount
    /\ CoordHolds
    /\ RowsHaveOps
    /\ FinHolds
    /\ DispatchImpliesQueued
    /\ SuccessVouched

-----------------------------------------------------------------------------
(* Vocabulary.                                                             *)

LEMMA StageFacts ==
    ASSUME NEW o \in Ops
    PROVE  /\ StagesOf(o) \in 0 .. NStages
           /\ o \notin BundleOps => StagesOf(o) = 0
           /\ Write(o) \in Commands /\ Write(o) = <<o, NStages + 1>>
           /\ \A k \in 1 .. NStages : Stage(o, k) \in Commands /\ Stage(o, k) # Write(o)
  BY ReleaseAssumption DEF StagesOf, Write, Stage

LEMMA CommandFacts ==
    ASSUME NEW c \in Commands
    PROVE  /\ OperationOf(c) \in Ops
           /\ \E k \in 1 .. NStages + 1 : c = <<OperationOf(c), k>>
           /\ c = Write(OperationOf(c)) \/ c \in StageCommands
           /\ c = Write(OperationOf(c)) => c \notin StageCommands
<1>1. PICK o \in Ops, k \in 1 .. NStages + 1 : c = <<o, k>>
  BY ReleaseAssumption
<1>2. OperationOf(c) = o
  BY <1>1, Zenon DEF OperationOf
<1>3. k = NStages + 1 \/ k \in 1 .. NStages
  BY <1>1, ReleaseAssumption
<1>4. c = Write(OperationOf(c)) => k = NStages + 1
  BY <1>1, <1>2, Zenon DEF Write
<1>5. c \in StageCommands => k \in 1 .. NStages
  BY <1>1, ReleaseAssumption, Zenon
<1>6. k = NStages + 1 => k \notin 1 .. NStages
  BY ReleaseAssumption
<1> QED BY <1>1, <1>2, <1>3, <1>4, <1>5, <1>6, ReleaseAssumption, Zenon DEF Write

LEMMA RecordFacts ==
    /\ Off.pc = "off" /\ Off.stage = 0 /\ Off.ver = 0
    /\ NoRow.pc = "none"
    /\ \A pc, k, v : /\ Working(pc, k, v).pc = pc
                     /\ Working(pc, k, v).stage = k
                     /\ Working(pc, k, v).ver = v
    /\ \A pc, s, v : /\ Read(pc, s, v).pc = pc
                     /\ Read(pc, s, v).st = s
                     /\ Read(pc, s, v).ver = v
  BY Zenon DEF Off, NoRow, Working, Read

-----------------------------------------------------------------------------
(* The channel inside the composition.                                     *)

\* The steps that insert a command row.
Making(o) ==
    \/ CreateOperation(o) /\ StagesOf(o) > 0 /\ CreateEntry(Stage(o, 1))
    \/ RunStage(o) /\ CreateEntry(Stage(o, coord[o].stage))
    \/ QueueOperation(o) /\ CASAllowed(o, coord[o].ver, "queued") /\ SetStatus(o, "queued")
       /\ CreateEntry(Write(o))

\* Every step of the composition inserts a row, is a step of the channel, or
\* leaves the channel alone.
LEMMA Projection ==
    ASSUME ReleaseNext
    PROVE  ChannelStep \/ UNCHANGED channelVars \/ \E o \in Ops : Making(o)
<1>1. ASSUME NEW o \in Ops, Lifecycle(o)
      PROVE  ChannelStep \/ UNCHANGED channelVars \/ Making(o)
  <2>1. CASE CreateOperation(o)
    BY <2>1, Zenon DEF CreateOperation, Making
  <2>2. CASE RunStage(o)
    BY <2>2, Zenon DEF RunStage, Making
  <2>3. CASE QueueOperation(o)
    BY <2>3, Zenon DEF QueueOperation, Making
  <2>4. CASE CancelEffects(o)
    BY <2>4, Zenon DEF CancelEffects, ChannelStep
  <2> QED
    BY <1>1, <2>1, <2>2, <2>3, <2>4, Zenon
    DEF Lifecycle, StartPreflight, PollStagePassed, CasFailed, CasCancelled, CancelOperation,
        Recover
<1>2. CASE Results
  BY <1>2, Zenon
  DEF Results, ResultLoad, ResultBegin, FinishOperation, HandleCommandResult, TypedRowDone,
      ChannelStep
<1>3. ASSUME NEW c \in Commands, DeliverNextPending(c) PROVE ChannelStep
  BY <1>3, Zenon DEF DeliverNextPending, FenceDelivery, ChannelStep
<1>4. CASE Poller \/ Gateway \/ Agent
  BY <1>4, Zenon DEF Poller, Gateway, Agent, ChannelStep
<1>5. CASE Reconnect \/ StreamLost \/ AgentLost \/ Restart
  BY <1>5, Zenon DEF Reconnect, StreamLost, AgentLost, Restart, ChannelStep
<1> QED BY <1>1, <1>2, <1>3, <1>4, <1>5, Zenon DEF ReleaseNext

LEMMA StageInHand ==
    ASSUME ReleaseTypeOK, CoordHolds, NEW o \in Ops, RunStage(o)
    PROVE  /\ coord[o].stage \in 1 .. StagesOf(o) /\ coord[o].stage \in 1 .. NStages
           /\ o \in BundleOps
<1>1. coord[o].pc = "stage" /\ coord[o].stage <= StagesOf(o)
  BY Zenon DEF RunStage
<1>2. coord[o].stage \in 1 .. StagesOf(o) + 1
  BY <1>1, Zenon DEF CoordHolds
<1> QED BY <1>1, <1>2, StageFacts, ReleaseAssumption

LEMMA ChannelRefined ==
    ASSUME ReleaseTypeOK, CoordHolds, [ReleaseNext]_vars
    PROVE  [Next]_channelVars
<1>1. ASSUME NEW o \in Ops, Making(o) PROVE Next
  <2>1. CASE CreateOperation(o) /\ StagesOf(o) > 0 /\ CreateEntry(Stage(o, 1))
    <3>1. Stage(o, 1) \in Commands
      BY <2>1, StageFacts, ReleaseAssumption
    <3> QED BY <2>1, <3>1, Zenon DEF Next
  <2>2. CASE RunStage(o) /\ CreateEntry(Stage(o, coord[o].stage))
    BY <2>2, StageInHand, StageFacts, Zenon DEF Next
  <2>3. CASE CreateEntry(Write(o))
    BY <2>3, StageFacts, Zenon DEF Next
  <2> QED BY <1>1, <2>1, <2>2, <2>3, Zenon DEF Making
<1>2. CASE UNCHANGED vars
  BY <1>2, Zenon DEF vars
<1> QED BY <1>1, <1>2, Projection, Zenon DEF Next

-----------------------------------------------------------------------------
(* The writers of an operation's row.                                      *)

Writes(o, t) ==
    /\ SetStatus(o, t)
    /\ Promise!Edge(opStatus[o], t)
    /\ t = "queued" => opVersion[o] = 2
    /\ t = "succeeded" => Vouched(o)

LEMMA Edges ==
    ASSUME NEW s, NEW t
    PROVE  /\ CanTransitionTo(s, t) => Promise!Edge(s, t) /\ t \in Statuses
           /\ s = "running" /\ t = "cancelled" => Promise!Edge(s, t)
           /\ s \in {"running", "cancelling"} /\ t \in {"failed", "timeout"} => Promise!Edge(s, t)
           /\ s \in {"pending", "preflight", "cancelling"} /\ t \in {"failed", "cancelled", "timeout"}
                 => Promise!Edge(s, t)
           /\ s = "running" /\ t = "succeeded" => Promise!Edge(s, t)
           /\ s \in Statuses /\ t = "timeout" /\ ~IsTerminal(s) => Promise!Edge(s, t)
           /\ Promise!Edge(s, t) =>
                 /\ s \in Statuses /\ ~IsTerminal(s) /\ t \notin {"pending", "absent"}
                 /\ t = "preflight" => s = "pending"
  BY Zenon DEF CanTransitionTo, Successors, Promise!Edge, Promise!CanTransitionTo, Promise!Successors,
         Statuses, IsTerminal

LEMMA CASWrites ==
    ASSUME NEW o \in Ops, NEW v, NEW t, t \notin {"queued", "succeeded"}, Transitioned(o, v, t)
    PROVE  UNCHANGED rowVars \/ (t \in Statuses /\ Writes(o, t))
<1>1. CASE CASAllowed(o, v, t)
  BY <1>1, Edges, Zenon DEF Transitioned, CASAllowed, Writes
<1>2. CASE ~CASAllowed(o, v, t)
  BY <1>2, Zenon DEF Transitioned
<1> QED BY <1>1, <1>2, Zenon

LEMMA LifecycleWrites ==
    ASSUME ReleaseInv, NEW o \in Ops, Lifecycle(o)
    PROVE  UNCHANGED rowVars \/ CreateOperation(o) \/ \E t \in Statuses : Writes(o, t)
<1>0. opStatus[o] \in Statuses \cup {"absent"}
  BY Zenon DEF ReleaseInv, ReleaseTypeOK
<1>1. CASE StartPreflight(o)
  BY <1>1, CASWrites, Zenon DEF StartPreflight
<1>2. CASE CasFailed(o)
  BY <1>2, CASWrites DEF CasFailed
<1>3. CASE CasCancelled(o)
  BY <1>3, CASWrites DEF CasCancelled
<1>4. CASE QueueOperation(o)
  <2>1. CASE CASAllowed(o, coord[o].ver, "queued") /\ SetStatus(o, "queued")
    <3>1. coord[o].ver = 2
      BY <1>4, Zenon DEF QueueOperation, ReleaseInv, CoordHolds
    <3> QED BY <2>1, <3>1, Edges DEF CASAllowed, Writes
  <2> QED BY <1>4, <2>1, Zenon DEF QueueOperation
<1>5. CASE CancelOperation(o)
  <2>1. PICK t \in {"cancelled", "cancelling"} :
            Transition(opStatus[o], "cancel", t) /\ SetStatus(o, t)
    BY <1>5, Zenon DEF CancelOperation
  <2>2. CanTransitionTo(opStatus[o], t)
    BY <2>1, Zenon DEF Transition, validTransitions, CanTransitionTo, Successors
  <2> QED BY <2>1, <2>2, Edges, Zenon DEF Writes
<1>6. CASE Recover(o)
  <2> DEFINE t == IF opStatus[o] = "cancelling" THEN "failed" ELSE "timeout"
  <2>1. opStatus[o] \in Statuses /\ ~IsTerminal(opStatus[o]) /\ SetStatus(o, t)
    BY <1>0, <1>6, Zenon DEF Recover
  <2>2. Promise!Edge(opStatus[o], t) /\ t \in Statuses /\ t \notin {"queued", "succeeded"}
    BY <2>1, Edges, Zenon DEF Statuses
  <2> HIDE DEF t
  <2> QED BY <2>1, <2>2, Zenon DEF Writes
<1>7. CASE RunStage(o) \/ PollStagePassed(o) \/ CancelEffects(o)
  BY <1>7, Zenon DEF RunStage, PollStagePassed, CancelEffects
<1> QED BY <1>1, <1>2, <1>3, <1>4, <1>5, <1>6, <1>7, Zenon DEF Lifecycle

\* The command whose result is being applied: it exists, its operation exists,
\* and what is applied is what the agent stored.
LEMMA ResultInHand ==
    ASSUME ReleaseInv, gw.pc \in {"finish", "typed"}
    PROVE  /\ gw.cmd \in Commands /\ gw.res \in Outcomes /\ local[gw.cmd] = gw.res
           /\ ResultOf \in Ops /\ opStatus[ResultOf] \in Statuses
           /\ gw.res = "ok" => Vouched(ResultOf)
           /\ gw.cmd = Write(ResultOf) => opStatus[ResultOf] = "queued" \/ opVersion[ResultOf] > 3
           /\ gw.cmd = Write(ResultOf) \/ gw.cmd \in StageCommands
<1>1. gw.cmd \in Commands /\ gw.res \in Outcomes
  BY GatewayTypes, Zenon DEF ReleaseInv, ChannelInv, TypeOK
<1>2. status[gw.cmd] # "absent" /\ local[gw.cmd] = gw.res
  BY Zenon DEF ReleaseInv, ChannelInv, RowsKnown, GatewayHolds
<1>3. ResultOf \in Ops /\ (gw.cmd = Write(ResultOf) \/ gw.cmd \in StageCommands)
  BY <1>1, CommandFacts, Zenon DEF ResultOf
<1>4. PICK k \in 1 .. NStages + 1 : gw.cmd = <<ResultOf, k>>
  BY <1>1, CommandFacts, Zenon DEF ResultOf
<1>5. opStatus[ResultOf] # "absent" /\ (k <= NStages => ResultOf \in BundleOps)
  BY <1>2, <1>3, <1>4, Zenon DEF ReleaseInv, RowsHaveOps
<1>6. opStatus[ResultOf] \in Statuses
  BY <1>3, <1>5, Zenon DEF ReleaseInv, ReleaseTypeOK
<1>7. ResultOf \notin BundleOps => gw.cmd = Write(ResultOf)
  BY <1>4, <1>5, ReleaseAssumption DEF Write
<1>8. gw.cmd = Write(ResultOf) => opStatus[ResultOf] = "queued" \/ opVersion[ResultOf] > 3
  BY <1>2, <1>3, Zenon DEF ReleaseInv, DispatchImpliesQueued
<1>9. gw.res = "ok" => Vouched(ResultOf)
  BY <1>1, <1>2, <1>7, Zenon DEF Vouched, ResultOf
<1> QED BY <1>1, <1>2, <1>3, <1>6, <1>8, <1>9, Zenon

\* A typed result that still finds the version it read moves the operation
\* along an edge.
LEMMA TypedWrites ==
    ASSUME ReleaseInv, gw.pc = "typed", fin.pc = "read", fin.st # "queued",
           ~IsTerminal(fin.st), Acceptable(gw.cmd, gw.res), opVersion[ResultOf] = fin.ver,
           NEW t \in TypedTargets(fin.st, gw.res), SetStatus(ResultOf, t)
    PROVE  t \in Statuses /\ Writes(ResultOf, t)
<1> DEFINE o == ResultOf
<1>1. /\ o \in Ops /\ opStatus[o] \in Statuses /\ gw.res \in Outcomes
      /\ local[gw.cmd] = gw.res
      /\ gw.res = "ok" => Vouched(o)
      /\ gw.cmd = Write(o) => opStatus[o] = "queued" \/ opVersion[o] > 3
      /\ gw.cmd = Write(o) \/ gw.cmd \in StageCommands
  BY ResultInHand, Zenon
<1>2. fin.st = opStatus[o]
  BY RecordFacts, Zenon DEF ReleaseInv, FinHolds
<1>3. opVersion[o] > 3 => opStatus[o] \notin {"pending", "preflight"}
  BY <1>1 DEF ReleaseInv, VersionsCount
<1>4. gw.cmd = Write(o) => opStatus[o] \in {"running", "cancelling"}
  BY <1>1, <1>2, <1>3, Zenon DEF Statuses, IsTerminal
<1>5. opStatus[o] \in {"pending", "preflight", "running", "cancelling"}
  BY <1>1, <1>2, Zenon DEF Statuses, IsTerminal
<1>6. gw.res = "ok" => gw.cmd = Write(o)
  BY <1>1, Zenon DEF Acceptable
<1>7. t \in {"succeeded", "failed", "cancelled", "timeout"}
  BY Zenon DEF TypedTargets
<1>8. t = "succeeded" => gw.res = "ok" /\ opStatus[o] # "cancelling"
  BY <1>2, Zenon DEF TypedTargets
<1>9. Promise!Edge(opStatus[o], t)
  BY <1>4, <1>5, <1>6, <1>7, <1>8, Edges, Zenon
<1>10. t = "succeeded" => Vouched(o)
  BY <1>1, <1>8, Zenon
<1> QED BY <1>7, <1>9, <1>10, Zenon DEF Writes, Statuses

LEMMA ResultWrites ==
    ASSUME ReleaseInv, Results
    PROVE  UNCHANGED rowVars \/ \E o \in Ops, t \in Statuses : Writes(o, t)
<1>0. fin.pc \in {"read", "applied"} => gw.pc \in {"finish", "typed"}
  BY RecordFacts, Zenon DEF ReleaseInv, FinHolds
<1>1. CASE ResultBegin
  <2>1. CASE CASAllowed(ResultOf, fin.ver, "running") /\ SetStatus(ResultOf, "running")
    <3>1. ResultOf \in Ops
      BY <1>0, <1>1, ResultInHand, Zenon DEF ResultBegin
    <3>2. Writes(ResultOf, "running") /\ "running" \in Statuses
      BY <2>1, Edges, Zenon DEF CASAllowed, Writes, Statuses
    <3> QED BY <3>1, <3>2, Zenon
  <2> QED BY <1>1, <2>1, Zenon DEF ResultBegin
<1>2. CASE FinishOperation
  <2>1. ResultOf \in Ops /\ (gw.res = "ok" => Vouched(ResultOf))
    BY <1>2, ResultInHand, Zenon DEF FinishOperation
  <2>2. ASSUME NEW t \in FinishTargets(fin.st, gw.res), Transitioned(ResultOf, fin.ver, t)
        PROVE  UNCHANGED rowVars \/ (t \in Statuses /\ Writes(ResultOf, t))
    <3>1. t \in {"failed", "succeeded", "cancelled"} /\ (t = "succeeded" => gw.res = "ok")
      BY Zenon DEF FinishTargets
    <3>2. CASE CASAllowed(ResultOf, fin.ver, t)
      <4>1. SetStatus(ResultOf, t) /\ Promise!Edge(opStatus[ResultOf], t) /\ t \in Statuses
        BY <2>2, <3>2, Edges, Zenon DEF Transitioned, CASAllowed
      <4> QED BY <2>1, <3>1, <4>1, Zenon DEF Writes
    <3> QED BY <2>2, <3>2, Zenon DEF Transitioned
  <2> QED BY <1>2, <2>1, <2>2, Zenon DEF FinishOperation
<1>3. CASE HandleCommandResult
  <2>1. ResultOf \in Ops
    BY <1>3, ResultInHand, Zenon DEF HandleCommandResult
  <2> QED BY <1>3, <2>1, TypedWrites, Zenon DEF HandleCommandResult
<1>4. CASE ResultLoad \/ TypedRowDone
  BY <1>4, Zenon DEF ResultLoad, TypedRowDone
<1> QED BY <1>1, <1>2, <1>3, <1>4, Zenon DEF Results

\* However a row changes, it is created or it follows an edge.
LEMMA RowWriters ==
    ASSUME ReleaseInv, ReleaseNext
    PROVE  \/ UNCHANGED rowVars
           \/ \E o \in Ops : CreateOperation(o)
           \/ \E o \in Ops, t \in Statuses : Writes(o, t)
<1>1. ASSUME NEW o \in Ops, Lifecycle(o)
      PROVE  UNCHANGED rowVars \/ CreateOperation(o) \/ \E t \in Statuses : Writes(o, t)
  BY <1>1, LifecycleWrites, Zenon
<1>2. ASSUME NEW c \in Commands, DeliverNextPending(c) PROVE UNCHANGED rowVars
  BY <1>2, Zenon DEF DeliverNextPending, opVars, rowVars
<1>3. CASE Poller \/ Gateway \/ Agent \/ AgentLost
  BY <1>3, Zenon DEF Poller, Gateway, Agent, AgentLost, opVars, rowVars
<1>4. CASE Reconnect \/ StreamLost \/ Restart
  BY <1>4, Zenon DEF Reconnect, StreamLost, Restart
<1> QED BY <1>1, <1>2, <1>3, <1>4, ResultWrites, Zenon DEF ReleaseNext

LEMMA RowStep ==
    ASSUME ReleaseInv, ReleaseNext, NEW o \in Ops
    PROVE  \/ opStatus'[o] = opStatus[o] /\ opVersion'[o] = opVersion[o]
           \/ /\ opStatus[o] = "absent" /\ opVersion[o] = 0
              /\ opStatus'[o] = "pending" /\ opVersion'[o] = 1
           \/ /\ Promise!Edge(opStatus[o], opStatus'[o])
              /\ opVersion'[o] = opVersion[o] + 1
              /\ opStatus'[o] = "queued" => opVersion[o] = 2
              /\ opStatus'[o] = "succeeded" => Vouched(o)
<1>0. opStatus \in [Ops -> Statuses \cup {"absent"}] /\ opVersion \in [Ops -> Nat]
  BY Zenon DEF ReleaseInv, ReleaseTypeOK
<1>1. CASE UNCHANGED rowVars
  BY <1>1, Zenon DEF rowVars
<1>2. ASSUME NEW p \in Ops, CreateOperation(p)
      PROVE  \/ opStatus'[o] = opStatus[o] /\ opVersion'[o] = opVersion[o]
             \/ /\ opStatus[o] = "absent" /\ opVersion[o] = 0
                /\ opStatus'[o] = "pending" /\ opVersion'[o] = 1
  BY <1>0, <1>2, Zenon DEF CreateOperation, InitialStatus, ReleaseInv, VersionsCount
<1>3. ASSUME NEW p \in Ops, NEW t \in Statuses, Writes(p, t)
      PROVE  \/ opStatus'[o] = opStatus[o] /\ opVersion'[o] = opVersion[o]
             \/ /\ Promise!Edge(opStatus[o], opStatus'[o])
                /\ opVersion'[o] = opVersion[o] + 1
                /\ opStatus'[o] = "queued" => opVersion[o] = 2
                /\ opStatus'[o] = "succeeded" => Vouched(o)
  <2>1. CASE p = o
    <3>1. opStatus'[o] = t /\ opVersion'[o] = opVersion[o] + 1
      BY <1>0, <1>3, <2>1, Zenon DEF Writes, SetStatus
    <3> QED BY <1>3, <2>1, <3>1, Zenon DEF Writes
  <2>2. CASE p # o
    BY <1>0, <1>3, <2>2, Zenon DEF Writes, SetStatus
  <2> QED BY <2>1, <2>2, Zenon
<1> QED BY <1>1, <1>2, <1>3, RowWriters, Zenon

LEMMA RowTypeStep ==
    ASSUME ReleaseInv, ReleaseNext
    PROVE  opStatus' \in [Ops -> Statuses \cup {"absent"}] /\ opVersion' \in [Ops -> Nat]
<1>0. opStatus \in [Ops -> Statuses \cup {"absent"}] /\ opVersion \in [Ops -> Nat]
  BY Zenon DEF ReleaseInv, ReleaseTypeOK
<1>1. CASE UNCHANGED rowVars
  BY <1>0, <1>1, Zenon DEF rowVars
<1>2. ASSUME NEW p \in Ops, CreateOperation(p)
      PROVE  opStatus' \in [Ops -> Statuses \cup {"absent"}] /\ opVersion' \in [Ops -> Nat]
  BY <1>0, <1>2, Zenon DEF CreateOperation, InitialStatus, Statuses
<1>3. ASSUME NEW p \in Ops, NEW t \in Statuses, Writes(p, t)
      PROVE  opStatus' \in [Ops -> Statuses \cup {"absent"}] /\ opVersion' \in [Ops -> Nat]
  BY <1>0, <1>3 DEF Writes, SetStatus
<1> QED BY <1>1, <1>2, <1>3, RowWriters, Zenon

\* A version names a status: rows never go back.
LEMMA VersionStep ==
    ASSUME ReleaseInv, ReleaseNext, NEW o \in Ops
    PROVE  /\ opVersion'[o] \in Nat /\ opVersion[o] \in Nat
           /\ opVersion[o] <= opVersion'[o]
           /\ opVersion[o] = opVersion'[o] => opStatus'[o] = opStatus[o]
           /\ opStatus[o] # "absent" => opStatus'[o] # "absent"
           /\ opStatus[o] = "queued" => opStatus'[o] = "queued" \/ opVersion'[o] > 3
<1>0. /\ opVersion[o] \in Nat
      /\ opStatus[o] = "queued" => opVersion[o] = 3
      /\ opVersion'[o] \in Nat
  BY RowTypeStep, Zenon DEF ReleaseInv, ReleaseTypeOK, VersionsCount
<1>1. CASE opStatus'[o] = opStatus[o] /\ opVersion'[o] = opVersion[o]
  BY <1>0, <1>1
<1>2. CASE opStatus[o] = "absent" /\ opVersion[o] = 0 /\ opVersion'[o] = 1
  BY <1>0, <1>2
<1>3. CASE Promise!Edge(opStatus[o], opStatus'[o]) /\ opVersion'[o] = opVersion[o] + 1
  <2>1. opStatus'[o] # "absent"
    BY <1>3, Edges, Zenon
  <2> QED BY <1>0, <1>3, <2>1
<1> QED BY <1>1, <1>2, <1>3, RowStep, Zenon

LEMMA VersionsCountStep ==
    ASSUME ReleaseInv, ReleaseNext
    PROVE  VersionsCount'
<1> SUFFICES ASSUME NEW o \in Ops
             PROVE  /\ opStatus'[o] = "absent" <=> opVersion'[o] = 0
                    /\ opStatus'[o] = "pending" => opVersion'[o] = 1
                    /\ opStatus'[o] = "preflight" => opVersion'[o] = 2
                    /\ opStatus'[o] = "queued" => opVersion'[o] = 3
  BY Zenon DEF VersionsCount
<1>0. /\ opVersion[o] \in Nat
      /\ opStatus[o] = "absent" <=> opVersion[o] = 0
      /\ opStatus[o] = "pending" => opVersion[o] = 1
      /\ opStatus[o] = "preflight" => opVersion[o] = 2
      /\ opStatus[o] = "queued" => opVersion[o] = 3
  BY Zenon DEF ReleaseInv, ReleaseTypeOK, VersionsCount
<1>1. CASE opStatus'[o] = opStatus[o] /\ opVersion'[o] = opVersion[o]
  BY <1>0, <1>1, Zenon
<1>2. CASE opStatus'[o] = "pending" /\ opVersion'[o] = 1
  BY <1>2
<1>3. CASE /\ Promise!Edge(opStatus[o], opStatus'[o])
           /\ opVersion'[o] = opVersion[o] + 1
           /\ opStatus'[o] = "queued" => opVersion[o] = 2
  BY <1>0, <1>3, Edges
<1> QED BY <1>1, <1>2, <1>3, RowStep, Zenon

-----------------------------------------------------------------------------
(* The coordinator.                                                        *)

LEMMA OthersStep ==
    ASSUME ReleaseNext
    PROVE  \/ \E o \in Ops : Lifecycle(o)
           \/ UNCHANGED <<launch, coord, cancelFx>>
           \/ Restart
  BY Zenon DEF ReleaseNext, Results, ResultLoad, ResultBegin, FinishOperation, HandleCommandResult,
         TypedRowDone, DeliverNextPending, Poller, Gateway, Agent, Reconnect, StreamLost,
         AgentLost, opVars

LEMMA LaunchStep ==
    ASSUME ReleaseInv, ReleaseNext
    PROVE  /\ launch' \in [Ops -> BOOLEAN]
           /\ cancelFx' \in [Ops -> {"none", "cancelled", "cancelling"}]
           /\ \A o \in Ops : launch'[o] => opVersion'[o] >= 1
<1>0. /\ launch \in [Ops -> BOOLEAN]
      /\ cancelFx \in [Ops -> {"none", "cancelled", "cancelling"}]
      /\ \A o \in Ops : launch[o] => opVersion[o] >= 1
  BY Zenon DEF ReleaseInv, ReleaseTypeOK, CoordHolds
<1>a. opVersion \in [Ops -> Nat] /\ \A o \in Ops : opVersion[o] \in Nat /\ opVersion'[o] \in Nat
  BY VersionStep, Zenon DEF ReleaseInv, ReleaseTypeOK
<1>1. ASSUME NEW o \in Ops, Lifecycle(o)
      PROVE  /\ launch' \in [Ops -> BOOLEAN]
             /\ cancelFx' \in [Ops -> {"none", "cancelled", "cancelling"}]
             /\ \A p \in Ops : launch'[p] => launch[p] \/ opVersion'[p] = 1
  <2>1. CASE CreateOperation(o)
    BY <1>0, <1>a, <2>1, Zenon DEF CreateOperation
  <2>2. CASE StartPreflight(o)
    BY <1>0, <2>2, Zenon DEF StartPreflight
  <2>3. CASE CancelOperation(o) \/ CancelEffects(o)
    BY <1>0, <2>3, Zenon DEF CancelOperation, CancelEffects
  <2> QED
    BY <1>0, <1>1, <2>1, <2>2, <2>3, Zenon
    DEF Lifecycle, RunStage, PollStagePassed, CasFailed, CasCancelled, QueueOperation, Recover
<1>2. CASE UNCHANGED <<launch, coord, cancelFx>>
  BY <1>0, <1>2, <1>a, VersionStep
<1>3. CASE Restart
  BY <1>3, Zenon DEF Restart
<1>4. ASSUME NEW p \in Ops, launch[p] \/ opVersion'[p] = 1
      PROVE  opVersion'[p] >= 1
  BY <1>0, <1>4, <1>a, VersionStep
<1> QED BY <1>1, <1>2, <1>3, <1>4, OthersStep, Zenon

\* What a coordinator may hold.
CoordSteps(o) ==
    {w \in [pc : {"off", "stage", "poll"}, stage : 0 .. NStages + 1, ver : Nat] :
        /\ w.pc # "off" => w.ver = 2 /\ w.stage \in 1 .. StagesOf(o) + 1
        /\ w.pc = "poll" => w.stage <= StagesOf(o)}

LEMMA CoordNow ==
    ASSUME ReleaseInv
    PROVE  /\ \A o \in Ops : coord[o] \in CoordSteps(o)
           /\ coord \in [Ops -> [pc : {"off", "stage", "poll"}, stage : 0 .. NStages + 1, ver : Nat]]
           /\ \A o \in Ops : coord[o].pc # "off" => opVersion[o] >= 2
  BY Zenon DEF ReleaseInv, ReleaseTypeOK, CoordHolds, CoordSteps

LEMMA CoordValues ==
    ASSUME NEW o \in Ops
    PROVE  /\ Off \in CoordSteps(o)
           /\ Working("stage", 1, 2) \in CoordSteps(o)
           /\ \A w \in CoordSteps(o) :
                 /\ w.pc = "poll" => Working("stage", w.stage + 1, w.ver) \in CoordSteps(o)
                 /\ w.pc = "stage" /\ w.stage <= StagesOf(o) => [w EXCEPT !.pc = "poll"] \in CoordSteps(o)
<1>0. StagesOf(o) \in Nat /\ NStages \in Nat /\ StagesOf(o) <= NStages
  BY StageFacts, ReleaseAssumption
<1>1. Off \in CoordSteps(o)
  BY <1>0 DEF Off, CoordSteps
<1>2. Working("stage", 1, 2) \in CoordSteps(o)
  BY <1>0 DEF Working, CoordSteps
<1>3. ASSUME NEW w \in CoordSteps(o), w.pc = "poll"
      PROVE  Working("stage", w.stage + 1, w.ver) \in CoordSteps(o)
  <2>1. w.stage \in 1 .. StagesOf(o) /\ w.ver = 2
    BY <1>0, <1>3 DEF CoordSteps
  <2>2. w.stage + 1 \in 1 .. StagesOf(o) + 1 /\ w.stage + 1 \in 0 .. NStages + 1
    BY <1>0, <2>1
  <2> QED BY <2>1, <2>2, Zenon DEF Working, CoordSteps
<1>4. ASSUME NEW w \in CoordSteps(o), w.pc = "stage", w.stage <= StagesOf(o)
      PROVE  [w EXCEPT !.pc = "poll"] \in CoordSteps(o)
  BY <1>4, Zenon DEF CoordSteps
<1> QED BY <1>1, <1>2, <1>3, <1>4, Zenon

\* A step changes one coordinator, and none but the preflight transition and
\* a restart start one.
LEMMA CoordStep ==
    ASSUME ReleaseInv, ReleaseNext
    PROVE  /\ coord' \in [Ops -> [pc : {"off", "stage", "poll"}, stage : 0 .. NStages + 1, ver : Nat]]
           /\ \A o \in Ops : coord'[o] \in CoordSteps(o)
           /\ \A o \in Ops : coord'[o].pc # "off" => opVersion'[o] >= 2
<1> DEFINE Types == [Ops -> [pc : {"off", "stage", "poll"}, stage : 0 .. NStages + 1, ver : Nat]]
           Goal == /\ coord' \in Types
                   /\ \A o \in Ops : coord'[o] \in CoordSteps(o)
                   /\ \A o \in Ops : coord'[o].pc # "off" => opVersion'[o] >= 2
<1> SUFFICES Goal
  BY Zenon
<1>0. /\ \A o \in Ops : coord[o] \in CoordSteps(o)
      /\ coord \in Types
      /\ \A o \in Ops : coord[o].pc # "off" => opVersion'[o] >= 2
  <2>1. \A o \in Ops : /\ coord[o].pc # "off" => opVersion[o] >= 2
                       /\ opVersion[o] <= opVersion'[o]
                       /\ opVersion[o] \in Nat /\ opVersion'[o] \in Nat
    BY CoordNow, VersionStep, Zenon
  <2> QED BY <2>1, CoordNow
<1>t. \A o \in Ops : CoordSteps(o) \subseteq
        [pc : {"off", "stage", "poll"}, stage : 0 .. NStages + 1, ver : Nat]
  BY Zenon DEF CoordSteps
<1>e. ASSUME NEW o \in Ops, NEW w \in CoordSteps(o), coord' = [coord EXCEPT ![o] = w],
             w.pc # "off" => opVersion'[o] >= 2
      PROVE  Goal
  BY <1>0, <1>e, <1>t, Zenon
<1>u. CASE coord' = coord
  BY <1>0, <1>u, Zenon
<1> HIDE DEF Goal
<1>1. ASSUME NEW o \in Ops, Lifecycle(o) PROVE Goal
  <2>1. CASE StartPreflight(o)
    <3>1. CASE CASAllowed(o, 1, "preflight")
      <4>1. opVersion[o] = 1 /\ opVersion'[o] = opVersion[o] + 1
        BY <2>1, <3>1, Zenon DEF StartPreflight, Transitioned, SetStatus, CASAllowed, ReleaseInv, ReleaseTypeOK
      <4>2. opVersion'[o] >= 2
        BY <4>1
      <4>3. coord' = [coord EXCEPT ![o] = Working("stage", 1, 2)]
        BY <2>1, <3>1, Zenon DEF StartPreflight
      <4> QED BY <4>2, <4>3, CoordValues, <1>e, Zenon
    <3> QED BY <2>1, <3>1, <1>u, Zenon DEF StartPreflight
  <2>2. CASE RunStage(o)
    <3>1. coord' = [coord EXCEPT ![o] = [coord[o] EXCEPT !.pc = "poll"]]
      BY <2>2, Zenon DEF RunStage
    <3>2. [coord[o] EXCEPT !.pc = "poll"] \in CoordSteps(o)
      BY <1>0, <2>2, CoordValues, Zenon DEF RunStage
    <3>3. opVersion'[o] >= 2
      BY <1>0, <2>2, Zenon DEF RunStage
    <3> QED BY <3>1, <3>2, <3>3, <1>e, Zenon
  <2>3. CASE PollStagePassed(o)
    <3>1. coord' = [coord EXCEPT ![o] = Working("stage", coord[o].stage + 1, coord[o].ver)]
      BY <2>3, Zenon DEF PollStagePassed
    <3>2. Working("stage", coord[o].stage + 1, coord[o].ver) \in CoordSteps(o)
      BY <1>0, <2>3, CoordValues, Zenon DEF PollStagePassed
    <3>3. opVersion'[o] >= 2
      BY <1>0, <2>3, Zenon DEF PollStagePassed
    <3> QED BY <3>1, <3>2, <3>3, <1>e, Zenon
  <2>4. CASE coord' = [coord EXCEPT ![o] = Off]
    BY <2>4, CoordValues, RecordFacts, <1>e, Zenon
  <2> QED
    BY <1>1, <2>1, <2>2, <2>3, <2>4, <1>u, Zenon
    DEF Lifecycle, CreateOperation, CasFailed, CasCancelled, QueueOperation, CancelOperation,
        CancelEffects, Recover
<1>2. CASE Restart
  <2>1. coord' = [o \in Ops |-> IF opStatus[o] = "preflight"
                               THEN Working("stage", 1, opVersion[o]) ELSE Off]
    BY <1>2, Zenon DEF Restart
  <2>2. \A o \in Ops : opStatus[o] = "preflight" => opVersion[o] = 2
    BY Zenon DEF ReleaseInv, VersionsCount
  <2>3. \A o \in Ops : coord'[o] = Off \/ (coord'[o] = Working("stage", 1, 2) /\ opVersion[o] = 2)
    BY <2>1, <2>2, Zenon
  <2>4. \A o \in Ops : coord'[o] \in CoordSteps(o)
    BY <2>3, CoordValues, Zenon
  <2>5. \A o \in Ops : coord'[o].pc # "off" => opVersion'[o] >= 2
    <3>1. opVersion' = opVersion
      BY <1>2, Zenon DEF Restart, rowVars
    <3> QED BY <2>3, <3>1, RecordFacts
  <2>6. coord' \in Types
    BY <2>1, <2>4, <1>t, Zenon
  <2> QED BY <2>4, <2>5, <2>6, Zenon DEF Goal
<1> QED BY <1>1, <1>2, <1>u, OthersStep, Zenon

-----------------------------------------------------------------------------
(* The command rows.                                                       *)

LEMMA RowsHaveOpsStep ==
    ASSUME ReleaseInv, ReleaseNext
    PROVE  RowsHaveOps'
<1> SUFFICES ASSUME NEW o \in Ops, NEW k \in 1 .. NStages + 1, status'[<<o, k>>] # "absent"
             PROVE  opStatus'[o] # "absent" /\ (k <= NStages => o \in BundleOps)
  BY Zenon DEF RowsHaveOps
<1>0. /\ <<o, k>> \in Commands /\ status \in [Commands -> RowStates]
      /\ ReleaseTypeOK /\ CoordHolds /\ ChannelInv /\ RowsKnown
  BY ReleaseAssumption, Zenon DEF ReleaseInv, ChannelInv, TypeOK, OutboxType
<1>1. CASE status[<<o, k>>] # "absent"
  BY <1>1, VersionStep, Zenon DEF ReleaseInv, RowsHaveOps
<1>2. CASE status[<<o, k>>] = "absent"
  <2>1. PICK p \in Ops : Making(p)
    BY <1>0, <1>2, Projection, RowsStay, Zenon DEF channelVars
  <2>2. CASE CreateOperation(p) /\ StagesOf(p) > 0 /\ CreateEntry(Stage(p, 1))
    <3>1. p = o
      BY <1>0, <1>2, <2>2, Zenon DEF CreateEntry, Stage
    <3>2. opStatus'[o] = "pending"
      BY <1>0, <2>2, <3>1, Zenon DEF CreateOperation, InitialStatus, ReleaseTypeOK
    <3> QED BY <2>2, <3>1, <3>2, StageFacts
  <2>3. CASE RunStage(p) /\ CreateEntry(Stage(p, coord[p].stage))
    <3>1. p = o
      BY <1>0, <1>2, <2>3, Zenon DEF CreateEntry, Stage
    <3>2. o \in BundleOps /\ coord[o].pc # "off"
      BY <1>0, <2>3, <3>1, StageInHand, Zenon DEF RunStage
    <3>3. opVersion[o] >= 2
      BY <1>0, <3>2, Zenon DEF CoordHolds
    <3>4. opStatus[o] # "absent"
      BY <3>3 DEF ReleaseInv, VersionsCount
    <3> QED BY <3>2, <3>4, VersionStep, Zenon
  <2>4. CASE SetStatus(p, "queued") /\ CreateEntry(Write(p))
    <3>1. p = o /\ k = NStages + 1
      BY <1>0, <1>2, <2>4, Zenon DEF CreateEntry, Write
    <3>2. opStatus'[o] = "queued"
      BY <1>0, <2>4, <3>1, Zenon DEF SetStatus, ReleaseTypeOK
    <3> QED BY <3>1, <3>2, ReleaseAssumption
  <2> QED BY <2>1, <2>2, <2>3, <2>4, Zenon DEF Making
<1> QED BY <1>1, <1>2, Zenon

LEMMA DispatchStep ==
    ASSUME ReleaseInv, ReleaseNext
    PROVE  DispatchImpliesQueued'
<1> SUFFICES ASSUME NEW o \in Ops, status'[Write(o)] # "absent"
             PROVE  opStatus'[o] = "queued" \/ opVersion'[o] > 3
  BY Zenon DEF DispatchImpliesQueued, Write
<1>0. /\ Write(o) \in Commands /\ status \in [Commands -> RowStates]
      /\ ReleaseTypeOK /\ CoordHolds /\ ChannelInv /\ RowsKnown
  BY StageFacts, Zenon DEF ReleaseInv, ChannelInv, TypeOK, OutboxType
<1>1. CASE status[Write(o)] # "absent"
  <2>1. opStatus[o] = "queued" \/ opVersion[o] > 3
    BY <1>1, Zenon DEF ReleaseInv, DispatchImpliesQueued
  <2> QED BY <2>1, VersionStep
<1>2. CASE status[Write(o)] = "absent"
  <2>1. PICK p \in Ops : Making(p)
    BY <1>0, <1>2, Projection, RowsStay, Zenon DEF channelVars
  <2>a. ASSUME NEW c \in Commands, CreateEntry(c) PROVE c = Write(o)
    BY <1>0, <1>2, <2>a, Zenon DEF CreateEntry
  <2>b. \A j \in 1 .. NStages : Stage(p, j) \in Commands /\ Stage(p, j) # Write(o)
    BY ReleaseAssumption DEF Stage, Write
  <2>2. ~(StagesOf(p) > 0 /\ CreateEntry(Stage(p, 1)))
    <3>1. StagesOf(p) > 0 => 1 \in 1 .. NStages
      BY StageFacts, ReleaseAssumption
    <3> QED BY <2>a, <2>b, <3>1, Zenon
  <2>3. ~(RunStage(p) /\ CreateEntry(Stage(p, coord[p].stage)))
    BY <1>0, <2>a, <2>b, StageInHand, Zenon
  <2>4. CASE SetStatus(p, "queued") /\ CreateEntry(Write(p))
    <3>1. Write(p) = Write(o)
      BY <2>4, <2>a, StageFacts, Zenon
    <3>2. p = o
      BY <3>1, Zenon DEF Write
    <3> QED BY <1>0, <2>4, <3>2, Zenon DEF SetStatus, ReleaseTypeOK
  <2> QED BY <2>1, <2>2, <2>3, <2>4, Zenon DEF Making
<1> QED BY <1>1, <1>2, Zenon

\* What a success rests on is never taken back: the agent's store keeps results.
LEMMA VouchedStep ==
    ASSUME ReleaseInv, ReleaseNext
    PROVE  SuccessVouched'
<1> SUFFICES ASSUME NEW o \in Ops, opStatus'[o] = "succeeded" PROVE Vouched(o)'
  BY Zenon DEF SuccessVouched
<1>1. Vouched(o)
  BY RowStep, Zenon DEF ReleaseInv, SuccessVouched
<1>2. PICK c \in Commands : /\ OperationOf(c) = o /\ local[c] = "ok"
                            /\ o \notin BundleOps => c = Write(o)
  BY <1>1, Zenon DEF Vouched
<1>3. [Next]_channelVars
  BY ChannelRefined, Zenon DEF ReleaseInv
<1>4. CASE Next
  <2>1. local'[c] = "ok"
    BY <1>2, <1>4, StoreGrows, Zenon DEF ReleaseInv, ChannelInv, Outcomes
  <2> QED BY <1>2, <2>1, Zenon DEF Vouched, OperationOf, Write
<1>5. CASE UNCHANGED channelVars
  BY <1>2, <1>5, Zenon DEF channelVars, Vouched, OperationOf, Write
<1> QED BY <1>3, <1>4, <1>5, Zenon

-----------------------------------------------------------------------------
(* The result handler.                                                     *)

\* While the handler is at work nothing else moves the gateway's main loop.
LEMMA FinSteps ==
    ASSUME ReleaseNext, gw.pc \in {"finish", "typed"}
    PROVE  \/ fin' = NoRow
           \/ ResultLoad \/ ResultBegin \/ HandleCommandResult
           \/ fin' = fin /\ gw' = gw
<1>0. gw # Idle /\ gw.pc # "sent"
  BY IdleFields, Zenon
<1>1. ASSUME NEW o \in Ops, Lifecycle(o)
      PROVE  fin' = NoRow \/ (fin' = fin /\ gw' = gw)
  BY <1>1, Zenon
  DEF Lifecycle, CreateOperation, StartPreflight, RunStage, PollStagePassed, CasFailed,
      CasCancelled, QueueOperation, CancelOperation, CancelEffects, Recover, CreateEntry,
      channelVars, gatewayVars
<1>2. ASSUME NEW c \in Commands, DeliverNextPending(c) PROVE fin' = fin /\ gw' = gw
  BY <1>2, Zenon DEF DeliverNextPending, PollNext, opVars
<1>3. CASE Poller
  BY <1>3, Zenon DEF Poller, PollInflight, PollNothing, PollStamp, PollPush, opVars
<1>4. CASE Gateway
  BY <1>0, <1>4, Zenon DEF Gateway, GwSend, GwMarkDelivered, GwAck, GwResult, GwTyped, gatewayVars
<1>5. CASE Agent \/ AgentLost
  BY <1>5, Zenon DEF Agent, AgentLost, AgentTake, AgentAck, AgentCached, AgentReplay, AgentFinish,
              AgentReport, AgentNotice, Fault, AgentCrash, AgentStop, gatewayVars, opVars
<1>6. CASE Reconnect \/ StreamLost \/ Restart \/ FinishOperation \/ TypedRowDone
  BY <1>6, Zenon DEF Reconnect, StreamLost, Restart, FinishOperation, TypedRowDone
<1> QED BY <1>1, <1>2, <1>3, <1>4, <1>5, <1>6 DEF ReleaseNext, Results

LEMMA FinLeft ==
    ASSUME ReleaseNext, ~(gw.pc \in {"finish", "typed"}), FinHolds
    PROVE  fin' = NoRow
<1>1. fin = NoRow
  BY Zenon DEF FinHolds
<1>2. fin.pc = "none"
  BY <1>1, RecordFacts, Zenon
<1> QED
  BY <1>1, <1>2
  DEF ReleaseNext, Lifecycle, CreateOperation, StartPreflight, RunStage, PollStagePassed,
      CasFailed, CasCancelled, QueueOperation, CancelOperation, CancelEffects, Recover, Results,
      ResultLoad, ResultBegin, FinishOperation, HandleCommandResult, TypedRowDone,
      DeliverNextPending, Poller, Gateway, Agent, AgentLost, Reconnect, StreamLost, Restart,
      opVars

FinRows == [pc : {"read", "applied"}, st : Statuses, ver : Nat]

LEMMA FinStep ==
    ASSUME ReleaseInv, ReleaseNext
    PROVE  FinHolds' /\ fin' \in {NoRow} \cup FinRows
<1>0. fin = NoRow \/ fin \in FinRows
  BY Zenon DEF ReleaseInv, ReleaseTypeOK, FinRows
<1>n. CASE fin' = NoRow
  BY <1>n, Zenon DEF FinHolds
<1>1. CASE ~(gw.pc \in {"finish", "typed"})
  BY <1>1, <1>n, FinLeft, Zenon DEF ReleaseInv
<1>2. CASE gw.pc \in {"finish", "typed"}
  <2> DEFINE o == ResultOf
  <2>0. /\ o \in Ops /\ opStatus[o] \in Statuses
        /\ opVersion[o] \in Nat /\ opVersion'[o] \in Nat
        /\ opVersion[o] <= opVersion'[o]
        /\ opVersion[o] = opVersion'[o] => opStatus'[o] = opStatus[o]
    BY <1>2, ResultInHand, VersionStep, Zenon
  <2>o. gw' = gw => ResultOf' = o
    BY Zenon DEF ResultOf, OperationOf
  <2>f. fin # NoRow => /\ fin \in FinRows /\ fin.ver \in Nat /\ fin.ver <= opVersion[o]
                       /\ fin.pc = "applied" => gw.pc = "typed"
                       /\ fin.pc = "read" /\ fin.ver = opVersion[o] => fin.st = opStatus[o]
    BY <1>0, Zenon DEF ReleaseInv, FinHolds, FinRows
  <2> HIDE DEF o
  <2>1. CASE ResultLoad
    <3>1. fin' = Read("read", opStatus[o], opVersion[o]) /\ gw' = gw /\ UNCHANGED rowVars
      BY <2>1, Zenon DEF ResultLoad, channelVars, o
    <3>2. fin' \in FinRows /\ fin'.pc = "read" /\ fin'.st = opStatus[o] /\ fin'.ver = opVersion[o]
      BY <2>0, <3>1, Zenon DEF Read, FinRows
    <3>3. opStatus' = opStatus /\ opVersion' = opVersion
      BY <3>1, Zenon DEF rowVars
    <3> QED BY <1>2, <2>0, <2>o, <3>1, <3>2, <3>3, Zenon DEF FinHolds
  <2>2. CASE ResultBegin /\ fin' # NoRow
    <3>1. /\ fin' = Read("read", "running", fin.ver + 1) /\ gw' = gw /\ SetStatus(o, "running")
          /\ opVersion[o] = fin.ver
      BY <2>2, Zenon DEF ResultBegin, CASAllowed, channelVars, o
    <3>2. opStatus'[o] = "running" /\ opVersion'[o] = fin.ver + 1
      BY <2>0, <3>1, Zenon DEF SetStatus, ReleaseInv, ReleaseTypeOK
    <3>3. fin' \in FinRows /\ fin'.pc = "read" /\ fin'.st = "running" /\ fin'.ver = fin.ver + 1
      BY <2>0, <3>1 DEF Read, FinRows, Statuses
    <3> QED BY <1>2, <2>0, <2>o, <3>1, <3>2, <3>3 DEF FinHolds
  <2>3. CASE HandleCommandResult /\ fin' # NoRow
    <3>1. /\ fin' = [fin EXCEPT !.pc = "applied"] /\ gw' = gw /\ gw.pc = "typed"
          /\ fin.pc = "read"
      BY <2>3, Zenon DEF HandleCommandResult, channelVars
    <3>2. fin # NoRow
      BY <3>1, RecordFacts, Zenon
    <3>3. fin' \in FinRows /\ fin'.pc = "applied" /\ fin'.ver = fin.ver
      BY <2>f, <3>1, <3>2, Zenon DEF FinRows
    <3>4. fin.ver <= opVersion'[o]
      BY <2>0, <2>f, <3>2
    <3> QED BY <2>o, <3>1, <3>3, <3>4, Zenon DEF FinHolds
  <2>4. CASE fin' = fin /\ gw' = gw
    <3>1. fin # NoRow => fin.ver <= opVersion'[o]
      BY <2>0, <2>f
    <3>2. fin # NoRow /\ fin.pc = "read" /\ fin.ver = opVersion'[o] => fin.st = opStatus'[o]
      BY <2>0, <2>f
    <3> QED BY <1>0, <1>2, <2>o, <2>f, <2>4, <3>1, <3>2 DEF FinHolds
  <2> QED BY <1>2, <1>n, <2>1, <2>2, <2>3, <2>4, FinSteps
<1> QED BY <1>1, <1>2, Zenon

-----------------------------------------------------------------------------
(* The theorems.                                                           *)

LEMMA ReleaseInitInv == ReleaseInit => ReleaseInv
<1> SUFFICES ASSUME ReleaseInit PROVE ReleaseInv
  BY Zenon
<1>1. Init /\ OpInit
  BY Zenon DEF ReleaseInit
<1>2. ChannelInv /\ RowsKnown /\ TypeOK
  BY <1>1, ChannelInitInv, RowsKnownInit, Zenon DEF ChannelInv
<1>3. ReleaseTypeOK
  BY <1>1, <1>2, ReleaseAssumption DEF OpInit, ReleaseTypeOK, Off
<1>4. VersionsCount /\ CoordHolds /\ FinHolds /\ SuccessVouched
  BY <1>1, RecordFacts, Zenon DEF OpInit, VersionsCount, CoordHolds, FinHolds, SuccessVouched
<1>5. RowsHaveOps /\ DispatchImpliesQueued
  BY <1>1, StageFacts, ReleaseAssumption, Zenon DEF Init, RowsHaveOps, DispatchImpliesQueued
<1> QED BY <1>2, <1>3, <1>4, <1>5 DEF ReleaseInv

LEMMA ReleaseNextInv == ReleaseInv /\ [ReleaseNext]_vars => ReleaseInv'
<1> SUFFICES ASSUME ReleaseInv, [ReleaseNext]_vars PROVE ReleaseInv'
  BY Zenon
<1>1. [Next]_channelVars
  BY ChannelRefined, Zenon DEF ReleaseInv
<1>2. ChannelInv' /\ RowsKnown'
  BY <1>1, ChannelNextInv, RowsKnownStep, Zenon DEF ReleaseInv
<1>3. CASE ReleaseNext
  <2>1. ReleaseTypeOK'
    <3>1. TypeOK'
      BY <1>2, Zenon DEF ChannelInv
    <3>2. fin' \in {NoRow} \cup [pc : {"read", "applied"}, st : Statuses, ver : Nat]
      BY <1>3, FinStep, Zenon DEF FinRows
    <3>3. coord' \in [Ops -> [pc : {"off", "stage", "poll"}, stage : 0 .. NStages + 1, ver : Nat]]
      BY <1>3, CoordStep, Zenon
    <3>4. /\ launch' \in [Ops -> BOOLEAN]
          /\ cancelFx' \in [Ops -> {"none", "cancelled", "cancelling"}]
      BY <1>3, LaunchStep, Zenon
    <3>5. opStatus' \in [Ops -> Statuses \cup {"absent"}] /\ opVersion' \in [Ops -> Nat]
      BY <1>3, RowTypeStep, Zenon
    <3> QED BY <3>1, <3>2, <3>3, <3>4, <3>5, Zenon DEF ReleaseTypeOK, NoRow
  <2>2. VersionsCount' /\ RowsHaveOps' /\ FinHolds' /\ DispatchImpliesQueued'
        /\ SuccessVouched'
    BY <1>3, VersionsCountStep, RowsHaveOpsStep, FinStep, DispatchStep, VouchedStep, Zenon
  <2>3. CoordHolds'
    <3>1. \A o \in Ops : launch'[o] => opVersion'[o] >= 1
      BY <1>3, LaunchStep, Zenon
    <3>2. \A o \in Ops : coord'[o] \in CoordSteps(o) /\ (coord'[o].pc # "off" => opVersion'[o] >= 2)
      BY <1>3, CoordStep, Zenon
    <3> QED BY <3>1, <3>2, Zenon DEF CoordHolds, CoordSteps
  <2> QED BY <1>2, <2>1, <2>2, <2>3, Zenon DEF ReleaseInv
<1>4. CASE UNCHANGED vars
  <2>1. UNCHANGED <<opStatus, opVersion, launch, coord, cancelFx, fin, status, local, gw>>
    BY <1>4, Zenon DEF vars, opVars, channelVars
  <2>2. TypeOK'
    BY <1>2, Zenon DEF ChannelInv
  <2>3. ReleaseTypeOK'
    BY <1>2, <2>1, <2>2, Zenon DEF ReleaseInv, ReleaseTypeOK
  <2>4. VersionsCount' /\ CoordHolds' /\ RowsHaveOps'
    BY <2>1, Zenon DEF ReleaseInv, VersionsCount, CoordHolds, RowsHaveOps
  <2>5. FinHolds' /\ DispatchImpliesQueued' /\ SuccessVouched'
    BY <2>1, Zenon
    DEF ReleaseInv, FinHolds, DispatchImpliesQueued, SuccessVouched, Vouched, Write, ResultOf, OperationOf
  <2> QED BY <1>2, <2>3, <2>4, <2>5, Zenon DEF ReleaseInv
<1> QED BY <1>3, <1>4, Zenon

\* The strengthening holds throughout.
THEOREM ReleaseInvariant == ReleaseSpec => []ReleaseInv
  BY ReleaseInitInv, ReleaseNextInv, PTL DEF ReleaseSpec

\* Every variable of the composition keeps its type, for every number of
\* operations and stages.
THEOREM ReleaseTypes == ReleaseSpec => []ReleaseTypeOK
<1>1. ReleaseInv => ReleaseTypeOK
  BY Zenon DEF ReleaseInv
<1> QED BY <1>1, ReleaseInvariant, PTL

\* queueOperation's transaction: a release write is in the outbox only when its
\* operation is queued or has been.
THEOREM DispatchedAfterQueued == ReleaseSpec => []DispatchImpliesQueued
<1>1. ReleaseInv => DispatchImpliesQueued
  BY Zenon DEF ReleaseInv
<1> QED BY <1>1, ReleaseInvariant, PTL

\* An operation recorded succeeded rests on a success the agent stored; a
\* ROLLBACK was applied (FinishOperation, HandleCommandResult).
THEOREM SuccessIsVouched == ReleaseSpec => []SuccessVouched
<1>1. ReleaseInv => SuccessVouched
  BY Zenon DEF ReleaseInv
<1> QED BY <1>1, ReleaseInvariant, PTL

\* The command channel inside the composition behaves like the channel on its
\* own, so that what CommandChannelProofs shows holds of the whole system.
THEOREM ChannelInside == ReleaseSpec => Spec
<1>1. ReleaseInit => Init
  BY Zenon DEF ReleaseInit
<1>2. ReleaseInv /\ [ReleaseNext]_vars => [Next]_channelVars
  BY ChannelRefined, Zenon DEF ReleaseInv
<1> QED BY <1>1, <1>2, ReleaseInvariant, PTL DEF ReleaseSpec, Spec

\* An acknowledged command of a running system is in the agent's store.
THEOREM ReleaseAcknowledged == ReleaseSpec => []AckedIsDurable
  BY ChannelInside, AcknowledgedIsStored, PTL

\* A release write that finished on the cluster is never run a second time,
\* whatever the operation's other writers do.
THEOREM ReleaseAppliedOnce == ReleaseSpec => CompletedNeverRerun
  BY ChannelInside, ExecutedAtMostOnce, PTL

\* The operations table keeps its promise: the RPC handlers, the coordinator,
\* the result handlers and the recovery sweep together only create operations
\* and move them along edges, one version at a time.
THEOREM KeepsPromise == ReleaseSpec => ImplementsLifecycle
<1>1. ReleaseInit => Promise!LifecycleInit
  BY Zenon DEF ReleaseInit, OpInit, Promise!LifecycleInit
<1>2. ReleaseInv /\ [ReleaseNext]_vars => [Promise!LifecycleNext]_Promise!lifecycleVars
  <2> SUFFICES ASSUME ReleaseInv, ReleaseNext
               PROVE  Promise!LifecycleNext \/ UNCHANGED <<opStatus, opVersion>>
    BY Zenon DEF Promise!lifecycleVars, vars, opVars
  <2>1. ASSUME NEW o \in Ops, CreateOperation(o) PROVE Promise!Created(o)
    BY <2>1, Zenon DEF CreateOperation, InitialStatus, Promise!Created
  <2>2. ASSUME NEW o \in Ops, NEW t \in Statuses, Writes(o, t) PROVE Promise!Moved(o)
    <3>1. t \in Promise!Statuses
      BY Zenon DEF Statuses, Promise!Statuses
    <3> QED BY <2>2, <3>1, Zenon DEF Writes, SetStatus, Promise!Moved
  <2> QED BY <2>1, <2>2, RowWriters, Zenon DEF Promise!LifecycleNext, rowVars
<1> QED BY <1>1, <1>2, ReleaseInvariant, PTL
        DEF ReleaseSpec, ImplementsLifecycle, Promise!LifecycleSpec

=============================================================================
