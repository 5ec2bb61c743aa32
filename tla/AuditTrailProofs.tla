-------------------------- MODULE AuditTrailProofs --------------------------
(***************************************************************************)
(* Proofs about the audit pipeline, for any set of events, any sizes of    *)
(* buffer, batch, drain and page, and any number of failures.              *)
(***************************************************************************)
EXTENDS AuditTrail, TLAPS

-----------------------------------------------------------------------------
(* The inductive invariant. *)

\* A run of the Archiver touches only what had expired when it began, and
\* reaches its delete after the archive is complete (Archive).
ArchiveInOrder ==
  /\ archiver.cutoff \subseteq old
  /\ archiver.page \subseteq archiver.cutoff
  /\ archiver.file \subseteq archiver.cutoff
  /\ archiver.step = "delete" => archiver.file \subseteq archived

\* The outbox worker acknowledges a row only after Emit took it (DrainOnce).
MarksAccepted ==
  /\ \A r \in Rows : outbox[r] = "delivered" => r \in accepted
  /\ drain.step = "mark" => \A r \in drain.rows : At(r) => r \in accepted

AuditInv == AuditTypeOK /\ AcceptedSurvives /\ ArchiveInOrder /\ MarksAccepted

-----------------------------------------------------------------------------
(* The contents of the channel and of the batch. *)

LEMMA RangeEmpty == Range(<<>>) = {}
  BY DEF Range

LEMMA RangeAppend ==
  ASSUME NEW S, NEW s \in Seq(S), NEW e
  PROVE  Range(Append(s, e)) = Range(s) \cup {e}
  <1>1. /\ DOMAIN s = 1 .. Len(s) /\ DOMAIN Append(s, e) = 1 .. Len(s) + 1
        /\ \A i \in 1 .. Len(s) : Append(s, e)[i] = s[i]
        /\ Append(s, e)[Len(s) + 1] = e /\ Len(s) \in Nat
    OBVIOUS
  <1>2. QED BY <1>1 DEF Range

LEMMA RangeHeadTail ==
  ASSUME NEW S, NEW s \in Seq(S), s # <<>>
  PROVE  Range(s) = {Head(s)} \cup Range(Tail(s))
  <1>1. /\ DOMAIN s = 1 .. Len(s) /\ DOMAIN Tail(s) = 1 .. Len(s) - 1
        /\ \A i \in 1 .. Len(s) - 1 : Tail(s)[i] = s[i + 1]
        /\ Head(s) = s[1] /\ Len(s) \in Nat \ {0}
    OBVIOUS
  <1>2. \A x : x \in Range(s) => x \in {Head(s)} \cup Range(Tail(s))
    <2> SUFFICES ASSUME NEW i \in 1 .. Len(s) PROVE s[i] \in {Head(s)} \cup Range(Tail(s))
      BY <1>1 DEF Range
    <2>1. CASE i = 1 BY <1>1, <2>1, Zenon
    <2>2. CASE i # 1
      <3>1. i - 1 \in 1 .. Len(s) - 1 /\ Tail(s)[i - 1] = s[i]
        BY <1>1, <2>2
      <3>2. QED BY <1>1, <3>1, Zenon DEF Range
    <2>3. QED BY <2>1, <2>2, Zenon
  <1>3. \A x : x \in {Head(s)} \cup Range(Tail(s)) => x \in Range(s)
    BY <1>1 DEF Range
  <1>4. QED BY <1>2, <1>3, Zenon

LEMMA RangeType ==
  ASSUME NEW S, NEW s \in Seq(S)
  PROVE  Range(s) \subseteq S
  BY DEF Range

LEMMA FaultsBounded ==
  ASSUME AuditAssumption, AuditTypeOK, Fault
  PROVE  faults' \in 0 .. MaxFaults
  BY DEF AuditAssumption, AuditTypeOK, Fault

-----------------------------------------------------------------------------
LEMMA InvInit ==
  ASSUME AuditAssumption, Init
  PROVE  AuditInv
  <1>1. AuditTypeOK
    <2>1. buffer \in Seq(Events) /\ Len(buffer) <= BufferSize /\ faults \in 0 .. MaxFaults
      BY DEF AuditAssumption, Init
    <2>2. archiver \in [step : {"idle", "list", "encode", "commit", "checksum", "delete"},
                       cutoff : SUBSET Events, page : SUBSET Events, file : SUBSET Events]
      BY Zenon DEF Init, NoRun
    <2>3. QED BY <2>1, <2>2, Zenon DEF Init, AuditTypeOK, Resting
  <1>2. AcceptedSurvives
    BY Zenon DEF Init, AcceptedSurvives
  <1>3. ArchiveInOrder /\ MarksAccepted
    BY Zenon DEF Init, ArchiveInOrder, NoRun, MarksAccepted, Resting
  <1>4. QED BY <1>1, <1>2, <1>3, Zenon DEF AuditInv

-----------------------------------------------------------------------------
(* One lemma per group of actions that disturb the same part of the state. *)

\* A transition commits its row; it is not acknowledged.
LEMMA TransitionStep ==
  ASSUME AuditInv, NEW r \in Rows, Transition(r)
  PROVE  AuditInv'
  <1> USE DEF Transition, emitterVars, archiveVars, faultVars
  <1>1. AuditTypeOK'
    BY Zenon DEF AuditInv, AuditTypeOK
  <1>2. AcceptedSurvives'
    BY Zenon DEF AuditInv, AcceptedSurvives, Recorded, InMemory
  <1>3. ArchiveInOrder'
    BY Zenon DEF AuditInv, ArchiveInOrder
  <1>4. MarksAccepted'
    BY DEF AuditInv, AuditTypeOK, MarksAccepted, At
  <1>5. QED BY <1>1, <1>2, <1>3, <1>4, Zenon DEF AuditInv

\* What Emit takes is in the channel from then on, and within its capacity.
LEMMA Taken ==
  ASSUME AuditAssumption, AuditInv, NEW e \in Events, Takes,
         buffer' = Append(buffer, e), accepted' = accepted \cup {e},
         UNCHANGED <<phase, batch, flushing, stored, spool, archiveVars, faultVars>>
  PROVE  /\ buffer' \in Seq(Events) /\ Len(buffer') <= BufferSize
         /\ accepted' \subseteq Events
         /\ AcceptedSurvives' /\ ArchiveInOrder'
  <1>1. buffer \in Seq(Events) /\ accepted \subseteq Events
    BY Zenon DEF AuditInv, AuditTypeOK
  <1>2. buffer' \in Seq(Events) /\ Len(buffer') <= BufferSize
    BY <1>1 DEF Takes, AuditAssumption
  <1>3. Range(buffer)' = Range(buffer) \cup {e}
    BY <1>1, RangeAppend, Zenon
  <1>4. AcceptedSurvives'
    BY <1>3, Zenon DEF AuditInv, AcceptedSurvives, Recorded, InMemory, archiveVars, faultVars
  <1>5. ArchiveInOrder'
    BY Zenon DEF AuditInv, ArchiveInOrder, archiveVars
  <1>6. QED BY <1>1, <1>2, <1>4, <1>5, Zenon

LEMMA DirectStep ==
  ASSUME AuditAssumption, AuditInv, NEW e \in Direct, EmitDirect(e)
  PROVE  AuditInv'
  <1>1. e \in Events /\ emitted' \subseteq Direct
    BY Zenon DEF Events, EmitDirect, AuditInv, AuditTypeOK
  <1>2. MarksAccepted'
    BY Zenon DEF EmitDirect, AuditInv, MarksAccepted, At
  <1>3. CASE Takes
    <2>1. /\ buffer' \in Seq(Events) /\ Len(buffer') <= BufferSize
          /\ accepted' \subseteq Events
          /\ AcceptedSurvives' /\ ArchiveInOrder'
      BY <1>1, <1>3, Taken, Zenon DEF EmitDirect
    <2>2. AuditTypeOK'
      BY <1>1, <2>1, Zenon DEF EmitDirect, AuditInv, AuditTypeOK, archiveVars, faultVars
    <2>3. QED BY <1>2, <2>1, <2>2, Zenon DEF AuditInv
  <1>4. CASE ~Takes
    <2>1. AuditTypeOK'
      BY <1>1, <1>4, Zenon DEF EmitDirect, AuditInv, AuditTypeOK, archiveVars, faultVars
    <2>2. AcceptedSurvives' /\ ArchiveInOrder'
      BY <1>4, Zenon DEF EmitDirect, AuditInv, AcceptedSurvives, ArchiveInOrder, Recorded, InMemory,
                  archiveVars, faultVars
    <2>3. QED BY <1>2, <2>1, <2>2, Zenon DEF AuditInv
  <1>5. QED BY <1>3, <1>4, Zenon

LEMMA ListStep ==
  ASSUME AuditInv, DrainList
  PROVE  AuditInv'
  <1> USE DEF DrainList, emitterVars, archiveVars, faultVars
  <1>1. drain' \in [rows : SUBSET Rows, step : {"emit", "mark"}] /\ drain'.step = "emit"
    BY Zenon DEF First, Queue
  <1>2. AuditTypeOK'
    BY <1>1, Zenon DEF AuditInv, AuditTypeOK
  <1>3. AcceptedSurvives' /\ ArchiveInOrder'
    BY Zenon DEF AuditInv, AcceptedSurvives, ArchiveInOrder, Recorded, InMemory
  <1>4. MarksAccepted'
    BY <1>1, Zenon DEF AuditInv, MarksAccepted
  <1>5. QED BY <1>2, <1>3, <1>4, Zenon DEF AuditInv

LEMMA EmitStep ==
  ASSUME AuditAssumption, AuditInv, NEW r \in drain.rows, DrainEmit(r)
  PROVE  AuditInv'
  <1>1. /\ drain \in [rows : SUBSET Rows, step : {"emit", "mark"}]
        /\ r \in Rows /\ r \in Events
    BY Zenon DEF Events, AuditInv, AuditTypeOK
  <1>2. CASE Takes
    <2>1. /\ buffer' \in Seq(Events) /\ Len(buffer') <= BufferSize
          /\ accepted' \subseteq Events
          /\ AcceptedSurvives' /\ ArchiveInOrder'
      BY <1>1, <1>2, Taken, Zenon DEF DrainEmit
    <2>2. /\ drain' \in [rows : SUBSET Rows, step : {"emit", "mark"}]
          /\ drain'.rows = drain.rows
      BY <1>1, <1>2, Zenon DEF DrainEmit
    <2>3. AuditTypeOK'
      BY <2>1, <2>2, Zenon DEF DrainEmit, AuditInv, AuditTypeOK, archiveVars, faultVars
    <2>4. \A d \in drain'.rows : At(d)' => d = r
      <3>1. drain.rows \subseteq Nat
        BY <1>1, Zenon DEF AuditAssumption, Events
      <3>2. QED BY <2>2, <3>1 DEF DrainEmit, At
    <2>5. MarksAccepted'
      BY <1>2, <2>4, Zenon DEF DrainEmit, AuditInv, MarksAccepted
    <2>6. QED BY <2>1, <2>3, <2>5, Zenon DEF AuditInv
  <1>3. CASE ~Takes
    <2>1. /\ drain' \in [rows : SUBSET Rows, step : {"emit", "mark"}]
          /\ drain'.step = "emit"
      BY <1>1, <1>3 DEF DrainEmit
    <2>2. AuditTypeOK'
      BY <1>3, <2>1, Zenon DEF DrainEmit, AuditInv, AuditTypeOK, archiveVars, faultVars
    <2>3. AcceptedSurvives' /\ ArchiveInOrder'
      BY <1>3, Zenon DEF DrainEmit, AuditInv, AcceptedSurvives, ArchiveInOrder, Recorded, InMemory,
                  archiveVars, faultVars
    <2>4. MarksAccepted'
      BY <1>3, <2>1, Zenon DEF DrainEmit, AuditInv, MarksAccepted
    <2>5. QED BY <2>2, <2>3, <2>4, Zenon DEF AuditInv
  <1>4. QED BY <1>2, <1>3, Zenon

LEMMA MarkStep ==
  ASSUME AuditInv, NEW r \in drain.rows, DrainMark(r)
  PROVE  AuditInv'
  <1> USE DEF DrainMark, emitterVars, archiveVars, faultVars
  <1>1. /\ drain' \in [rows : SUBSET Rows, step : {"emit", "mark"}] /\ drain'.step = "emit"
        /\ r \in Rows /\ r \in accepted
    BY Zenon DEF AuditInv, AuditTypeOK, MarksAccepted
  <1>2. AuditTypeOK'
    BY <1>1, Zenon DEF AuditInv, AuditTypeOK
  <1>3. AcceptedSurvives' /\ ArchiveInOrder'
    BY Zenon DEF AuditInv, AcceptedSurvives, ArchiveInOrder, Recorded, InMemory
  <1>4. MarksAccepted'
    BY <1>1 DEF AuditInv, AuditTypeOK, MarksAccepted
  <1>5. QED BY <1>2, <1>3, <1>4, Zenon DEF AuditInv

LEMMA MarkFailsStep ==
  ASSUME AuditAssumption, AuditInv, DrainMarkFails
  PROVE  AuditInv'
  <1> USE DEF DrainMarkFails, emitterVars, archiveVars
  <1>1. drain' \in [rows : SUBSET Rows, step : {"emit", "mark"}] /\ drain'.step = "emit"
    BY Zenon DEF Resting
  <1>2. AuditTypeOK'
    BY <1>1 DEF AuditInv, AuditTypeOK, Fault, AuditAssumption
  <1>3. AcceptedSurvives' /\ ArchiveInOrder'
    BY Zenon DEF AuditInv, AcceptedSurvives, ArchiveInOrder, Recorded, InMemory
  <1>4. MarksAccepted'
    BY <1>1, Zenon DEF AuditInv, MarksAccepted
  <1>5. QED BY <1>2, <1>3, <1>4, Zenon DEF AuditInv

-----------------------------------------------------------------------------
(* The Emitter's worker. *)

LEMMA ReceiveStep ==
  ASSUME AuditInv, Receive
  PROVE  AuditInv'
  <1> USE DEF Receive, archiveVars, faultVars
  <1>1. buffer \in Seq(Events) /\ Len(buffer) <= BufferSize /\ batch \in Seq(Events)
    BY Zenon DEF AuditInv, AuditTypeOK
  <1>2. /\ buffer' \in Seq(Events) /\ Len(buffer') <= BufferSize /\ batch' \in Seq(Events)
        /\ flushing' \in BOOLEAN
    BY <1>1, AuditAssumption DEF AuditAssumption
  <1>3. /\ Range(buffer) = {Head(buffer)} \cup Range(Tail(buffer))
        /\ Range(Append(batch, Head(buffer))) = Range(batch) \cup {Head(buffer)}
    BY <1>1, RangeHeadTail, RangeAppend, Zenon
  <1>4. InMemory' = InMemory
    BY <1>3, Zenon DEF InMemory
  <1>5. AuditTypeOK'
    BY <1>2, Zenon DEF AuditInv, AuditTypeOK
  <1>6. AcceptedSurvives' /\ ArchiveInOrder'
    BY <1>4, Zenon DEF AuditInv, AcceptedSurvives, ArchiveInOrder, Recorded
  <1>7. MarksAccepted'
    BY Zenon DEF AuditInv, MarksAccepted, At
  <1>8. QED BY <1>5, <1>6, <1>7, Zenon DEF AuditInv

\* Steps of the process that move no event.
LEMMA ControlStep ==
  ASSUME AuditAssumption, AuditInv, Tick \/ Shutdown \/ Restart
  PROVE  AuditInv'
  <1>1. /\ phase' \in {"open", "closing", "down"} /\ flushing' \in BOOLEAN
        /\ faults' \in 0 .. MaxFaults
        /\ UNCHANGED <<outbox, emitted, accepted, drain, buffer, batch, stored, spool,
                      old, archiver, archived, crashed>>
    <2>1. CASE Tick
      BY <2>1, Zenon DEF AuditInv, AuditTypeOK, Tick, archiveVars, faultVars
    <2>2. CASE Shutdown
      BY <2>2, FaultsBounded, Zenon DEF AuditInv, AuditTypeOK, Shutdown, archiveVars
    <2>3. CASE Restart
      BY <2>3, Zenon DEF AuditInv, AuditTypeOK, Restart, archiveVars, faultVars
    <2>4. QED BY <2>1, <2>2, <2>3, Zenon
  <1>2. QED BY <1>1, Zenon DEF AuditInv, AuditTypeOK, AcceptedSurvives, ArchiveInOrder, MarksAccepted,
                        Recorded, InMemory, At

\* A batch is stored whole, kept whole, or spooled whole.
LEMMA FlushStep ==
  ASSUME AuditAssumption, AuditInv, Flush \/ Drained
  PROVE  AuditInv'
  <1>1. batch \in Seq(Events) /\ Range(batch) \subseteq Events
    BY RangeType, Zenon DEF AuditInv, AuditTypeOK
  <1>2. /\ stored' \subseteq Events /\ spool' \subseteq Events /\ batch' \in Seq(Events)
        /\ phase' \in {"open", "closing", "down"} /\ flushing' \in BOOLEAN
        /\ faults' \in 0 .. MaxFaults
        /\ UNCHANGED <<outbox, emitted, accepted, buffer, old, archiver, archived, crashed>>
    <2>1. faults' \in 0 .. MaxFaults
      BY FaultsBounded, Zenon DEF AuditInv, AuditTypeOK, Flush, Drained
    <2>2. CASE Flush
      <3>1. stored' \subseteq Events /\ batch' \in Seq(Events)
        <4>1. stored \subseteq Events
          BY Zenon DEF AuditInv, AuditTypeOK
        <4>2. \/ stored' = stored \cup Range(batch) /\ batch' = <<>>
              \/ stored' = stored /\ batch' = batch
          BY <2>2, Zenon DEF Flush
        <4>3. batch' \in Seq(Events)
          <5>1. batch' = <<>> \/ batch' = batch
            BY <4>2, Zenon
          <5>2. <<>> \in Seq(Events) /\ batch \in Seq(Events)
            BY <1>1
          <5>3. QED BY <5>1, <5>2, Zenon
        <4>4. stored' \subseteq Events
          <5> DEFINE B == Range(batch)
          <5>1. B \subseteq Events /\ (stored' = stored \cup B \/ stored' = stored)
            BY <1>1, <4>2, Zenon
          <5> HIDE DEF B
          <5>2. QED BY <4>1, <5>1, Zenon
        <4>5. QED BY <4>3, <4>4, Zenon
      <3>2. spool' \subseteq Events /\ phase' \in {"open", "closing", "down"} /\ flushing' \in BOOLEAN
        BY <2>2, Zenon DEF AuditInv, AuditTypeOK, Flush
      <3>3. UNCHANGED <<outbox, emitted, accepted, buffer, old, archiver, archived, crashed>>
        BY <2>2, Zenon DEF Flush, archiveVars
      <3>4. QED BY <2>1, <3>1, <3>2, <3>3, Zenon
    <2>3. CASE Drained
      BY <1>1, <2>1, <2>3, Zenon DEF AuditInv, AuditTypeOK, Drained, archiveVars
    <2>4. QED BY <2>2, <2>3, Zenon
  <1>3. drain' = drain \/ drain' = Resting
    BY Zenon DEF Flush, Drained
  <1>4. /\ stored \subseteq stored' /\ spool \subseteq spool'
        /\ Range(batch) \subseteq stored' \cup spool' \cup Range(batch)'
    BY Zenon DEF Flush, Drained
  <1>5. AuditTypeOK'
    <2>1. drain' \in [rows : SUBSET Rows, step : {"emit", "mark"}]
      BY <1>3 DEF AuditInv, AuditTypeOK, Resting
    <2>2. QED BY <1>2, <2>1, Zenon DEF AuditInv, AuditTypeOK
  <1>6. AcceptedSurvives'
    BY <1>2, <1>4, Zenon DEF AuditInv, AcceptedSurvives, Recorded, InMemory
  <1>7. ArchiveInOrder'
    BY <1>2, Zenon DEF AuditInv, ArchiveInOrder
  <1>8. MarksAccepted'
    BY <1>2, <1>3 DEF AuditInv, MarksAccepted, Resting, At
  <1>9. QED BY <1>5, <1>6, <1>7, <1>8, Zenon DEF AuditInv

LEMMA CrashStep ==
  ASSUME AuditAssumption, AuditInv, Crash
  PROVE  AuditInv'
  <1> USE DEF Crash, archiveVars
  <1>1. buffer' \in Seq(Events) /\ Len(buffer') <= BufferSize /\ batch' \in Seq(Events)
    BY DEF AuditAssumption
  <1>2. AuditTypeOK'
    BY <1>1, FaultsBounded, Zenon DEF AuditInv, AuditTypeOK, Resting
  <1>3. AcceptedSurvives' /\ ArchiveInOrder'
    BY Zenon DEF AuditInv, AcceptedSurvives, ArchiveInOrder
  <1>4. MarksAccepted'
    BY Zenon DEF AuditInv, MarksAccepted, Resting
  <1>5. QED BY <1>2, <1>3, <1>4, Zenon DEF AuditInv

-----------------------------------------------------------------------------
(* The Archiver. *)

LEMMA AgeStep ==
  ASSUME AuditInv, NEW e \in Events, Age(e)
  PROVE  AuditInv'
  <1> USE DEF Age, emitterVars, faultVars
  <1>1. AuditTypeOK'
    BY DEF AuditInv, AuditTypeOK
  <1>2. AcceptedSurvives'
    BY Zenon DEF AuditInv, AcceptedSurvives, Recorded, InMemory
  <1>3. ArchiveInOrder'
    BY Zenon DEF AuditInv, ArchiveInOrder
  <1>4. MarksAccepted'
    BY Zenon DEF AuditInv, MarksAccepted, At
  <1>5. QED BY <1>1, <1>2, <1>3, <1>4, Zenon DEF AuditInv

ArchiverType ==
  archiver \in [step : {"idle", "list", "encode", "commit", "checksum", "delete"},
               cutoff : SUBSET Events, page : SUBSET Events, file : SUBSET Events]

\* Steps of a run up to the checksum: only the run's own state changes, and it
\* stays within what had expired.
LEMMA RunStep ==
  ASSUME AuditAssumption, AuditInv,
         ArchiveBegin \/ ArchiveList \/ ArchiveEncode \/ ArchiveRename \/ ArchiveFails
  PROVE  AuditInv'
  <1>1. ArchiverType /\ ArchiveInOrder /\ old \subseteq Events
    BY Zenon DEF AuditInv, AuditTypeOK, ArchiverType
  <1>2. ArchiverType' /\ ArchiveInOrder'
    <2>1. CASE ArchiveBegin
      BY <1>1, <2>1, Zenon DEF ArchiveBegin, ArchiverType, ArchiveInOrder, NoRun
    <2>2. CASE ArchiveList
      BY <1>1, <2>2, Zenon DEF ArchiveList, ArchiverType, ArchiveInOrder, First
    <2>3. CASE ArchiveEncode
      BY <1>1, <2>3, Zenon DEF ArchiveEncode, ArchiverType, ArchiveInOrder
    <2>4. CASE ArchiveRename
      BY <1>1, <2>4, Zenon DEF ArchiveRename, ArchiverType, ArchiveInOrder
    <2>5. CASE ArchiveFails
      BY <1>1, <2>5, Zenon DEF ArchiveFails, ArchiverType, ArchiveInOrder, NoRun
    <2>6. QED BY <2>1, <2>2, <2>3, <2>4, <2>5, Zenon
  <1>3. /\ UNCHANGED <<outbox, emitted, accepted, drain, phase, buffer, batch, flushing, stored,
                      spool, old, archived, crashed>>
        /\ faults' \in 0 .. MaxFaults
    BY DEF ArchiveBegin, ArchiveList, ArchiveEncode, ArchiveRename, ArchiveFails, emitterVars,
           faultVars, Fault, AuditInv, AuditTypeOK, AuditAssumption
  <1>4. QED BY <1>2, <1>3, Zenon DEF AuditInv, AuditTypeOK, ArchiverType, AcceptedSurvives, MarksAccepted,
                              Recorded, InMemory, At

LEMMA ChecksumStep ==
  ASSUME AuditInv, ArchiveChecksum
  PROVE  AuditInv'
  <1> USE DEF ArchiveChecksum, emitterVars, faultVars
  <1>1. ArchiverType /\ ArchiveInOrder /\ archived \subseteq Events
    BY Zenon DEF AuditInv, AuditTypeOK, ArchiverType
  <1>2. ArchiverType' /\ ArchiveInOrder' /\ archived' \subseteq Events /\ archived \subseteq archived'
    BY <1>1, Zenon DEF ArchiverType, ArchiveInOrder
  <1>3. AuditTypeOK'
    BY <1>2, Zenon DEF AuditInv, AuditTypeOK, ArchiverType
  <1>4. AcceptedSurvives' /\ MarksAccepted'
    BY <1>2, Zenon DEF AuditInv, AcceptedSurvives, MarksAccepted, Recorded, InMemory, At
  <1>5. QED BY <1>2, <1>3, <1>4, Zenon DEF AuditInv

\* What the delete removes expired before the run began, and is in the archive.
LEMMA DeleteStep ==
  ASSUME AuditInv, ArchiveDelete
  PROVE  AuditInv'
  <1> USE DEF ArchiveDelete, emitterVars, faultVars
  <1>1. archiver.file \subseteq old /\ archiver.file \subseteq archived
    BY Zenon DEF AuditInv, ArchiveInOrder
  <1>2. ArchiverType' /\ ArchiveInOrder'
    BY Zenon DEF ArchiverType, ArchiveInOrder, NoRun
  <1>3. AuditTypeOK'
    BY <1>2, Zenon DEF AuditInv, AuditTypeOK, ArchiverType
  <1>4. AcceptedSurvives'
    BY <1>1, Zenon DEF AuditInv, AcceptedSurvives, Recorded, InMemory
  <1>5. MarksAccepted'
    BY Zenon DEF AuditInv, MarksAccepted, At
  <1>6. QED BY <1>2, <1>3, <1>4, <1>5, Zenon DEF AuditInv

-----------------------------------------------------------------------------
LEMMA InvNext ==
  ASSUME AuditAssumption, AuditInv, [Next]_vars
  PROVE  AuditInv'
  <1>1. ASSUME NEW r \in Rows, Transition(r) PROVE AuditInv'
    BY <1>1, TransitionStep, Zenon
  <1>2. ASSUME NEW e \in Direct, EmitDirect(e) PROVE AuditInv'
    BY <1>2, DirectStep, Zenon
  <1>3. CASE DrainStep \/ DrainMarkFails
    BY <1>3, ListStep, EmitStep, MarkStep, MarkFailsStep, Zenon DEF DrainStep
  <1>4. CASE EmitterStep \/ Shutdown \/ Crash \/ Restart
    BY <1>4, ReceiveStep, ControlStep, FlushStep, CrashStep, Zenon DEF EmitterStep
  <1>5. ASSUME NEW e \in Events, Age(e) PROVE AuditInv'
    BY <1>5, AgeStep, Zenon
  <1>6. CASE ArchiveBegin \/ ArchiveStep \/ ArchiveFails
    BY <1>6, RunStep, ChecksumStep, DeleteStep, Zenon DEF ArchiveStep
  <1>7. CASE UNCHANGED vars
    BY <1>7 DEF vars, emitterVars, archiveVars, faultVars, AuditInv, AuditTypeOK, AcceptedSurvives,
                ArchiveInOrder, MarksAccepted, Recorded, InMemory, At
  <1>8. QED BY <1>1, <1>2, <1>3, <1>4, <1>5, <1>6, <1>7, Zenon DEF Next

LEMMA AuditInvariant ==
  Spec => []AuditInv
  <1>1. Init => AuditInv
    BY InvInit, AuditAssumption, Zenon
  <1>2. AuditInv /\ [Next]_vars => AuditInv'
    BY InvNext, AuditAssumption, Zenon
  <1>3. QED BY <1>1, <1>2, PTL DEF Spec

-----------------------------------------------------------------------------
(* What the audit pipeline promises. *)

\* Every variable keeps its type, and the channel never holds more than its
\* capacity, whoever emits (Emit).
THEOREM AuditTypes ==
  Spec => []AuditTypeOK
  <1>1. AuditInv => AuditTypeOK
    BY Zenon DEF AuditInv
  <1>2. QED BY <1>1, AuditInvariant, PTL

\* Short of a crash no accepted event is lost, whatever fails, stops and starts
\* again, and one that has not expired is outside the archives too (Emit,
\* flush, drain, Archive).
THEOREM NothingAcceptedIsLost ==
  Spec => []AcceptedSurvives
  <1>1. AuditInv => AcceptedSurvives
    BY Zenon DEF AuditInv
  <1>2. QED BY <1>1, AuditInvariant, PTL

\* A row is acknowledged only after Emit took its event, so short of a crash an
\* acknowledged row is in the pipeline or in the trail (DrainOnce).
THEOREM AcknowledgedIsKept ==
  Spec => [](crashed \/ AcknowledgedSurvives)
  <1>1. AuditInv => crashed \/ AcknowledgedSurvives
    BY Zenon DEF AuditInv, AcceptedSurvives, MarksAccepted, AcknowledgedSurvives
  <1>2. QED BY <1>1, AuditInvariant, PTL

\* Nothing leaves audit_events but what a completed archive holds, although the
\* table grows while a run is under way (Archive).
THEOREM DeletionFollowsArchive ==
  Spec => DeletesOnlyArchived
  <1>1. ASSUME AuditInv, [Next]_vars PROVE stored \ stored' \subseteq archived
    <2>1. CASE ArchiveDelete
      BY <1>1, <2>1, Zenon DEF AuditInv, ArchiveInOrder, ArchiveDelete
    <2>2. CASE ~ArchiveDelete
      <3>1. stored \subseteq stored'
        BY <1>1, <2>2, Zenon DEF Next, vars, DrainStep, EmitterStep, ArchiveStep, Transition, EmitDirect,
           DrainList, DrainEmit, DrainMark, DrainMarkFails, Receive, Tick, Flush, Drained,
           Shutdown, Crash, Restart, Age, ArchiveBegin, ArchiveList, ArchiveEncode, ArchiveRename,
           ArchiveChecksum, ArchiveFails
      <3>2. QED BY <3>1, Zenon
    <2>3. QED BY <2>1, <2>2, Zenon
  <1>2. AuditInv /\ [Next]_vars => [stored \ stored' \subseteq archived]_vars
    BY <1>1, Zenon
  <1>3. QED BY <1>2, AuditInvariant, PTL DEF Spec, DeletesOnlyArchived

=============================================================================
