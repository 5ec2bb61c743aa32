----------------------------- MODULE AuditTrail -----------------------------
(***************************************************************************)
(* The audit pipeline: business code emits events into the in-memory       *)
(* buffer of the Emitter; the AuditOutboxWorker drains the rows that       *)
(* approval and bundle transitions wrote in their own transaction into the *)
(* same Emitter; its worker persists batches into audit_events, or writes  *)
(* the rest to a spool file when the process stops; and the Archiver of    *)
(* another process moves old events from the table into archive files.     *)
(*                                                                         *)
(* An event is the number it has in (created_at, id) order.                *)
(***************************************************************************)
EXTENDS Naturals, Sequences, FiniteSets, Functions

CONSTANTS
  Rows,          \* events that come through audit_outbox
  Direct,        \* events emitted by a handler after its own commit
  BufferSize,    \* capacity of the Emitter's channel (4096)
  BatchSize,     \* events persisted together (200)
  DrainSize,     \* rows the outbox worker lists at once (50)
  PageSize,      \* events the Archiver lists at once (1000)
  MaxBatch,      \* bound: events the Emitter's worker holds (none in the code)
  MaxFaults      \* bound: stops, crashes and failures of calls

Events == Rows \cup Direct

ASSUME AuditAssumption ==
  /\ Events \subseteq Nat /\ Rows \cap Direct = {}
  /\ BufferSize \in Nat \ {0} /\ BatchSize \in Nat \ {0}
  /\ DrainSize \in Nat \ {0} /\ PageSize \in Nat \ {0}
  /\ MaxBatch \in Nat /\ MaxBatch >= BatchSize
  /\ MaxFaults \in Nat

VARIABLES
  outbox,      \* each row: "absent", "queued" or "delivered"
  emitted,     \* Direct events whose handler has called Emit
  accepted,    \* events Emit took, as its caller was told
  drain,       \* the outbox worker: rows left of its pass, which it handles in
               \* order, and its next step
  phase,       \* the Emitter's process: "open", "closing" or "down"
  buffer,      \* the channel
  batch,       \* what the Emitter's worker has taken from it
  flushing,    \* whether that worker is about to persist its batch
  stored,      \* audit_events
  spool,       \* events in the spool file
  old,         \* events past the retention period
  archiver,    \* the Archiver's step, its cutoff, the page it read, and its file
  archived,    \* events in archives that have their checksum file
  crashed,     \* whether the process has ever stopped without Shutdown
  faults       \* failures so far

emitterVars == <<phase, buffer, batch, flushing>>
archiveVars == <<old, archiver, archived>>
faultVars == <<crashed, faults>>
vars == <<outbox, emitted, accepted, drain, emitterVars, stored, spool, archiveVars, faultVars>>

Resting == [rows |-> {}, step |-> "emit"]
NoRun == [step |-> "idle", cutoff |-> {}, page |-> {}, file |-> {}]

Init ==
  /\ outbox = [r \in Rows |-> "absent"]
  /\ emitted = {} /\ accepted = {}
  /\ drain = Resting
  /\ phase = "open" /\ buffer = <<>> /\ batch = <<>> /\ flushing = FALSE
  /\ stored = {} /\ spool = {}
  /\ old = {} /\ archiver = NoRun /\ archived = {}
  /\ crashed = FALSE /\ faults = 0

Fault == faults < MaxFaults /\ faults' = faults + 1

-----------------------------------------------------------------------------
(* Emit: non-blocking; refused when the channel is closed or full. *)

Takes == phase = "open" /\ Len(buffer) < BufferSize

\* A transition commits its audit row.
Transition(r) ==
  /\ outbox[r] = "absent"
  /\ outbox' = [outbox EXCEPT ![r] = "queued"]
  /\ UNCHANGED <<emitted, accepted, drain, emitterVars, stored, spool, archiveVars, faultVars>>

\* A handler emits after its own commit; a refused event is only logged.
EmitDirect(e) ==
  /\ phase # "down"
  /\ e \notin emitted
  /\ emitted' = emitted \cup {e}
  /\ IF Takes
       THEN buffer' = Append(buffer, e) /\ accepted' = accepted \cup {e}
       ELSE UNCHANGED <<buffer, accepted>>
  /\ UNCHANGED <<outbox, drain, phase, batch, flushing, stored, spool, archiveVars, faultVars>>

-----------------------------------------------------------------------------
(* AuditOutboxWorker.DrainOnce. *)

Queue == {r \in Rows : outbox[r] = "queued"}
First(S, n) == {e \in S : Cardinality({d \in S : d < e}) < n}

DrainList ==
  /\ phase = "open"
  /\ drain.rows = {} /\ Queue # {}
  /\ drain' = [rows |-> First(Queue, DrainSize), step |-> "emit"]
  /\ UNCHANGED <<outbox, emitted, accepted, emitterVars, stored, spool, archiveVars, faultVars>>

\* The row the worker is at.
At(r) == r \in drain.rows /\ \A d \in drain.rows : r <= d

\* Mutant of DrainEmit: a refused row is acknowledged too.
DrainEmitAcked(r) ==
  /\ phase # "down"
  /\ At(r) /\ drain.step = "emit"
  /\ IF Takes
       THEN buffer' = Append(buffer, r) /\ accepted' = accepted \cup {r}
       ELSE UNCHANGED <<buffer, accepted>>
  /\ drain' = [drain EXCEPT !.step = "mark"]
  /\ UNCHANGED <<outbox, emitted, phase, batch, flushing, stored, spool, archiveVars, faultVars>>

\* An accepted row goes on to be acknowledged, a refused one stays queued.
DrainEmit(r) ==
  /\ phase # "down"
  /\ At(r) /\ drain.step = "emit"
  /\ IF Takes
       THEN /\ buffer' = Append(buffer, r) /\ accepted' = accepted \cup {r}
            /\ drain' = [drain EXCEPT !.step = "mark"]
       ELSE /\ drain' = [drain EXCEPT !.rows = @ \ {r}]
            /\ UNCHANGED <<buffer, accepted>>
  /\ UNCHANGED <<outbox, emitted, phase, batch, flushing, stored, spool, archiveVars, faultVars>>

DrainMark(r) ==
  /\ phase # "down"
  /\ At(r) /\ drain.step = "mark"
  /\ outbox' = [outbox EXCEPT ![r] = "delivered"]
  /\ drain' = [rows |-> drain.rows \ {r}, step |-> "emit"]
  /\ UNCHANGED <<emitted, accepted, emitterVars, stored, spool, archiveVars, faultVars>>

\* The acknowledgement fails, as it does once the process is being stopped and
\* the worker's context is cancelled: the pass ends.
DrainMarkFails ==
  /\ drain.step = "mark"
  /\ IF phase = "closing" THEN UNCHANGED faults ELSE phase = "open" /\ Fault
  /\ drain' = Resting
  /\ UNCHANGED <<outbox, emitted, accepted, emitterVars, stored, spool, archiveVars, crashed>>

-----------------------------------------------------------------------------
(* The Emitter's worker goroutine. *)

Receive ==
  /\ phase # "down" /\ ~flushing
  /\ buffer # <<>> /\ Len(batch) < MaxBatch
  /\ buffer' = Tail(buffer)
  /\ batch' = Append(batch, Head(buffer))
  /\ flushing' = (Len(batch') >= BatchSize)
  /\ UNCHANGED <<outbox, emitted, accepted, drain, phase, stored, spool, archiveVars, faultVars>>

Tick ==
  /\ phase # "down" /\ ~flushing
  /\ batch # <<>>
  /\ flushing' = TRUE
  /\ UNCHANGED <<outbox, emitted, accepted, drain, phase, buffer, batch, stored, spool, archiveVars, faultVars>>

\* CreateBatch is one transaction and skips ids it has; a failed batch is kept.
Flush ==
  /\ phase # "down" /\ flushing
  /\ flushing' = FALSE
  /\ \/ stored' = stored \cup Range(batch) /\ batch' = <<>> /\ UNCHANGED faults
     \/ Fault /\ UNCHANGED <<stored, batch>>
  /\ UNCHANGED <<outbox, emitted, accepted, drain, phase, buffer, spool, archiveVars, crashed>>

\* Shutdown closes the channel; Emit refuses from then on.
Shutdown ==
  /\ Fault
  /\ phase = "open"
  /\ phase' = "closing"
  /\ UNCHANGED <<outbox, emitted, accepted, drain, buffer, batch, flushing, stored, spool, archiveVars, crashed>>

\* Mutant of Drained: what could not be stored is dropped.
DrainedUnspooled ==
  /\ phase = "closing" /\ ~flushing
  /\ buffer = <<>>
  /\ \/ stored' = stored \cup Range(batch) /\ UNCHANGED faults
     \/ Fault /\ UNCHANGED stored
  /\ batch' = <<>> /\ phase' = "down" /\ drain' = Resting
  /\ UNCHANGED <<outbox, emitted, accepted, buffer, flushing, spool, archiveVars, crashed>>

\* The channel is drained: a last flush, and what it could not store is spooled.
Drained ==
  /\ phase = "closing" /\ ~flushing
  /\ buffer = <<>>
  /\ \/ stored' = stored \cup Range(batch) /\ UNCHANGED <<spool, faults>>
     \/ Fault /\ spool' = spool \cup Range(batch) /\ UNCHANGED stored
  /\ batch' = <<>> /\ phase' = "down" /\ drain' = Resting
  /\ UNCHANGED <<outbox, emitted, accepted, buffer, flushing, archiveVars, crashed>>

Crash ==
  /\ Fault /\ crashed' = TRUE
  /\ phase # "down"
  /\ phase' = "down" /\ buffer' = <<>> /\ batch' = <<>> /\ flushing' = FALSE
  /\ drain' = Resting
  /\ UNCHANGED <<outbox, emitted, accepted, stored, spool, archiveVars>>

Restart ==
  /\ phase = "down"
  /\ phase' = "open"
  /\ UNCHANGED <<outbox, emitted, accepted, drain, buffer, batch, flushing, stored, spool, archiveVars, faultVars>>

-----------------------------------------------------------------------------
(* ArchiveWorker.runOnce and Archiver.Archive, in the release-api process. *)

\* Time passes: events expire in created_at order.
Age(e) ==
  /\ e \notin old /\ \A d \in Events : d < e => d \in old
  /\ old' = old \cup {e}
  /\ UNCHANGED <<outbox, emitted, accepted, drain, emitterVars, stored, spool, archiver, archived, faultVars>>

ArchiveBegin ==
  /\ archiver.step = "idle"
  /\ archiver' = [NoRun EXCEPT !.step = "list", !.cutoff = old]
  /\ UNCHANGED <<outbox, emitted, accepted, drain, emitterVars, stored, spool, old, archived, faultVars>>

\* ListOlderThan has no cursor: it reads the first page of what is in the table.
ArchiveList ==
  /\ archiver.step = "list"
  /\ LET page == First(stored \cap archiver.cutoff, PageSize)
     IN  archiver' = [archiver EXCEPT !.page = page,
                                      !.step = IF page = {} THEN "commit" ELSE "encode"]
  /\ UNCHANGED <<outbox, emitted, accepted, drain, emitterVars, stored, spool, old, archived, faultVars>>

\* Mutant of ArchiveEncode: only an empty page ends the loop.
ArchiveEncodeUntilEmpty ==
  /\ archiver.step = "encode"
  /\ archiver' = [archiver EXCEPT !.step = "list", !.page = {}, !.file = @ \cup archiver.page]
  /\ UNCHANGED <<outbox, emitted, accepted, drain, emitterVars, stored, spool, old, archived, faultVars>>

ArchiveEncode ==
  /\ archiver.step = "encode"
  /\ archiver' = [archiver EXCEPT
         !.step = IF Cardinality(archiver.page) < PageSize THEN "commit" ELSE "list",
         !.page = {}, !.file = @ \cup archiver.page]
  /\ UNCHANGED <<outbox, emitted, accepted, drain, emitterVars, stored, spool, old, archived, faultVars>>

\* Commit renames the file; the checksum file follows. An archive of the same
\* events and cutoff that an earlier run completed is kept instead, to the same end.
ArchiveRename ==
  /\ archiver.step = "commit"
  /\ archiver' = [archiver EXCEPT !.step = "checksum"]
  /\ UNCHANGED <<outbox, emitted, accepted, drain, emitterVars, stored, spool, old, archived, faultVars>>

\* Mutant of ArchiveChecksum: the rows go before the archive is known to be complete.
ArchiveChecksumDeletes ==
  /\ archiver.step = "checksum"
  /\ archived' = archived \cup archiver.file
  /\ stored' = stored \ archiver.file
  /\ archiver' = NoRun
  /\ UNCHANGED <<outbox, emitted, accepted, drain, emitterVars, spool, old, faultVars>>

ArchiveChecksum ==
  /\ archiver.step = "checksum"
  /\ archived' = archived \cup archiver.file
  /\ archiver' = [archiver EXCEPT !.step = "delete"]
  /\ UNCHANGED <<outbox, emitted, accepted, drain, emitterVars, stored, spool, old, faultVars>>

ArchiveDelete ==
  /\ archiver.step = "delete"
  /\ stored' = stored \ archiver.file
  /\ archiver' = NoRun
  /\ UNCHANGED <<outbox, emitted, accepted, drain, emitterVars, spool, old, archived, faultVars>>

\* Any step of a run fails, or release-api stops.
ArchiveFails ==
  /\ Fault
  /\ archiver.step # "idle"
  /\ archiver' = NoRun
  /\ UNCHANGED <<outbox, emitted, accepted, drain, emitterVars, stored, spool, old, archived, crashed>>

-----------------------------------------------------------------------------
DrainStep == DrainList \/ \E r \in drain.rows : DrainEmit(r) \/ DrainMark(r)
EmitterStep == Receive \/ Tick \/ Flush \/ Drained
ArchiveStep == ArchiveList \/ ArchiveEncode \/ ArchiveRename \/ ArchiveChecksum \/ ArchiveDelete

Next ==
  \/ \E r \in Rows : Transition(r)
  \/ \E e \in Direct : EmitDirect(e)
  \/ DrainStep \/ DrainMarkFails
  \/ EmitterStep \/ Shutdown \/ Crash \/ Restart
  \/ \E e \in Events : Age(e)
  \/ ArchiveBegin \/ ArchiveStep \/ ArchiveFails

Spec == Init /\ [][Next]_vars

\* Both workers are ticker loops that run while their process is up, its
\* Deployment restarts it, and an archive run goes on by itself.
FairSpec ==
  /\ Spec
  /\ WF_vars(DrainStep) /\ WF_vars(EmitterStep) /\ WF_vars(Restart)
  /\ WF_vars(ArchiveStep)

-----------------------------------------------------------------------------
(* Properties. *)

Recorded == stored \cup spool \cup archived
InMemory == Range(buffer) \cup Range(batch)

\* The types, and the Emitter's channel never holds more than its capacity.
AuditTypeOK ==
  /\ outbox \in [Rows -> {"absent", "queued", "delivered"}]
  /\ emitted \subseteq Direct /\ accepted \subseteq Events
  /\ drain \in [rows : SUBSET Rows, step : {"emit", "mark"}]
  /\ phase \in {"open", "closing", "down"} /\ flushing \in BOOLEAN
  /\ buffer \in Seq(Events) /\ Len(buffer) <= BufferSize
  /\ batch \in Seq(Events)
  /\ stored \subseteq Events /\ spool \subseteq Events
  /\ old \subseteq Events /\ archived \subseteq Events
  /\ archiver \in [step : {"idle", "list", "encode", "commit", "checksum", "delete"},
                   cutoff : SUBSET Events, page : SUBSET Events, file : SUBSET Events]
  /\ crashed \in BOOLEAN /\ faults \in 0 .. MaxFaults

\* An event Emit accepted is in memory, in the table, in the spool or, once it
\* expired, in an archive with its checksum file: neither a failing database, nor
\* a shutdown racing the two workers, nor the Archiver loses it, as long as the
\* process stops through Shutdown (Emit, flush, drain, Archive).
AcceptedSurvives ==
  \/ crashed
  \/ /\ accepted \subseteq Recorded \cup InMemory
     /\ accepted \ old \subseteq stored \cup spool \cup InMemory

\* Nothing leaves audit_events but what an archive with its checksum file holds,
\* even when expired events arrive while an archive run is under way.
DeletesOnlyArchived == [][stored \ stored' \subseteq archived]_vars

\* Once the failures end, a queued row is acknowledged and, unless a crash took
\* the buffer, in the audit trail: a pass that met a full buffer, a closed one or a
\* failing database leaves it to a later one.
RowsReachTrail ==
  \A r \in Rows :
    outbox[r] = "queued" ~> outbox[r] = "delivered" /\ (r \in Recorded \/ crashed)

\* A run of the Archiver ends. The runs use it on both sides of PageSize.
ArchiveFinishes == archiver.step # "idle" ~> archiver.step = "idle"

\* "Consumption is at-least-once" (audit_outbox_worker.go): a row that was
\* acknowledged is still somewhere in the pipeline.
AcknowledgedSurvives ==
  \A r \in Rows : outbox[r] = "delivered" => r \in Recorded \cup InMemory

=============================================================================
