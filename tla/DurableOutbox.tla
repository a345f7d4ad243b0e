---------------------------- MODULE DurableOutbox ----------------------------
(***************************************************************************)
(* The SQLite-backed uplink journal: DurableOutbox of                      *)
(* edge-store/src/outbox.rs over the uplink tables of edge-store/src/lib.rs *)
(* and the offline repair tool uplink-rescue.                              *)
(*                                                                         *)
(* The variables of UplinkState are the journal in memory; `rows',         *)
(* `cursor' and `gap_rows' are the tables on disk.  Every SQL statement of *)
(* the uplink path commits on its own, so each one is a step here: the     *)
(* process can stop, or the statement fail, between any two of them.  The  *)
(* outbox sits behind one mutex (edge-bin wraps it in Arc<Mutex<..>>), so  *)
(* `op' is the one operation in progress and no other starts before it     *)
(* ends.                                                                   *)
(*                                                                         *)
(* The cloud is external: it stores what is uploaded in sequence order and *)
(* acknowledges any prefix of it.                                          *)
(***************************************************************************)
EXTENDS UplinkState, Sequences, SequencesExt

CONSTANTS
    MaxRecords,   \* max_records: 100_000 in edge-bin
    WarnStride,   \* OVERFLOW_WARN_STRIDE: 1_000
    Retentions,   \* the retention classes callers pass
    Faults,       \* which faults happen: see FaultKinds
    CloudStart    \* sequences the cloud stored for an earlier installation

\* "stop":  the process ends between two operations (restart, update);
\* "torn":  the process ends between two statements of one operation;
\* "store": a statement fails (disk full, lock timeout) and the operation
\*          returns its error.
FaultKinds == {"stop", "torn", "store"}

\* The gap id of an eviction is "capacity-<seq>": here the sequence itself.
ASSUME OutboxAssumption ==
    /\ MaxRecords \in Nat \ {0}
    /\ WarnStride \in Nat \ {0}
    /\ Retentions \subseteq RetentionClass
    /\ Faults \subseteq FaultKinds
    /\ CloudStart \in Cursors
    /\ Seqs \subseteq GapIds

VARIABLES
    up,         \* the process runs and has opened the outbox
    op,         \* the operation that holds the mutex
    warned_at,  \* overflow_warned_at; 0 is None
    rows,       \* table uplink_outbox
    cursor,     \* table uplink_cursor
    gap_rows,   \* gap ids of table uplink_gaps, which nothing reads
    cloud_log,  \* envelope ids the cloud stored, by sequence
    accepted,   \* history: Protected envelopes whose append took effect
    damaged,    \* history: an operation was cut short since the last repair
    cut_short   \* history: an operation was cut short ever

diskVars == <<rows, cursor, gap_rows>>
historyVars == <<accepted, damaged, cut_short>>
outboxVars == <<uplinkVars, up, op, warned_at, diskVars, cloud_log, historyVars>>

-----------------------------------------------------------------------------
Steps == {"idle", "append_cursor", "evict", "evict_delete", "evict_gap",
          "evict_cursor", "ack_delete", "ack_cursor"}
NoRecord == [envelope_id |-> "none", retention |-> "none"]
Op(step, record, todo) == [step |-> step, record |-> record, todo |-> todo]
Idle == Op("idle", NoRecord, {})
At(step) == up /\ op.step = step

\* What an earlier installation of this device had uploaded.
OldEnvelope == "old"
CloudStored == {cloud_log[i] : i \in DOMAIN cloud_log}
RowIds == {rows[s].envelope_id : s \in DOMAIN rows}

OutboxInit ==
    /\ UplinkInit
    /\ up = TRUE
    /\ op = Idle
    /\ warned_at = 0
    /\ rows = EmptyMap
    /\ cursor = [committed |-> 0, last |-> 0]
    /\ gap_rows = {}
    /\ cloud_log = [i \in 1..CloudStart |-> OldEnvelope]
    /\ accepted = {}
    /\ damaged = FALSE
    /\ cut_short = FALSE

-----------------------------------------------------------------------------
(* append: INSERT the row, UPDATE the cursor, publish the new state in      *)
(* memory, then evict_if_needed.                                            *)

\* The INSERT violates the PRIMARY KEY on seq or UNIQUE(envelope_id).
InsertConflict(id) == NextSequence \in DOMAIN rows \/ id \in RowIds

AppendRefused(id) ==
    DuplicateEnvelopeId(id) \/ SequenceExhausted \/ InsertConflict(id)

AppendEnqueue(id, retention) ==
    /\ At("idle")
    /\ ~AppendRefused(id)
    /\ LET record == [envelope_id |-> id, retention |-> retention]
       IN  /\ rows' = Put(rows, NextSequence, record)
           /\ op' = Op("append_cursor", record, {})
    /\ UNCHANGED <<uplinkVars, up, warned_at, cursor, gap_rows, cloud_log,
                   historyVars>>

\* Mutant: the cursor is not advanced with the row.
CursorAfterAppendMutant ==
    [committed |-> committed_through, last |-> last_allocated]

\* The cursor append writes.
CursorAfterAppend == [committed |-> committed_through, last |-> NextSequence]

AppendPublish ==
    /\ At("append_cursor")
    /\ cursor' = CursorAfterAppend
    /\ AppendRecord(op.record.envelope_id, op.record.retention)
    /\ op' = Op("evict", NoRecord, {})
    /\ accepted' = IF op.record.retention = "Protected"
                   THEN accepted \cup {op.record.envelope_id} ELSE accepted
    /\ UNCHANGED <<up, warned_at, rows, gap_rows, cloud_log, damaged, cut_short>>

-----------------------------------------------------------------------------
(* evict_if_needed *)

EvictableIn(m) == {s \in DOMAIN m : m[s].retention = "Evictable"}

\* overflow_warning_due: the throttle of the alarm.
WarningDue(retained) == warned_at = 0 \/ retained >= warned_at + WarnStride

\* overflow_warning
WarnedAfter(retained) == IF WarningDue(retained) THEN retained ELSE warned_at

\* retained_count
Retained == Cardinality(DOMAIN records)

WithinCapacity ==
    /\ Retained <= MaxRecords
    /\ warned_at' = 0
    /\ op' = Idle
    /\ UNCHANGED uplinkVars

Overflowing ==
    /\ Retained > MaxRecords
    /\ EvictableIn(records) = {}
    /\ warned_at' = WarnedAfter(Retained)
    /\ op' = Idle
    /\ UNCHANGED uplinkVars

\* The oldest evictable record becomes a pending loss, in memory first.
EvictOldest ==
    /\ Retained > MaxRecords
    /\ EvictableIn(records) # {}
    /\ LET s == Min(EvictableIn(records))
       IN  /\ DeclareLoss(s, {s})
           /\ op' = Op("evict_delete", NoRecord, {s})
    /\ UNCHANGED warned_at

EvictIfNeeded ==
    /\ At("evict")
    /\ WithinCapacity \/ Overflowing \/ EvictOldest
    /\ UNCHANGED <<up, diskVars, cloud_log, historyVars>>

EvictDelete ==
    /\ At("evict_delete")
    /\ rows' = Without(rows, op.todo)
    /\ op' = [op EXCEPT !.step = "evict_gap"]
    /\ UNCHANGED <<uplinkVars, up, warned_at, cursor, gap_rows, cloud_log,
                   historyVars>>

EvictInsertGap ==
    /\ At("evict_gap")
    /\ gap_rows' = gap_rows \cup op.todo
    /\ op' = [op EXCEPT !.step = "evict_cursor"]
    /\ UNCHANGED <<uplinkVars, up, warned_at, rows, cursor, cloud_log, historyVars>>

\* set_cursor with the cursors in memory.
WriteCursor ==
    cursor' = [committed |-> committed_through, last |-> last_allocated]

EvictFinish ==
    /\ At("evict_cursor")
    /\ WriteCursor
    /\ warned_at' = 0
    /\ op' = Idle
    /\ UNCHANGED <<uplinkVars, up, rows, gap_rows, cloud_log, historyVars>>

-----------------------------------------------------------------------------
(* observe_ack: the state in memory first, then one DELETE per sequence in  *)
(* ascending order, then the cursor.  A stale acknowledgement also rewrites *)
(* the cursor; a refused one returns its error.                             *)

\* Mutant: one row too many is deleted.
AckTodoMutant(c) == IF StaleAck(c) THEN {} ELSE AckDeletes(c + 1)

\* The rows the acknowledgement of c has to delete.
AckTodo(c) == IF StaleAck(c) THEN {} ELSE AckDeletes(c)

AckMemory(c) ==
    /\ At("idle")
    /\ ~AckRefused(c, {})
    /\ ObserveAck(c, {}, FALSE)
    /\ op' = Op(IF AckTodo(c) = {} THEN "ack_cursor" ELSE "ack_delete",
                NoRecord, AckTodo(c))
    /\ UNCHANGED <<up, warned_at, diskVars, cloud_log, historyVars>>

AckDelete ==
    /\ At("ack_delete")
    /\ LET s == Min(op.todo)
       IN  /\ rows' = Without(rows, {s})
           /\ op' = Op(IF op.todo = {s} THEN "ack_cursor" ELSE "ack_delete",
                       NoRecord, op.todo \ {s})
    /\ UNCHANGED <<uplinkVars, up, warned_at, cursor, gap_rows, cloud_log,
                   historyVars>>

AckFinish ==
    /\ At("ack_cursor")
    /\ WriteCursor
    /\ op' = Idle
    /\ UNCHANGED <<uplinkVars, up, warned_at, rows, gap_rows, cloud_log, historyVars>>

-----------------------------------------------------------------------------
(* Faults and start-up *)

\* A statement fails: the operation returns the error with what it has done
\* so far left as it is, in memory and on disk.
StoreError ==
    /\ "store" \in Faults
    /\ up /\ op # Idle /\ op.step # "evict"
    /\ op' = Idle
    /\ damaged' = TRUE /\ cut_short' = TRUE
    /\ UNCHANGED <<uplinkVars, up, warned_at, diskVars, cloud_log, accepted>>

\* The memory of the process is gone: it is as good as empty until Open.
Stop ==
    /\ up
    /\ IF op = Idle THEN "stop" \in Faults ELSE "torn" \in Faults
    /\ up' = FALSE
    /\ op' = Idle
    /\ warned_at' = 0
    /\ Rehydrate(0, 0, EmptyMap)
    /\ damaged' = (damaged \/ op # Idle)
    /\ cut_short' = (cut_short \/ op # Idle)
    /\ UNCHANGED <<diskVars, cloud_log, accepted>>

\* capacity_overflow at start-up.
OverCapacityOnDisk ==
    Cardinality(DOMAIN rows) > MaxRecords /\ EvictableIn(rows) = {}

\* from_store raises the alarm for a journal that is over capacity already.
WarnedAtBoot == IF OverCapacityOnDisk THEN Cardinality(DOMAIN rows) ELSE 0

\* from_store: when the journal is refused the process does not start.
Open ==
    /\ ~up
    /\ Rehydrate(cursor.committed, cursor.last, rows)
    /\ up' = TRUE
    /\ warned_at' = WarnedAtBoot
    /\ UNCHANGED <<op, diskVars, cloud_log, historyVars>>

-----------------------------------------------------------------------------
(* uplink-rescue <n>: offline, in one transaction, with the cloud's cursor. *)

CloudCursor == Len(cloud_log)

\* The k-th row in ascending order gets sequence n + k.
RankIn(S, s) == Cardinality({t \in S : t <= s})
\* Mutant: numbering starts at the cloud's cursor, not above it.
RenumberedMutant(n) ==
    [s \in n..(n + Cardinality(DOMAIN rows) - 1) |->
        rows[CHOOSE t \in DOMAIN rows : n + RankIn(DOMAIN rows, t) = s + 1]]

Renumbered(n) ==
    [s \in (n + 1)..(n + Cardinality(DOMAIN rows)) |->
        rows[CHOOSE t \in DOMAIN rows : n + RankIn(DOMAIN rows, t) = s]]

RescueTarget(n) == [committed |-> n, last |-> n + Cardinality(DOMAIN rows)]

\* AlreadyAbove
AlreadyAbove(n) ==
    cursor = RescueTarget(n) /\ DOMAIN rows = (n + 1)..cursor.last

Rescue(n) ==
    /\ ~up
    /\ n # 0                      \* refused: "no rescue needed"
    /\ n >= cursor.committed      \* else CloudWentBackwards
    /\ n + Cardinality(DOMAIN rows) <= MaxSeq
    /\ ~AlreadyAbove(n)
    /\ rows' = Renumbered(n)
    /\ cursor' = RescueTarget(n)
    /\ gap_rows' = {}
    /\ damaged' = FALSE
    /\ UNCHANGED <<uplinkVars, up, op, warned_at, cloud_log, accepted, cut_short>>

-----------------------------------------------------------------------------
(* The cloud.  What is sent is what `retained' reads from disk above the    *)
(* cursor in memory; the cloud stores the next sequence it lacks.           *)

Upload ==
    /\ At("idle")
    /\ CloudCursor + 1 \in DOMAIN rows
    /\ CloudCursor + 1 > committed_through
    /\ cloud_log' = Append(cloud_log, rows[CloudCursor + 1].envelope_id)
    /\ UNCHANGED <<uplinkVars, up, op, warned_at, diskVars, historyVars>>

-----------------------------------------------------------------------------
OutboxNext ==
    \/ \E id \in EnvelopeIds, r \in Retentions : AppendEnqueue(id, r)
    \/ AppendPublish
    \/ EvictIfNeeded \/ EvictDelete \/ EvictInsertGap \/ EvictFinish
    \/ \E c \in 0..CloudCursor : AckMemory(c)
    \/ AckDelete \/ AckFinish
    \/ StoreError \/ Stop \/ Open
    \/ Rescue(CloudCursor)
    \/ Upload

OutboxSpec == OutboxInit /\ [][OutboxNext]_outboxVars

-----------------------------------------------------------------------------
(* Properties *)

\* The types of the tables and of the operation in progress.
OutboxTypeOK ==
    /\ UplinkTypeOK
    /\ up \in BOOLEAN
    /\ op \in [step : Steps, record : UplinkRecord \cup {NoRecord},
               todo : SUBSET Seqs]
    /\ warned_at \in Nat
    /\ IsMap(rows, Seqs, UplinkRecord)
    /\ cursor \in [committed : Cursors, last : Cursors]
    /\ gap_rows \subseteq Seqs
    /\ cloud_log \in Seq(EnvelopeIds \cup {OldEnvelope})
    /\ accepted \subseteq EnvelopeIds
    /\ damaged \in BOOLEAN
    /\ cut_short \in BOOLEAN

\* Nothing that was queued is lost: a Protected envelope whose append took
\* effect is on disk until the cloud has stored it, through torn operations,
\* failed statements, restarts and repairs.
NoLoss == accepted \subseteq CloudStored \cup RowIds

\* A row at a sequence the cloud has stored is the envelope the cloud stored
\* there, so that what an acknowledgement deletes is what was delivered.
CloudMatches ==
    \A s \in DOMAIN rows : s <= CloudCursor => cloud_log[s] = rows[s].envelope_id

\* Between operations the journal in memory is the journal on disk: what
\* the process decides on is what a restart would find.  An operation that was
\* cut short breaks this, uplink-rescue repairs it.
DiskAgrees ==
    (At("idle") /\ ~damaged) =>
        /\ rows = records
        /\ cursor = [committed |-> committed_through, last |-> last_allocated]

\* As long as nothing was evicted, every sequence above the committed cursor
\* has its row and no row lies outside (rehydrate checks the second half
\* only), so that observe_ack refuses nothing the cloud can acknowledge.  A
\* refusal would be for ever: the cloud's cursor does not move back.
AcksAccepted ==
    (op = Idle /\ ~damaged /\ gap_rows = {}) =>
        /\ DOMAIN rows = (cursor.committed + 1)..cursor.last
        /\ up => \A c \in 0..CloudCursor : ~AckRefused(c, {})

\* The capacity is exceeded by Protected records only, and then the alarm has
\* been raised, at append or at start-up, and the throttle remembers it.  The
\* first holds until an operation is cut short: an append evicts one record at
\* most, so a journal that came back over capacity keeps evictable ones.  The
\* second also ends with the first eviction of this process, which forgets the
\* alarm (overflow_warned_at = None) though Protected records alone may still
\* exceed the capacity: the next of them raises it again, stride or not.
OverflowSignalled ==
    (At("idle") /\ ~cut_short /\ Retained > MaxRecords) =>
        /\ EvictableIn(records) = {}
        /\ pending_gaps = EmptyMap => warned_at # 0

\* What the process knows, what is on disk and what it has warned of agree.
OutboxInv == OutboxTypeOK /\ DiskAgrees /\ AcksAccepted /\ OverflowSignalled

\* The journal on disk can always be opened again (edge-uplink/src/lib.rs:
\* "must atomically persist each state transition").
JournalReopens ==
    ~up => ~InvalidRestoredJournal(cursor.committed, cursor.last, rows)
=============================================================================
